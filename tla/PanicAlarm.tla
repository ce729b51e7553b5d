----------------------------- MODULE PanicAlarm -----------------------------
(***************************************************************************)
(* PanicAlarm (src/vss-bridge/src/features/panic_alarm.rs): a press of the *)
(* fob's panic button starts a task that pulses the indicators and the     *)
(* horn, the next press or an unlock from outside stops it.  A press while *)
(* another alarm has raised Vehicle.Body.Alarm.IsActive is left to that    *)
(* alarm.                                                                  *)
(*                                                                         *)
(* Pulses are abstracted to the claims the task holds: a claim for "off"   *)
(* is as much a claim as one for "on".                                     *)
(***************************************************************************)
EXTENDS Naturals, Sequences

VARIABLES
    engaged,     \* the engaged latch; a pulse task exists exactly while it is TRUE
    flagCache,   \* alarm_status_cache
    panicClaims, \* the outputs PanicAlarm has a claim on
    pressQ,      \* panic events PanicAlarm has not read
    feedbackQ,   \* "unlock" feedback requests it has not read
    flagQ,       \* values of Alarm.IsActive it has not read
    flag         \* Alarm.IsActive on the bus

panicVars == <<engaged, flagCache, panicClaims, pressQ, feedbackQ, flagQ, flag>>

PanicTypeOK ==
    /\ engaged \in BOOLEAN /\ flagCache \in BOOLEAN /\ flag \in BOOLEAN
    /\ panicClaims \subseteq {"indicators", "horn"}
    /\ pressQ \in Nat /\ feedbackQ \in Nat
    /\ flagQ \in Seq(BOOLEAN)

PanicInit ==
    /\ engaged = FALSE /\ flagCache = FALSE /\ flag = FALSE
    /\ panicClaims = {}
    /\ pressQ = 0 /\ feedbackQ = 0 /\ flagQ = <<>>

\* publish(ALARM_STATUS, b), by either alarm.
SetFlag(b) == flag' = b /\ flagQ' = Append(flagQ, b)

Engage == engaged' = TRUE /\ SetFlag(TRUE) /\ UNCHANGED panicClaims

\* The task is aborted and has ended before its claims are released.
Disengage == engaged' = FALSE /\ panicClaims' = {} /\ SetFlag(FALSE)

-----------------------------------------------------------------------------
(* The biased select: press, unlock feedback, flag.                        *)

ReadPress ==
    /\ pressQ > 0
    /\ pressQ' = pressQ - 1
    /\ \/ ~engaged /\ flagCache /\ UNCHANGED <<engaged, panicClaims, flag, flagQ>>
       \/ ~engaged /\ ~flagCache /\ Engage
       \/ engaged /\ Disengage
    /\ UNCHANGED <<flagCache, feedbackQ>>

ReadFeedback ==
    /\ pressQ = 0
    /\ feedbackQ > 0
    /\ feedbackQ' = feedbackQ - 1
    /\ IF engaged THEN Disengage ELSE UNCHANGED <<engaged, panicClaims, flag, flagQ>>
    /\ UNCHANGED <<flagCache, pressQ>>

ReadFlag ==
    /\ pressQ = 0 /\ feedbackQ = 0
    /\ flagQ # <<>>
    /\ flagCache' = Head(flagQ)
    /\ flagQ' = Tail(flagQ)
    /\ UNCHANGED <<engaged, panicClaims, pressQ, feedbackQ, flag>>

\* One claim of pulse_loop; it may be aborted between the two.
Pulse ==
    /\ engaged
    /\ \/ panicClaims = {} /\ panicClaims' = {"indicators"}
       \/ panicClaims = {"indicators"} /\ panicClaims' = {"indicators", "horn"}
    /\ UNCHANGED <<engaged, flagCache, pressQ, feedbackQ, flagQ, flag>>

PanicRead == ReadPress \/ ReadFeedback \/ ReadFlag

PanicUnread == pressQ > 0 \/ feedbackQ > 0 \/ flagQ # <<>>
=============================================================================
