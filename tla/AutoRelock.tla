----------------------------- MODULE AutoRelock -----------------------------
(***************************************************************************)
(* AutoRelock (src/vss-bridge/src/features/auto_relock.rs): an unlock from *)
(* outside starts a timer; unless a door is opened, the doors are locked   *)
(* or a crash is detected, its expiry requests LockAll.  A crash disables  *)
(* the feature until the ignition has gone off and on again.               *)
(*                                                                         *)
(* The feature reads six kinds of broadcast streams, each with its own     *)
(* backlog; select! is biased, so which stream is read first matters.  The *)
(* door-lock arbiter, the plant, the doors, the Safety Monitor and the     *)
(* ignition are the environment; a command of the arbiter is published in  *)
(* its real order (command token, LockStatus, LastRequestor) while the     *)
(* plant moves the locks at any time after the token.                      *)
(*                                                                         *)
(* Nobody reads the ignition's stream while the feature is enabled: its    *)
(* backlog begins with the OFF that VehicleStartingControl publishes at    *)
(* boot (features/vehicle_starting_control.rs:236).  Streams do not lag.   *)
(***************************************************************************)
EXTENDS Naturals, Sequences

CONSTANTS
    Doors,     \* the doors
    External,  \* requestors in EXTERNAL_UNLOCK_REQUESTORS
    Internal,  \* the other requestors
    None,      \* no value
    Timeout,   \* the relock timeout, in ticks
    Budget,    \* bound: how many things happen in the environment
    Prompt,    \* TRUE: before the clock ticks (seconds) the feature has read its
               \* streams and a command of the arbiter is executed (milliseconds)
    KeepsUp    \* TRUE: and before the arbiter's next command

Requestors == External \cup Internal

\* One command of the arbiter as its LastRequestor value stands for it: who
\* asked and (for the properties) what the command made the status.
Command == [requestor : Requestors, status : {"UNLOCKED", "LOCKED"}]

ASSUME RelockAssumption ==
    /\ Timeout \in Nat \ {0}
    /\ Budget \in Nat
    /\ {Prompt, KeepsUp} \subseteq BOOLEAN
    /\ External \cap Internal = {}
    /\ None \notin Command \cup {"UNLOCKED", "LOCKED"}

VARIABLES
    mode,        \* "idle" (phase 1), "armed" (phase 2), "waitOff", "waitOn"
    timer,       \* ticks until the sleep of phase 2 ends
    statusCache, \* status_cache
    doorOpen,    \* door_open
    armedBy,     \* history: the command that armed the timer
    requests,    \* history: how many LockAll requests were made
    crashQ, statusQ, requestorQ, lockQ, powerQ, \* unread values of the streams
    openQ,       \* per door: unread values of IsOpen
    command,     \* the command the arbiter is publishing, or None
    stage,       \* what it has published: "token", "status" or "all"
    moved,       \* the plant has executed the command
    locked,      \* the doors are locked
    open,        \* per door: the door is open
    power,       \* the ignition
    crash,       \* "none", "latched", "off" (power cycle half done), "over"
    cycle,       \* history: the same, for what the feature is given to read
    budget       \* how many more things may happen in the environment

featureVars == <<mode, timer, statusCache, doorOpen, armedBy, requests>>
streamVars  == <<crashQ, statusQ, requestorQ, lockQ, powerQ, openQ>>
worldVars   == <<command, stage, moved, locked, open, power, crash, cycle, budget>>
vars        == <<featureVars, streamVars, worldVars>>

TypeOK ==
    /\ mode \in {"idle", "armed", "waitOff", "waitOn"}
    /\ timer \in 0..Timeout
    /\ statusCache \in {"UNLOCKED", "LOCKED", None}
    /\ doorOpen \in [Doors -> BOOLEAN]
    /\ armedBy \in Command \cup {None}
    /\ requests \in Nat
    /\ crashQ \in Seq(BOOLEAN)
    /\ statusQ \in Seq({"UNLOCKED", "LOCKED"})
    /\ requestorQ \in Seq(Command)
    /\ lockQ \in Seq(BOOLEAN)
    /\ powerQ \in Seq({"on", "off"})
    /\ openQ \in [Doors -> Seq(BOOLEAN)]
    /\ command \in Command \cup {None}
    /\ stage \in {"token", "status", "all"}
    /\ {moved, locked} \subseteq BOOLEAN
    /\ open \in [Doors -> BOOLEAN]
    /\ power \in {"on", "off"}
    /\ {crash, cycle} \subseteq {"none", "latched", "off", "over"}
    /\ budget \in 0..Budget

-----------------------------------------------------------------------------
(* Helpers.                                                                *)

AnyOpen(f) == \E d \in Doors : f[d]

\* Whether any stream the enabled feature reads has an unread value.
Unread ==
    \/ crashQ # <<>> \/ statusQ # <<>> \/ requestorQ # <<>> \/ lockQ # <<>>
    \/ \E d \in Doors : openQ[d] # <<>>

Settled == ~Unread /\ command = None

ShouldArmForAnyone(c) == statusCache = "UNLOCKED"

\* event_should_arm: the requestor of the command at hand, and the cached status.
ShouldArm(c) == statusCache = "UNLOCKED" /\ c.requestor \in External

\* A new sleep(timeout) is started in every round of phase 2's loop.
SleepAgain == timer' = Timeout

\* How far a power cycle is when the ignition becomes v.
Cycled(c, v) ==
    CASE c = "latched" /\ v = "off" -> "off"
      [] c = "off" /\ v = "on"      -> "over"
      [] OTHER                      -> c

\* How far the values of q take it.
CycleIn(q) ==
    IF \E i, j \in DOMAIN q : i < j /\ q[i] = "off" /\ q[j] = "on" THEN "over"
    ELSE IF \E i \in DOMAIN q : q[i] = "off" THEN "off"
    ELSE "latched"

-----------------------------------------------------------------------------
(* Phase 1: crash, status, requestor, IsLocked and IsOpen, in this order.  *)

IdleCrash ==
    /\ mode = "idle"
    /\ crashQ # <<>>
    /\ crashQ' = Tail(crashQ)
    /\ mode' = IF Head(crashQ) THEN "waitOff" ELSE "idle"
    /\ UNCHANGED <<timer, statusCache, doorOpen, armedBy, requests,
                   statusQ, requestorQ, lockQ, powerQ, openQ, worldVars>>

IdleStatus ==
    /\ mode = "idle"
    /\ crashQ = <<>>
    /\ statusQ # <<>>
    /\ statusCache' = Head(statusQ)
    /\ statusQ' = Tail(statusQ)
    /\ UNCHANGED <<mode, timer, doorOpen, armedBy, requests,
                   crashQ, requestorQ, lockQ, powerQ, openQ, worldVars>>

\* A qualifying unlock arms the timer unless a door is already open.
IdleRequestor ==
    /\ mode = "idle"
    /\ crashQ = <<>> /\ statusQ = <<>>
    /\ requestorQ # <<>>
    /\ requestorQ' = Tail(requestorQ)
    /\ IF ShouldArm(Head(requestorQ)) /\ ~AnyOpen(doorOpen)
       THEN mode' = "armed" /\ SleepAgain /\ armedBy' = Head(requestorQ)
       ELSE UNCHANGED <<mode, timer, armedBy>>
    /\ UNCHANGED <<statusCache, doorOpen, requests,
                   crashQ, statusQ, lockQ, powerQ, openQ, worldVars>>

IdleLocked ==
    /\ mode = "idle"
    /\ crashQ = <<>> /\ statusQ = <<>> /\ requestorQ = <<>>
    /\ lockQ # <<>>
    /\ lockQ' = Tail(lockQ)
    /\ UNCHANGED <<featureVars, crashQ, statusQ, requestorQ, powerQ, openQ, worldVars>>

IdleOpenDrained(d) ==
    /\ mode = "idle"
    /\ crashQ = <<>> /\ statusQ = <<>> /\ requestorQ = <<>> /\ lockQ = <<>>
    /\ openQ[d] # <<>>
    /\ openQ' = [openQ EXCEPT ![d] = Tail(@)]
    /\ UNCHANGED <<featureVars, crashQ, statusQ, requestorQ, lockQ, powerQ, worldVars>>

IdleOpen(d) ==
    /\ mode = "idle"
    /\ crashQ = <<>> /\ statusQ = <<>> /\ requestorQ = <<>> /\ lockQ = <<>>
    /\ openQ[d] # <<>>
    /\ doorOpen' = [doorOpen EXCEPT ![d] = Head(openQ[d])]
    /\ openQ' = [openQ EXCEPT ![d] = Tail(@)]
    /\ UNCHANGED <<mode, timer, statusCache, armedBy, requests,
                   crashQ, statusQ, requestorQ, lockQ, powerQ, worldVars>>

-----------------------------------------------------------------------------
(* Phase 2: the sleep, then crash, IsOpen, IsLocked, status, requestor.    *)

\* Back to phase 1 without a relock.
Cancel == mode' = "idle" /\ timer' = 0

Tick ==
    /\ mode = "armed"
    /\ timer > 1
    /\ Prompt => Settled
    /\ timer' = timer - 1
    /\ UNCHANGED <<mode, statusCache, doorOpen, armedBy, requests, streamVars, worldVars>>

ExpireWhenAjar ==
    /\ mode = "armed"
    /\ timer = 1
    /\ Prompt => Settled
    /\ Cancel
    /\ requests' = IF AnyOpen(doorOpen) THEN requests + 1 ELSE requests
    /\ UNCHANGED <<statusCache, doorOpen, armedBy, streamVars, worldVars>>

\* The sleep ends; LockAll is requested unless a door is known to be open.
Expire ==
    /\ mode = "armed"
    /\ timer = 1
    /\ Prompt => Settled
    /\ Cancel
    /\ requests' = IF AnyOpen(doorOpen) THEN requests ELSE requests + 1
    /\ UNCHANGED <<statusCache, doorOpen, armedBy, streamVars, worldVars>>

ArmedCrash ==
    /\ mode = "armed"
    /\ crashQ # <<>>
    /\ crashQ' = Tail(crashQ)
    /\ IF Head(crashQ)
       THEN mode' = "waitOff" /\ timer' = 0
       ELSE SleepAgain /\ UNCHANGED mode
    /\ UNCHANGED <<statusCache, doorOpen, armedBy, requests,
                   statusQ, requestorQ, lockQ, powerQ, openQ, worldVars>>

ArmedOpen(d) ==
    /\ mode = "armed"
    /\ crashQ = <<>>
    /\ openQ[d] # <<>>
    /\ doorOpen' = [doorOpen EXCEPT ![d] = Head(openQ[d])]
    /\ openQ' = [openQ EXCEPT ![d] = Tail(@)]
    /\ IF Head(openQ[d]) THEN Cancel ELSE SleepAgain /\ UNCHANGED mode
    /\ UNCHANGED <<statusCache, armedBy, requests,
                   crashQ, statusQ, requestorQ, lockQ, powerQ, worldVars>>

\* Locked by somebody else: the timer is cancelled.
ArmedLocked ==
    /\ mode = "armed"
    /\ crashQ = <<>> /\ \A d \in Doors : openQ[d] = <<>>
    /\ lockQ # <<>>
    /\ lockQ' = Tail(lockQ)
    /\ IF Head(lockQ) THEN Cancel ELSE SleepAgain /\ UNCHANGED mode
    /\ UNCHANGED <<statusCache, doorOpen, armedBy, requests,
                   crashQ, statusQ, requestorQ, powerQ, openQ, worldVars>>

ArmedStatus ==
    /\ mode = "armed"
    /\ crashQ = <<>> /\ lockQ = <<>> /\ \A d \in Doors : openQ[d] = <<>>
    /\ statusQ # <<>>
    /\ statusCache' = Head(statusQ)
    /\ statusQ' = Tail(statusQ)
    /\ SleepAgain
    /\ UNCHANGED <<mode, doorOpen, armedBy, requests,
                   crashQ, requestorQ, lockQ, powerQ, openQ, worldVars>>

\* A qualifying unlock restarts the timer; any other value does so too, as
\* the round of the loop ends.
ArmedRequestor ==
    /\ mode = "armed"
    /\ ~(crashQ # <<>> \/ lockQ # <<>> \/ statusQ # <<>> \/ \E d \in Doors : openQ[d] # <<>>)
    /\ requestorQ # <<>>
    /\ requestorQ' = Tail(requestorQ)
    /\ armedBy' = IF ShouldArm(Head(requestorQ)) THEN Head(requestorQ) ELSE armedBy
    /\ SleepAgain
    /\ UNCHANGED <<mode, statusCache, doorOpen, requests,
                   crashQ, statusQ, lockQ, powerQ, openQ, worldVars>>

-----------------------------------------------------------------------------
(* DISABLED: wait_for_power_cycle reads only the power and crash streams.  *)

WaitCrash ==
    /\ mode \in {"waitOff", "waitOn"}
    /\ crashQ # <<>>
    /\ crashQ' = Tail(crashQ)
    /\ UNCHANGED <<featureVars, statusQ, requestorQ, lockQ, powerQ, openQ, worldVars>>

ModeAfterHalfCycle(v) ==
    IF v = "off" THEN "idle" ELSE mode

\* off first, then on.
ModeAfterPower(v) ==
    IF mode = "waitOff" /\ v = "off" THEN "waitOn"
    ELSE IF mode = "waitOn" /\ v = "on" THEN "idle"
    ELSE mode

WaitPower ==
    /\ mode \in {"waitOff", "waitOn"}
    /\ powerQ # <<>>
    /\ powerQ' = Tail(powerQ)
    /\ mode' = ModeAfterPower(Head(powerQ))
    /\ UNCHANGED <<timer, statusCache, doorOpen, armedBy, requests,
                   crashQ, statusQ, requestorQ, lockQ, openQ, worldVars>>

-----------------------------------------------------------------------------
(* The environment.                                                        *)

Spend == budget > 0 /\ budget' = budget - 1

\* The arbiter dispatches its next command; the previous one is published and
\* acknowledged.
SendCommand(r, s) ==
    /\ Spend
    /\ command = None
    /\ KeepsUp => statusQ = <<>> /\ requestorQ = <<>>
    /\ command' = [requestor |-> r, status |-> s]
    /\ stage' = "token"
    /\ moved' = FALSE
    /\ UNCHANGED <<featureVars, streamVars, locked, open, power, crash, cycle>>

\* The plant moves the locks and publishes IsLocked if that changed anything.
PlantMoves ==
    /\ command # None
    /\ ~moved
    /\ moved' = TRUE
    /\ locked' = (command.status = "LOCKED")
    /\ lockQ' = IF locked' # locked THEN Append(lockQ, locked') ELSE lockQ
    /\ UNCHANGED <<featureVars, crashQ, statusQ, requestorQ, powerQ, openQ,
                   command, stage, open, power, crash, cycle, budget>>

PublishStatus ==
    /\ command # None
    /\ stage = "token"
    /\ stage' = "status"
    /\ statusQ' = Append(statusQ, command.status)
    /\ UNCHANGED <<featureVars, crashQ, requestorQ, lockQ, powerQ, openQ,
                   command, moved, locked, open, power, crash, cycle, budget>>

PublishRequestor ==
    /\ command # None
    /\ stage = "status"
    /\ stage' = "all"
    /\ requestorQ' = Append(requestorQ, command)
    /\ UNCHANGED <<featureVars, crashQ, statusQ, lockQ, powerQ, openQ,
                   command, moved, locked, open, power, crash, cycle, budget>>

\* The acknowledgement lets the arbiter take the next request.
EndCommand ==
    /\ command # None
    /\ stage = "all"
    /\ moved
    /\ command' = None
    /\ UNCHANGED <<featureVars, streamVars, stage, moved,
                   locked, open, power, crash, cycle, budget>>

MoveDoor(d) ==
    /\ Spend
    /\ open' = [open EXCEPT ![d] = ~@]
    /\ openQ' = [openQ EXCEPT ![d] = Append(@, open'[d])]
    /\ UNCHANGED <<featureVars, crashQ, statusQ, requestorQ, lockQ, powerQ,
                   command, stage, moved, locked, power, crash, cycle>>

\* The Safety Monitor reports a crash, once, or that there is none.
ReportCrash(b) ==
    /\ Spend
    /\ b => crash = "none"
    /\ crashQ' = Append(crashQ, b)
    /\ crash' = IF b THEN CycleIn(<<power>>) ELSE crash
    /\ cycle' = IF b THEN CycleIn(powerQ) ELSE cycle
    /\ UNCHANGED <<featureVars, statusQ, requestorQ, lockQ, powerQ, openQ,
                   command, stage, moved, locked, open, power>>

SwitchPower ==
    /\ Spend
    /\ power' = IF power = "on" THEN "off" ELSE "on"
    /\ powerQ' = Append(powerQ, power')
    /\ crash' = Cycled(crash, power')
    /\ cycle' = Cycled(cycle, power')
    /\ UNCHANGED <<featureVars, crashQ, statusQ, requestorQ, lockQ, openQ,
                   command, stage, moved, locked, open>>

-----------------------------------------------------------------------------

\* A vehicle parked locked with its doors closed.
Init ==
    /\ mode = "idle" /\ timer = 0 /\ statusCache = None
    /\ doorOpen = [d \in Doors |-> FALSE]
    /\ armedBy = None /\ requests = 0
    /\ crashQ = <<>> /\ statusQ = <<"LOCKED">> /\ requestorQ = <<>>
    /\ lockQ = <<TRUE>> /\ powerQ = <<"off">>
    /\ openQ = [d \in Doors |-> <<FALSE>>]
    /\ command = None /\ stage = "all" /\ moved = TRUE
    /\ locked = TRUE
    /\ open = [d \in Doors |-> FALSE]
    /\ power = "off" /\ crash = "none" /\ cycle = "none"
    /\ budget = Budget

Read ==
    \/ IdleCrash \/ IdleStatus \/ IdleRequestor \/ IdleLocked
    \/ ArmedCrash \/ ArmedLocked \/ ArmedStatus \/ ArmedRequestor
    \/ \E d \in Doors : IdleOpen(d) \/ ArmedOpen(d)
    \/ WaitCrash \/ WaitPower

Arbiter == PlantMoves \/ PublishStatus \/ PublishRequestor \/ EndCommand

Next ==
    \/ Read
    \/ Tick
    \/ Expire
    \/ Arbiter
    \/ \E r \in Requestors, s \in {"UNLOCKED", "LOCKED"} : SendCommand(r, s)
    \/ \E d \in Doors : MoveDoor(d)
    \/ \E b \in BOOLEAN : ReportCrash(b)
    \/ SwitchPower

Spec == Init /\ [][Next]_vars

\* The feature's task is polled when a stream has a value or the sleep ends,
\* time passes, and the arbiter and the plant finish a command they began.
FairSpec == Spec /\ WF_vars(Read) /\ WF_vars(Tick) /\ WF_vars(Expire) /\ WF_vars(Arbiter)

-----------------------------------------------------------------------------
(* Properties.                                                             *)

Relocks == requests' # requests

\* The feature never asks to lock a car one of whose doors is open, though it
\* knows the doors only through streams it reads last.
NoRelockWithDoorOpen == [][Relocks => ~AnyOpen(open)]_vars

\* After a crash the feature does not ask to lock the car before it has been given
\* an OFF and then an ON to read, those it left unread before the crash included: all
\* that its lockout amounts to.
LockoutTakesCycle == [][Relocks => cycle \in {"none", "over"}]_vars

\* As the header has it (auto_relock.rs:13-18): after a crash the feature does not ask
\* to lock the car before the ignition has gone off, if it is not off, and on again.
NoRelockAfterCrash == [][Relocks => crash \in {"none", "over"}]_vars

\* The timer runs only because of a command that unlocked the car and came
\* from outside it.
ArmedByExternalUnlock ==
    mode = "armed" => armedBy.status = "UNLOCKED" /\ armedBy.requestor \in External

\* Its expiry ends in a request if the doors stay closed and nobody locks.
RelockHappens ==
    (mode = "armed" /\ budget = 0 /\ command = None /\ ~Unread)
        ~> (mode = "idle" /\ requests > 0)
=============================================================================
