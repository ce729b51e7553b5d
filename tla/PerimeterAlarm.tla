--------------------------- MODULE PerimeterAlarm ---------------------------
(***************************************************************************)
(* PerimeterAlarm (src/vss-bridge/src/features/perimeter_alarm.rs) next to *)
(* PanicAlarm, with which it shares the panic button, the outputs and the  *)
(* flag Alarm.IsActive.  A lock by a trusted requestor starts the grace    *)
(* period, its end arms the alarm; a door that opens or an unlock from     *)
(* inside starts the alarm task: chime, then lights and horn, then lights. *)
(* An unlock by the owner, the panic button or a running engine stops it.  *)
(*                                                                         *)
(* DOUBLE_LOCKED counts as LOCKED and DRIVER_UNLOCKED as UNLOCKED, as they *)
(* do for the feature.  Its streams are read in the order of the biased    *)
(* select; the door-lock arbiter publishes LockStatus, LastRequestor and   *)
(* EventNum of a command one by one.  A tick is half a pulse; it passes    *)
(* when every stream (milliseconds) has been read.                         *)
(***************************************************************************)
EXTENDS PanicAlarm

CONSTANTS
    Requestors,  \* who may lock and unlock
    AuthSources, \* EXTERNAL_AUTH_SOURCES: their unlocks disarm
    Internal,    \* INTERNAL_UNLOCK_SOURCES: their unlocks are tampering
    Trusted,     \* EXTERNAL_LOCK_REQUESTORS: their locks arm
    None,        \* no value
    GraceTicks,  \* PRE_ARM_DURATION_SECS
    ChimeTicks,  \* CHIME_DURATION_SECS
    HornTicks,   \* HORN_DURATION_SECS
    LightTicks,  \* LIGHTS_DURATION_SECS
    Budget       \* bound: how many things happen in the environment

Command == [requestor : Requestors, status : {"UNLOCKED", "LOCKED"}]

ASSUME AlarmAssumption ==
    /\ AuthSources \cup Internal \cup Trusted \subseteq Requestors
    /\ AuthSources \cap Internal = {}
    /\ {GraceTicks, ChimeTicks, HornTicks, LightTicks} \subseteq Nat \ {0}
    /\ HornTicks <= LightTicks
    /\ Budget \in Nat
    /\ None \notin Command \cup Requestors \cup Nat

VARIABLES
    state,      \* current_state, and Vehicle.Controller.Alarm.State
    task,       \* the alarm task: "none", "spawned", in its "on" or "off" half
                \* pulse, or "done" and its handle not yet taken
    asleep,     \* the task waits for the end of its half pulse
    elapsed,    \* ticks since the task started
    chime,      \* Chime.IsActive
    claims,     \* the outputs PerimeterAlarm has a claim on
    preArm,     \* ticks until pre_arm_deadline, or None when it is parked
    lockStatus, lastRequestor, \* the caches of the two signals
    latch,      \* armed_when_unlocked
    ignitionLive, \* ignition_live
    statusQ, requestorQ, doorQ, eventQ, panicQ, powerQ, doneQ, \* unread values
    command,    \* the command the arbiter is publishing, or None
    stage,      \* the last signal of it that was published
    fedBack,    \* its feedback request was published, or it has none
    lastCommand, \* history: the command whose LockStatus was published last
    excuse,     \* history: when that command was handled or since, the engine ran, or
                \* a panic press or the message of its end stopped the alarm since
    watched,    \* history: ticks since the feature entered PRE_ARMED, up to GraceTicks
    budget      \* how many more things may happen in the environment

fsmVars    == <<state, preArm, lockStatus, lastRequestor, latch, ignitionLive>>
taskVars   == <<task, asleep, elapsed, chime, claims>>
streamVars == <<statusQ, requestorQ, doorQ, eventQ, panicQ, powerQ, doneQ>>
worldVars  == <<command, stage, fedBack, lastCommand, budget>>
histVars   == <<excuse, watched>>
vars       == <<panicVars, fsmVars, taskVars, streamVars, worldVars, histVars>>

Outputs == {"lights", "horn"}
End     == ChimeTicks + LightTicks

FsmTypeOK ==
    /\ state \in {"DISARMED", "PRE_ARMED", "ARMED", "ACTIVATED"}
    /\ preArm \in 0..GraceTicks \cup {None}
    /\ lockStatus \in {"UNLOCKED", "LOCKED"}
    /\ lastRequestor \in Requestors \cup {None}
    /\ latch \in BOOLEAN /\ ignitionLive \in BOOLEAN

TaskTypeOK ==
    /\ task \in {"none", "spawned", "on", "off", "done"}
    /\ asleep \in BOOLEAN /\ chime \in BOOLEAN
    /\ elapsed \in 0..(End + 1)
    /\ claims \subseteq Outputs

StreamTypeOK ==
    /\ statusQ \in Seq({"UNLOCKED", "LOCKED"})
    /\ requestorQ \in Seq(Requestors)
    /\ doorQ \in Nat /\ eventQ \in Nat /\ panicQ \in Nat /\ doneQ \in Nat
    /\ powerQ \in Seq(BOOLEAN)

WorldTypeOK ==
    /\ command \in Command \cup {None}
    /\ lastCommand \in Command \cup {None}
    /\ stage \in {"token", "status", "requestor", "event"}
    /\ fedBack \in BOOLEAN
    /\ budget \in 0..Budget

HistTypeOK ==
    /\ excuse \in BOOLEAN
    /\ watched \in 0..GraceTicks

TypeOK ==
    PanicTypeOK /\ FsmTypeOK /\ TaskTypeOK /\ StreamTypeOK /\ WorldTypeOK /\ HistTypeOK

-----------------------------------------------------------------------------
(* The alarm task (run_alarm).                                             *)

Running == task \in {"spawned", "on", "off"}

\* start_alarm; the task's clock starts when it is polled first.
Start ==
    /\ task' = "spawned" /\ asleep' = FALSE /\ elapsed' = 0
    /\ latch' = FALSE
    /\ state' = "ACTIVATED"
    /\ UNCHANGED <<chime, claims>>

DisarmQuietly ==
    /\ task' = "none" /\ asleep' = FALSE /\ elapsed' = 0
    /\ claims' = {}
    /\ UNCHANGED chime
    /\ SetFlag(FALSE)
    /\ UNCHANGED <<engaged, flagCache, panicClaims, pressQ, feedbackQ>>

\* disarm: the task is aborted and has ended before its claims are released.
Disarm ==
    /\ task' = "none" /\ asleep' = FALSE /\ elapsed' = 0
    /\ claims' = {}
    /\ chime' = FALSE
    /\ SetFlag(FALSE)
    /\ UNCHANGED <<engaged, flagCache, panicClaims, pressQ, feedbackQ>>

\* The top of the loop, where the phase is chosen.
Awake == task \in {"spawned", "off"} /\ ~asleep

\* The first half of a pulse: the chime, or lights and, in its phase, horn.
\* The first round after the chime (nothing is claimed yet) raises the flag.
PulseOn ==
    /\ Awake
    /\ elapsed < End
    /\ task' = "on" /\ asleep' = TRUE
    /\ \/ /\ elapsed < ChimeTicks
          /\ chime' = TRUE
          /\ UNCHANGED <<claims, panicVars>>
       \/ /\ elapsed >= ChimeTicks
          /\ chime' = FALSE
          /\ claims' = IF elapsed < ChimeTicks + HornTicks THEN Outputs ELSE {"lights"}
          /\ IF claims = {} THEN SetFlag(TRUE) ELSE UNCHANGED <<flag, flagQ>>
          /\ UNCHANGED <<engaged, flagCache, panicClaims, pressQ, feedbackQ>>
    /\ UNCHANGED <<elapsed, fsmVars, streamVars, worldVars, histVars>>

PulseOff ==
    /\ task = "on" /\ ~asleep
    /\ task' = "off" /\ asleep' = TRUE
    /\ chime' = FALSE
    /\ UNCHANGED <<elapsed, claims, panicVars, fsmVars, streamVars, worldVars, histVars>>

FinishSilently ==
    /\ Awake
    /\ elapsed >= End
    /\ task' = "done"
    /\ claims' = {}
    /\ chime' = FALSE
    /\ UNCHANGED <<asleep, elapsed, panicVars, fsmVars, streamVars, worldVars, histVars>>

\* The natural end: release_all and the message to the loop; the flag stays.
Finish ==
    /\ Awake
    /\ elapsed >= End
    /\ task' = "done"
    /\ claims' = {}
    /\ chime' = FALSE
    /\ doneQ' = doneQ + 1
    /\ UNCHANGED <<asleep, elapsed, panicVars, fsmVars, worldVars, histVars>>
    /\ UNCHANGED <<statusQ, requestorQ, doorQ, eventQ, panicQ, powerQ>>

AlarmTask == PulseOn \/ PulseOff \/ Finish

-----------------------------------------------------------------------------
(* The loop: status, requestor, door, event number, panic, power, the       *)
(* deadline and the end of the task, in this order.                         *)

\* A status that unlocks an armed car is latched.
ReadStatus ==
    /\ statusQ # <<>>
    /\ statusQ' = Tail(statusQ)
    /\ lockStatus' = Head(statusQ)
    /\ latch' = (latch \/ (lockStatus = "LOCKED" /\ Head(statusQ) # "LOCKED"
                           /\ state \in {"ARMED", "ACTIVATED"}))
    /\ UNCHANGED <<state, preArm, lastRequestor, ignitionLive>>
    /\ UNCHANGED <<requestorQ, doorQ, eventQ, panicQ, powerQ, doneQ>>
    /\ UNCHANGED <<panicVars, taskVars, worldVars, histVars>>

ReadRequestor ==
    /\ statusQ = <<>>
    /\ requestorQ # <<>>
    /\ requestorQ' = Tail(requestorQ)
    /\ lastRequestor' = Head(requestorQ)
    /\ UNCHANGED <<state, preArm, lockStatus, latch, ignitionLive>>
    /\ UNCHANGED <<statusQ, doorQ, eventQ, panicQ, powerQ, doneQ>>
    /\ UNCHANGED <<panicVars, taskVars, worldVars, histVars>>

TripsAlways == TRUE

\* The states in which a door that opens starts the alarm.
Trips == state = "ARMED"

ReadDoor ==
    /\ statusQ = <<>> /\ requestorQ = <<>>
    /\ doorQ > 0
    /\ doorQ' = doorQ - 1
    /\ IF Trips THEN Start ELSE UNCHANGED <<taskVars, latch, state>>
    /\ UNCHANGED <<preArm, lockStatus, lastRequestor, ignitionLive>>
    /\ UNCHANGED <<statusQ, requestorQ, eventQ, panicQ, powerQ, doneQ>>
    /\ UNCHANGED <<panicVars, worldVars, histVars>>

UnlockedByOwner == lockStatus = "UNLOCKED" /\ lastRequestor \in AuthSources

LockedByOwner == lockStatus = "LOCKED" /\ lastRequestor \in AuthSources

LockedByTrusted == lockStatus = "LOCKED" /\ lastRequestor \in Trusted

\* When the four reactions to a lock event apply; at most one does.
MustArm  == state = "DISARMED" /\ ~ignitionLive /\ LockedByTrusted
MustStop == task # "none" /\ UnlockedByOwner

Tampering == task = "none" /\ latch /\ lockStatus = "UNLOCKED" /\ lastRequestor \in Internal

MustCleanUpPreArmed ==
    task = "none" /\ lockStatus = "UNLOCKED" /\ state = "PRE_ARMED" /\ ~Tampering

MustCleanUp ==
    task = "none" /\ lockStatus = "UNLOCKED" /\ state # "DISARMED" /\ ~Tampering

ArmAtOnce == state' = "PRE_ARMED" /\ preArm' = 0 /\ watched' = 0 /\ UNCHANGED latch

Arm == state' = "PRE_ARMED" /\ preArm' = GraceTicks /\ watched' = 0 /\ UNCHANGED latch

\* Back to DISARMED, the deadline parked.
GoDisarmed == state' = "DISARMED" /\ latch' = FALSE /\ preArm' = None

\* EventNum is published last, so that the cached status and requestor are
\* those of the command, or of a later one.
ReadEvent ==
    /\ statusQ = <<>> /\ requestorQ = <<>> /\ doorQ = 0
    /\ eventQ > 0
    /\ eventQ' = eventQ - 1
    /\ CASE MustArm     -> Arm /\ UNCHANGED <<panicVars, taskVars>>
         [] MustStop    -> Disarm /\ GoDisarmed /\ UNCHANGED watched
         [] Tampering   -> Start /\ UNCHANGED <<panicVars, preArm, watched>>
         [] MustCleanUp -> GoDisarmed /\ UNCHANGED <<panicVars, taskVars, watched>>
         [] OTHER       -> UNCHANGED <<panicVars, taskVars, state, latch, preArm, watched>>
    /\ excuse' = ignitionLive
    /\ UNCHANGED <<lockStatus, lastRequestor, ignitionLive>>
    /\ UNCHANGED <<statusQ, requestorQ, doorQ, panicQ, powerQ, doneQ, worldVars>>

ReadPanic ==
    /\ statusQ = <<>> /\ requestorQ = <<>> /\ doorQ = 0 /\ eventQ = 0
    /\ panicQ > 0
    /\ panicQ' = panicQ - 1
    /\ IF task # "none"
       THEN Disarm /\ GoDisarmed /\ excuse' = TRUE
       ELSE UNCHANGED <<panicVars, taskVars, latch, state, preArm, excuse>>
    /\ UNCHANGED <<lockStatus, lastRequestor, ignitionLive, watched>>
    /\ UNCHANGED <<statusQ, requestorQ, doorQ, eventQ, powerQ, doneQ, worldVars>>

\* A running engine stops and disarms; the latch is cleared with the task only.
ReadPower ==
    /\ statusQ = <<>> /\ requestorQ = <<>> /\ doorQ = 0 /\ eventQ = 0 /\ panicQ = 0
    /\ powerQ # <<>>
    /\ powerQ' = Tail(powerQ)
    /\ ignitionLive' = Head(powerQ)
    /\ excuse' = (excuse \/ Head(powerQ))
    /\ IF Head(powerQ) /\ task # "none"
       THEN Disarm /\ latch' = FALSE
       ELSE UNCHANGED <<panicVars, taskVars, latch>>
    /\ IF Head(powerQ) /\ state # "DISARMED"
       THEN state' = "DISARMED" /\ preArm' = None
       ELSE UNCHANGED <<state, preArm>>
    /\ UNCHANGED <<lockStatus, lastRequestor, watched>>
    /\ UNCHANGED <<statusQ, requestorQ, doorQ, eventQ, panicQ, doneQ, worldVars>>

NothingQueued ==
    /\ statusQ = <<>> /\ requestorQ = <<>> /\ powerQ = <<>>
    /\ doorQ = 0 /\ eventQ = 0 /\ panicQ = 0

ReachDeadline ==
    /\ NothingQueued
    /\ preArm = 0
    /\ preArm' = None
    /\ state' = IF state = "PRE_ARMED" THEN "ARMED" ELSE state
    /\ UNCHANGED <<lockStatus, lastRequestor, latch, ignitionLive>>
    /\ UNCHANGED <<panicVars, taskVars, streamVars, worldVars, histVars>>

\* The handle is awaited, which is immediate: NeverAwaitsRunningAlarm.
ReadDone ==
    /\ NothingQueued /\ preArm # 0
    /\ doneQ > 0
    /\ task \in {"none", "done"}
    /\ doneQ' = doneQ - 1
    /\ task' = "none" /\ asleep' = FALSE /\ elapsed' = 0
    /\ latch' = FALSE /\ state' = "DISARMED"
    /\ excuse' = TRUE
    /\ UNCHANGED <<chime, claims, preArm, lockStatus, lastRequestor, ignitionLive>>
    /\ UNCHANGED <<statusQ, requestorQ, doorQ, eventQ, panicQ, powerQ>>
    /\ UNCHANGED <<panicVars, worldVars, watched>>

Loop ==
    \/ ReadStatus \/ ReadRequestor \/ ReadDoor \/ ReadEvent
    \/ ReadPanic \/ ReadPower \/ ReachDeadline \/ ReadDone

-----------------------------------------------------------------------------
(* Time and the environment.                                               *)

\* Every stream has been read and every task that can run has run.
Idle ==
    /\ NothingQueued /\ doneQ = 0 /\ preArm # 0
    /\ ~PanicUnread
    /\ command = None
    /\ Running => asleep

Tick ==
    /\ Idle
    /\ Running \/ preArm # None
    /\ preArm' = IF preArm = None THEN None ELSE preArm - 1
    /\ asleep' = FALSE
    /\ elapsed' = IF Running THEN elapsed + 1 ELSE elapsed
    /\ watched' = IF preArm = None THEN watched ELSE watched + 1
    /\ UNCHANGED <<task, chime, claims, state, lockStatus, lastRequestor, latch, ignitionLive>>
    /\ UNCHANGED <<panicVars, streamVars, worldVars, excuse>>

Spend == budget > 0 /\ budget' = budget - 1

\* The arbiter accepts a command; an unlock by the owner also has its feature
\* publish a feedback request.
SendCommand(c) ==
    /\ Spend
    /\ command = None
    /\ command' = c
    /\ stage' = "token"
    /\ fedBack' = ~(c.status = "UNLOCKED" /\ c.requestor \in AuthSources)
    /\ UNCHANGED <<lastCommand, panicVars, fsmVars, taskVars, streamVars, histVars>>

PublishStatus ==
    /\ command # None /\ stage = "token"
    /\ stage' = "status"
    /\ statusQ' = Append(statusQ, command.status)
    /\ lastCommand' = command
    /\ UNCHANGED <<requestorQ, doorQ, eventQ, panicQ, powerQ, doneQ>>
    /\ UNCHANGED <<command, fedBack, budget, panicVars, fsmVars, taskVars, histVars>>

PublishRequestor ==
    /\ command # None /\ stage = "status"
    /\ stage' = "requestor"
    /\ requestorQ' = Append(requestorQ, command.requestor)
    /\ UNCHANGED <<statusQ, doorQ, eventQ, panicQ, powerQ, doneQ>>
    /\ UNCHANGED <<command, fedBack, lastCommand, budget, panicVars, fsmVars, taskVars, histVars>>

PublishEventNum ==
    /\ command # None /\ stage = "requestor"
    /\ stage' = "event"
    /\ eventQ' = eventQ + 1
    /\ command' = IF fedBack THEN None ELSE command
    /\ UNCHANGED <<statusQ, requestorQ, doorQ, panicQ, powerQ, doneQ>>
    /\ UNCHANGED <<fedBack, lastCommand, budget, panicVars, fsmVars, taskVars, histVars>>

PublishFeedback ==
    /\ command # None /\ ~fedBack
    /\ fedBack' = TRUE
    /\ feedbackQ' = feedbackQ + 1
    /\ command' = IF stage = "event" THEN None ELSE command
    /\ UNCHANGED <<engaged, flagCache, panicClaims, pressQ, flagQ, flag>>
    /\ UNCHANGED <<stage, lastCommand, budget, fsmVars, taskVars, streamVars, histVars>>

OpenDoor ==
    /\ Spend
    /\ doorQ' = doorQ + 1
    /\ UNCHANGED <<statusQ, requestorQ, eventQ, panicQ, powerQ, doneQ>>
    /\ UNCHANGED <<command, stage, fedBack, lastCommand, panicVars, fsmVars, taskVars, histVars>>

\* Both alarms subscribe to PanicEventNum.
PressPanic ==
    /\ Spend
    /\ panicQ' = panicQ + 1
    /\ pressQ' = pressQ + 1
    /\ UNCHANGED <<engaged, flagCache, panicClaims, feedbackQ, flagQ, flag>>
    /\ UNCHANGED <<statusQ, requestorQ, doorQ, eventQ, powerQ, doneQ>>
    /\ UNCHANGED <<command, stage, fedBack, lastCommand, fsmVars, taskVars, histVars>>

SwitchIgnition(live) ==
    /\ Spend
    /\ powerQ' = Append(powerQ, live)
    /\ UNCHANGED <<statusQ, requestorQ, doorQ, eventQ, panicQ, doneQ>>
    /\ UNCHANGED <<command, stage, fedBack, lastCommand, panicVars, fsmVars, taskVars, histVars>>

PanicStep ==
    /\ PanicRead \/ Pulse
    /\ UNCHANGED <<fsmVars, taskVars, streamVars, worldVars, histVars>>

-----------------------------------------------------------------------------

Init ==
    /\ PanicInit
    /\ state = "DISARMED" /\ preArm = None
    /\ lockStatus = "UNLOCKED" /\ lastRequestor = None
    /\ latch = FALSE /\ ignitionLive = FALSE
    /\ task = "none" /\ asleep = FALSE /\ elapsed = 0 /\ chime = FALSE /\ claims = {}
    /\ statusQ = <<>> /\ requestorQ = <<>> /\ powerQ = <<>>
    /\ doorQ = 0 /\ eventQ = 0 /\ panicQ = 0 /\ doneQ = 0
    /\ command = None /\ stage = "event" /\ fedBack = TRUE /\ lastCommand = None
    /\ excuse = FALSE /\ watched = 0
    /\ budget = Budget

Publish == PublishStatus \/ PublishRequestor \/ PublishEventNum \/ PublishFeedback

Next ==
    \/ Loop
    \/ AlarmTask
    \/ PanicStep
    \/ Tick
    \/ Publish
    \/ \E c \in Command : SendCommand(c)
    \/ OpenDoor
    \/ PressPanic
    \/ \E live \in BOOLEAN : SwitchIgnition(live)

Spec == Init /\ [][Next]_vars

\* While a loop, a task or the arbiter can take a step one of them does (the
\* runtime's threads do not all stop), and time passes when none of them can.
FairSpec == Spec /\ WF_vars(Loop \/ AlarmTask \/ PanicStep \/ Publish \/ Tick)

-----------------------------------------------------------------------------
(* Properties.                                                             *)

Settled == NothingQueued /\ doneQ = 0 /\ ~PanicUnread /\ command = None

\* However an alarm ends - owner, panic button, engine or its own end, in the
\* middle of a pulse or between two claims - it leaves nothing switched on.
NothingLeftOn ==
    /\ ~Running => claims = {} /\ ~chime
    /\ ~engaged => panicClaims = {}

\* The published state says ACTIVATED exactly while there is an alarm task,
\* so that every way to stop an alarm finds the one that runs.
ActivatedHasTask == state = "ACTIVATED" <=> task # "none"

\* The loop takes the handle of the task when it reads a message that a task
\* has ended; were another task running by then, it would wait for minutes.
NeverAwaitsRunningAlarm == doneQ > 0 => ~Running

\* A car that was locked last by a trusted requestor is watched, whatever lock
\* events, doors and presses came before, unless the engine ran since, or the
\* panic button stopped an alarm since, or the message that an alarm had ended
\* was read since.
LockedIsWatched ==
    Settled /\ lastCommand # None /\ ~excuse =>
        (lastCommand.status = "LOCKED" /\ lastCommand.requestor \in Trusted => state # "DISARMED")

\* When the owner's unlock has been read to its end nothing is armed or sounds,
\* whatever doors and tampering preceded it.
OwnerIsNotAlarmed ==
    Settled /\ lastCommand # None =>
        (lastCommand.status = "UNLOCKED" /\ lastCommand.requestor \in AuthSources => state = "DISARMED")

\* No door that opens starts an alarm before the grace period after the lock
\* that armed the car is over, whatever deadlines of earlier locks were pending.
GraceIsKept ==
    [][doorQ' < doorQ /\ state # "ACTIVATED" /\ state' = "ACTIVATED" => watched = GraceTicks]_vars

\* An alarm does not last for ever, whatever happens while it runs.
AlarmEnds == task # "none" ~> task = "none"
=============================================================================
