----------------------- MODULE PerimeterAlarm_proofs -----------------------
(***************************************************************************)
(* Proofs about PerimeterAlarm for every set of requestors and every       *)
(* length of the grace period and of the phases.                           *)
(***************************************************************************)
EXTENDS PerimeterAlarm, TLAPS

-----------------------------------------------------------------------------
(* The inductive invariant.                                                *)

\* The task's clock passes the end of the lights phase by a tick at most, and
\* a running deadline is what is left of the grace period.
Clock ==
    /\ task = "on"  => elapsed <= End /\ (asleep => elapsed < End)
    /\ task = "off" => elapsed <= End + 1 /\ (asleep => elapsed <= End)
    /\ task = "spawned" => elapsed = 0 /\ ~asleep
    /\ preArm # None => watched + preArm = GraceTicks

\* An armed car has been watched for the grace period.
Watch == state = "ARMED" => preArm = None /\ watched = GraceTicks

\* While the message that a task has ended is unread no time passes, so that
\* whatever disarmed the alarm meanwhile cannot have led to another one.
Ended ==
    doneQ > 0 =>
        /\ ~Running
        /\ task = "none" => ~latch /\ state \in {"DISARMED", "PRE_ARMED"} /\ preArm # 0

\* The last value sent to a stream, or the cache when the stream is drained.
Tells(q, cache, v) == IF q = <<>> THEN cache = v ELSE q[Len(q)] = v

\* What the feature has still to read is the arbiter's last command.
Order ==
    /\ command = None => stage = "event"
    /\ command # None /\ stage # "token" => lastCommand = command
    /\ lastCommand # None =>
          /\ Tells(statusQ, lockStatus, lastCommand.status)
          /\ stage # "status" => Tells(requestorQ, lastRequestor, lastCommand.requestor)

OwnerUnlocked == lastCommand.status = "UNLOCKED" /\ lastCommand.requestor \in AuthSources
TrustedLocked == lastCommand.status = "LOCKED" /\ lastCommand.requestor \in Trusted

\* Once the event number of that command is read, it has had its effect.
Handled ==
    stage \in {"event", "token"} /\ eventQ = 0 /\ lastCommand # None =>
        /\ OwnerUnlocked => state = "DISARMED"
        /\ TrustedLocked /\ ~excuse => state # "DISARMED"

IInv ==
    /\ TypeOK
    /\ Clock
    /\ NothingLeftOn
    /\ ActivatedHasTask
    /\ Watch
    /\ Ended
    /\ Order
    /\ Handled

-----------------------------------------------------------------------------
(* Facts about the constants and the shape of a step.                      *)

\* What the proofs use of the constants.
LEMMA Constants ==
  /\ GraceTicks \in Nat \ {0} /\ ChimeTicks \in Nat \ {0}
  /\ HornTicks \in Nat \ {0} /\ LightTicks \in Nat \ {0}
  /\ End \in Nat \ {0}
  /\ Budget \in Nat
  /\ None \notin Command /\ None \notin Requestors /\ None \notin Nat
  /\ AuthSources \subseteq Requestors /\ Internal \subseteq Requestors
  /\ Trusted \subseteq Requestors
  /\ AuthSources \cap Internal = {}
  BY AlarmAssumption DEF End

\* The four reactions to a lock event exclude each other, so that the order in
\* which the code asks for them does not matter.
LEMMA ReadEventCases ==
  ASSUME ActivatedHasTask, ReadEvent
  PROVE  \/ MustArm /\ Arm /\ UNCHANGED <<panicVars, taskVars>>
         \/ MustStop /\ Disarm /\ GoDisarmed /\ UNCHANGED watched
         \/ Tampering /\ Start /\ UNCHANGED <<panicVars, preArm, watched>>
         \/ MustCleanUp /\ GoDisarmed /\ UNCHANGED <<panicVars, taskVars, watched>>
         \/ /\ ~MustArm /\ ~MustStop /\ ~Tampering /\ ~MustCleanUp
            /\ UNCHANGED <<panicVars, taskVars, state, latch, preArm, watched>>
  <1>1. MustArm => ~MustStop /\ ~Tampering /\ ~MustCleanUp
    BY DEF MustArm, MustStop, Tampering, MustCleanUp, LockedByTrusted, UnlockedByOwner
  <1>2. MustStop => ~Tampering /\ ~MustCleanUp
    BY DEF MustStop, Tampering, MustCleanUp
  <1>3. Tampering => ~MustCleanUp
    BY DEF Tampering, MustCleanUp
  <1> QED
    BY <1>1, <1>2, <1>3 DEF ReadEvent

-----------------------------------------------------------------------------
(* Types.                                                                  *)

\* Reading and sending keep a stream's type.
LEMMA StreamTypes ==
  ASSUME NEW S, NEW q \in Seq(S), NEW v \in S
  PROVE  /\ Append(q, v) \in Seq(S)
         /\ q # <<>> => Tail(q) \in Seq(S) /\ Head(q) \in S
  OBVIOUS

\* Publishing the flag keeps its type.
LEMMA SetFlagTypes ==
  ASSUME PanicTypeOK, NEW b \in BOOLEAN, SetFlag(b)
  PROVE  flag' \in BOOLEAN /\ flagQ' \in Seq(BOOLEAN)
  <1>1. flagQ \in Seq(BOOLEAN)
    BY DEF PanicTypeOK
  <1>2. Append(flagQ, b) \in Seq(BOOLEAN)
    BY <1>1, StreamTypes
  <1> QED
    BY <1>2 DEF SetFlag

\* Engaging and disengaging keep the types of what they assign.
LEMMA EngageTypes ==
  ASSUME PanicTypeOK, Engage \/ Disengage
  PROVE  /\ engaged' \in BOOLEAN /\ flag' \in BOOLEAN
         /\ flagQ' \in Seq(BOOLEAN)
         /\ panicClaims' \subseteq {"indicators", "horn"}
  <1>1. engaged' \in BOOLEAN /\ panicClaims' \subseteq {"indicators", "horn"}
    BY DEF PanicTypeOK, Engage, Disengage
  <1>2. \E b \in BOOLEAN : SetFlag(b)
    BY DEF Engage, Disengage
  <1>3. flag' \in BOOLEAN /\ flagQ' \in Seq(BOOLEAN)
    BY <1>2, SetFlagTypes
  <1> QED
    BY <1>1, <1>3

\* The panic alarm's steps keep its types.
LEMMA PanicTypes ==
  ASSUME PanicTypeOK, PanicRead \/ Pulse
  PROVE  PanicTypeOK'
  <1>1. CASE ReadPress
    <2>1. \/ Engage \/ Disengage
          \/ UNCHANGED <<engaged, panicClaims, flag, flagQ>>
      BY <1>1 DEF ReadPress
    <2>2. /\ pressQ' \in Nat /\ feedbackQ' \in Nat /\ flagCache' \in BOOLEAN
      BY <1>1 DEF PanicTypeOK, ReadPress
    <2> QED
      BY <2>1, <2>2, EngageTypes DEF PanicTypeOK
  <1>2. CASE ReadFeedback
    <2>1. \/ Disengage
          \/ UNCHANGED <<engaged, panicClaims, flag, flagQ>>
      BY <1>2 DEF ReadFeedback
    <2>2. /\ pressQ' \in Nat /\ feedbackQ' \in Nat /\ flagCache' \in BOOLEAN
      BY <1>2 DEF PanicTypeOK, ReadFeedback
    <2> QED
      BY <2>1, <2>2, EngageTypes DEF PanicTypeOK
  <1>3. CASE ReadFlag
    <2>1. flagQ' \in Seq(BOOLEAN) /\ flagCache' \in BOOLEAN
      BY <1>3, StreamTypes DEF PanicTypeOK, ReadFlag
    <2> QED
      BY <1>3, <2>1 DEF PanicTypeOK, ReadFlag
  <1>4. CASE Pulse
    BY <1>4 DEF PanicTypeOK, Pulse
  <1> QED
    BY <1>1, <1>2, <1>3, <1>4 DEF PanicRead

\* What a step leaves alone keeps its type.
LEMMA Unchanged ==
  ASSUME TypeOK
  PROVE  /\ UNCHANGED panicVars => PanicTypeOK'
         /\ UNCHANGED fsmVars => FsmTypeOK'
         /\ UNCHANGED taskVars => TaskTypeOK'
         /\ UNCHANGED streamVars => StreamTypeOK'
         /\ UNCHANGED worldVars => WorldTypeOK'
         /\ UNCHANGED histVars => HistTypeOK'
  <1>1. UNCHANGED panicVars => PanicTypeOK'
    BY DEF TypeOK, PanicTypeOK, panicVars
  <1>2. UNCHANGED fsmVars => FsmTypeOK'
    BY DEF TypeOK, FsmTypeOK, fsmVars
  <1>3. UNCHANGED taskVars => TaskTypeOK'
    BY DEF TypeOK, TaskTypeOK, taskVars
  <1>4. UNCHANGED streamVars => StreamTypeOK'
    BY DEF TypeOK, StreamTypeOK, streamVars
  <1>5. UNCHANGED worldVars => WorldTypeOK'
    BY DEF TypeOK, WorldTypeOK, worldVars
  <1>6. UNCHANGED histVars => HistTypeOK'
    BY DEF TypeOK, HistTypeOK, histVars
  <1> QED
    BY <1>1, <1>2, <1>3, <1>4, <1>5, <1>6

\* An alarm that starts keeps the task's types.
LEMMA StartTypes ==
  ASSUME TypeOK, Start
  PROVE  TaskTypeOK'
  <1>1. 0 \in 0..(End + 1)
    BY Constants
  <1> QED
    BY <1>1 DEF TypeOK, TaskTypeOK, Start

\* An alarm that is stopped keeps the task's types and the panic alarm's.
LEMMA DisarmTypes ==
  ASSUME TypeOK, Disarm
  PROVE  TaskTypeOK' /\ PanicTypeOK'
  <1>1. 0 \in 0..(End + 1)
    BY Constants
  <1>2. TaskTypeOK'
    BY <1>1 DEF TaskTypeOK, Disarm
  <1>3. flag' \in BOOLEAN /\ flagQ' \in Seq(BOOLEAN)
    BY SetFlagTypes DEF TypeOK, Disarm
  <1>4. PanicTypeOK'
    BY <1>3 DEF TypeOK, PanicTypeOK, Disarm
  <1> QED
    BY <1>2, <1>4

\* Every step keeps the types.
LEMMA TypeStep ==
  ASSUME TypeOK, Clock, ActivatedHasTask, [Next]_vars
  PROVE  TypeOK'
  <1>1. CASE PulseOn
    <2>1. PanicTypeOK'
      BY <1>1, SetFlagTypes, Unchanged DEF TypeOK, PulseOn, PanicTypeOK, SetFlag, panicVars
    <2>2. TaskTypeOK'
      BY <1>1 DEF TypeOK, PulseOn, TaskTypeOK, Outputs
    <2> QED
      BY <1>1, <2>1, <2>2, Unchanged DEF TypeOK, PulseOn
  <1>2. CASE PulseOff
    <2>1. TaskTypeOK'
      BY <1>2 DEF TypeOK, PulseOff, TaskTypeOK
    <2> QED
      BY <1>2, <2>1, Unchanged DEF TypeOK, PulseOff
  <1>3. CASE Finish
    <2>1. TaskTypeOK'
      BY <1>3 DEF TypeOK, Finish, TaskTypeOK
    <2>2. StreamTypeOK'
      BY <1>3 DEF TypeOK, Finish, StreamTypeOK
    <2> QED
      BY <1>3, <2>1, <2>2, Unchanged DEF TypeOK, Finish
  <1>4. CASE ReadStatus
    <2>1. FsmTypeOK'
      BY <1>4, StreamTypes DEF TypeOK, ReadStatus, FsmTypeOK, StreamTypeOK
    <2>2. StreamTypeOK'
      BY <1>4, StreamTypes DEF TypeOK, ReadStatus, StreamTypeOK
    <2> QED
      BY <1>4, <2>1, <2>2, Unchanged DEF TypeOK, ReadStatus
  <1>5. CASE ReadRequestor
    <2>1. FsmTypeOK'
      BY <1>5, StreamTypes DEF TypeOK, ReadRequestor, FsmTypeOK, StreamTypeOK
    <2>2. StreamTypeOK'
      BY <1>5, StreamTypes DEF TypeOK, ReadRequestor, StreamTypeOK
    <2> QED
      BY <1>5, <2>1, <2>2, Unchanged DEF TypeOK, ReadRequestor
  <1>6. CASE ReadDoor
    <2>1. FsmTypeOK'
      BY <1>6 DEF TypeOK, ReadDoor, FsmTypeOK, Start
    <2>2. TaskTypeOK'
      BY <1>6, StartTypes, Unchanged DEF TypeOK, ReadDoor
    <2>3. StreamTypeOK'
      BY <1>6 DEF TypeOK, ReadDoor, StreamTypeOK
    <2> QED
      BY <1>6, <2>1, <2>2, <2>3, Unchanged DEF TypeOK, ReadDoor
  <1>7. CASE ReadEvent
    <2>a. GraceTicks \in 0..GraceTicks
      BY Constants
    <2>b. \/ Arm
          \/ GoDisarmed
          \/ Start /\ UNCHANGED preArm
          \/ UNCHANGED <<state, latch, preArm>>
      BY <1>7, ReadEventCases
    <2>1. PanicTypeOK'
      BY <1>7, ReadEventCases, DisarmTypes, Unchanged DEF TypeOK, ReadEvent
    <2>2. FsmTypeOK'
      BY <1>7, <2>a, <2>b DEF TypeOK, ReadEvent, FsmTypeOK, Arm, Start, GoDisarmed
    <2>3. TaskTypeOK'
      BY <1>7, ReadEventCases, StartTypes, DisarmTypes, Unchanged DEF TypeOK, ReadEvent
    <2>4. StreamTypeOK'
      BY <1>7 DEF TypeOK, ReadEvent, StreamTypeOK
    <2>5. HistTypeOK'
      BY <1>7, ReadEventCases, Constants DEF TypeOK, ReadEvent, FsmTypeOK, HistTypeOK, Arm
    <2> QED
      BY <1>7, <2>1, <2>2, <2>3, <2>4, <2>5, Unchanged DEF TypeOK, ReadEvent
  <1>8. CASE ReadPanic
    <2>1. PanicTypeOK'
      BY <1>8, DisarmTypes, Unchanged DEF TypeOK, ReadPanic
    <2>2. FsmTypeOK'
      BY <1>8 DEF TypeOK, ReadPanic, FsmTypeOK, GoDisarmed
    <2>3. TaskTypeOK'
      BY <1>8, DisarmTypes, Unchanged DEF TypeOK, ReadPanic
    <2>4. StreamTypeOK'
      BY <1>8 DEF TypeOK, ReadPanic, StreamTypeOK
    <2>5. HistTypeOK'
      BY <1>8 DEF TypeOK, ReadPanic, HistTypeOK
    <2> QED
      BY <1>8, <2>1, <2>2, <2>3, <2>4, <2>5, Unchanged DEF TypeOK, ReadPanic
  <1>9. CASE ReadPower
    <2>1. PanicTypeOK'
      BY <1>9, DisarmTypes, Unchanged DEF TypeOK, ReadPower
    <2>2. FsmTypeOK'
      BY <1>9, StreamTypes DEF TypeOK, ReadPower, FsmTypeOK, StreamTypeOK
    <2>3. TaskTypeOK'
      BY <1>9, DisarmTypes, Unchanged DEF TypeOK, ReadPower
    <2>4. StreamTypeOK'
      BY <1>9, StreamTypes DEF TypeOK, ReadPower, StreamTypeOK
    <2>5. HistTypeOK'
      BY <1>9, StreamTypes DEF TypeOK, ReadPower, HistTypeOK, StreamTypeOK
    <2> QED
      BY <1>9, <2>1, <2>2, <2>3, <2>4, <2>5, Unchanged DEF TypeOK, ReadPower
  <1>10. CASE ReachDeadline
    <2>1. FsmTypeOK'
      BY <1>10 DEF TypeOK, ReachDeadline, FsmTypeOK
    <2> QED
      BY <1>10, <2>1, Unchanged DEF TypeOK, ReachDeadline
  <1>11. CASE ReadDone
    <2>0. 0 \in 0..(End + 1)
      BY Constants
    <2>1. FsmTypeOK'
      BY <1>11 DEF TypeOK, ReadDone, FsmTypeOK
    <2>2. TaskTypeOK'
      BY <1>11, <2>0, Constants DEF TypeOK, ReadDone, TaskTypeOK
    <2>3. StreamTypeOK'
      BY <1>11 DEF TypeOK, ReadDone, StreamTypeOK
    <2>4. HistTypeOK'
      BY <1>11 DEF TypeOK, ReadDone, HistTypeOK
    <2> QED
      BY <1>11, <2>1, <2>2, <2>3, <2>4, Unchanged DEF TypeOK, ReadDone
  <1>12. CASE Tick
    <2>0. elapsed' \in 0..(End + 1)
      <3>1. CASE Running
        BY <1>12, <3>1, Constants DEF TypeOK, TaskTypeOK, Tick, Idle, Running, Clock
      <3>2. CASE ~Running
        BY <1>12, <3>2 DEF TypeOK, TaskTypeOK, Tick
      <3> QED
        BY <3>1, <3>2
    <2>1. FsmTypeOK'
      BY <1>12, Constants DEF TypeOK, Tick, FsmTypeOK, Idle
    <2>2. TaskTypeOK'
      BY <1>12, <2>0, Constants DEF TypeOK, Tick, TaskTypeOK, Idle, Running, Clock
    <2>3. HistTypeOK'
      BY <1>12, Constants DEF TypeOK, Tick, HistTypeOK, FsmTypeOK, Idle, Clock
    <2> QED
      BY <1>12, <2>1, <2>2, <2>3, Unchanged DEF TypeOK, Tick
  <1>13. CASE PublishStatus
    <2>1. StreamTypeOK'
      BY <1>13, StreamTypes DEF TypeOK, PublishStatus, StreamTypeOK, WorldTypeOK, Command
    <2>2. WorldTypeOK'
      BY <1>13 DEF TypeOK, PublishStatus, WorldTypeOK
    <2> QED
      BY <1>13, <2>1, <2>2, Unchanged DEF TypeOK, PublishStatus
  <1>14. CASE PublishRequestor
    <2>1. StreamTypeOK'
      BY <1>14, StreamTypes DEF TypeOK, PublishRequestor, StreamTypeOK, WorldTypeOK, Command
    <2>2. WorldTypeOK'
      BY <1>14 DEF TypeOK, PublishRequestor, WorldTypeOK
    <2> QED
      BY <1>14, <2>1, <2>2, Unchanged DEF TypeOK, PublishRequestor
  <1>15. CASE PublishEventNum
    <2>1. StreamTypeOK'
      BY <1>15 DEF TypeOK, PublishEventNum, StreamTypeOK
    <2>2. WorldTypeOK'
      BY <1>15 DEF TypeOK, PublishEventNum, WorldTypeOK
    <2> QED
      BY <1>15, <2>1, <2>2, Unchanged DEF TypeOK, PublishEventNum
  <1>16. CASE PublishFeedback
    <2>1. PanicTypeOK'
      BY <1>16 DEF TypeOK, PublishFeedback, PanicTypeOK
    <2>2. WorldTypeOK'
      BY <1>16 DEF TypeOK, PublishFeedback, WorldTypeOK
    <2> QED
      BY <1>16, <2>1, <2>2, Unchanged DEF TypeOK, PublishFeedback
  <1>17. CASE OpenDoor
    <2>1. StreamTypeOK'
      BY <1>17 DEF TypeOK, OpenDoor, StreamTypeOK
    <2>2. WorldTypeOK'
      BY <1>17, Constants DEF TypeOK, OpenDoor, WorldTypeOK, Spend
    <2> QED
      BY <1>17, <2>1, <2>2, Unchanged DEF TypeOK, OpenDoor
  <1>18. CASE PressPanic
    <2>1. PanicTypeOK'
      BY <1>18 DEF TypeOK, PressPanic, PanicTypeOK
    <2>2. StreamTypeOK'
      BY <1>18 DEF TypeOK, PressPanic, StreamTypeOK
    <2>3. WorldTypeOK'
      BY <1>18, Constants DEF TypeOK, PressPanic, WorldTypeOK, Spend
    <2> QED
      BY <1>18, <2>1, <2>2, <2>3, Unchanged DEF TypeOK, PressPanic
  <1>19. CASE PanicStep
    <2>1. PanicTypeOK'
      BY <1>19, PanicTypes DEF TypeOK, PanicStep
    <2> QED
      BY <1>19, <2>1, Unchanged DEF TypeOK, PanicStep
  <1>20. ASSUME NEW c \in Command, SendCommand(c) PROVE TypeOK'
    <2>1. WorldTypeOK'
      BY <1>20, Constants DEF TypeOK, SendCommand, WorldTypeOK, Spend
    <2> QED
      BY <1>20, <2>1, Unchanged DEF TypeOK, SendCommand
  <1>21. ASSUME NEW live \in BOOLEAN, SwitchIgnition(live) PROVE TypeOK'
    <2>1. StreamTypeOK'
      BY <1>21, StreamTypes DEF TypeOK, SwitchIgnition, StreamTypeOK
    <2>2. WorldTypeOK'
      BY <1>21, Constants DEF TypeOK, SwitchIgnition, WorldTypeOK, Spend
    <2> QED
      BY <1>21, <2>1, <2>2, Unchanged DEF TypeOK, SwitchIgnition
  <1>22. CASE UNCHANGED vars
    BY <1>22, Unchanged DEF TypeOK, vars
  <1> QED
    BY <1>1, <1>2, <1>3, <1>4, <1>5, <1>6, <1>7, <1>8, <1>9, <1>10, <1>11,
       <1>12, <1>13, <1>14, <1>15, <1>16, <1>17, <1>18, <1>19, <1>20, <1>21,
       <1>22
    DEF Next, Loop, AlarmTask, Publish

-----------------------------------------------------------------------------
(* The steps of the environment and of the panic alarm.                    *)

Aside ==
  \/ Publish \/ PanicStep \/ OpenDoor \/ PressPanic
  \/ \E c \in Command : SendCommand(c)
  \/ \E live \in BOOLEAN : SwitchIgnition(live)
  \/ UNCHANGED vars

\* They leave the perimeter alarm's own state alone.
LEMMA AsideKeeps ==
  ASSUME Aside
  PROVE  /\ UNCHANGED <<fsmVars, taskVars, histVars>>
         /\ UNCHANGED <<state, preArm, lockStatus, lastRequestor, latch, ignitionLive>>
         /\ UNCHANGED <<task, asleep, elapsed, chime, claims, excuse, watched, doneQ>>
  BY DEF Aside, Publish, PublishStatus, PublishRequestor, PublishEventNum, PublishFeedback,
         PanicStep, OpenDoor, PressPanic, SendCommand, SwitchIgnition,
         vars, fsmVars, taskVars, streamVars, histVars

\* Every step is one of the loop, of the alarm task, of time, or of those.
LEMMA StepCases ==
  ASSUME [Next]_vars
  PROVE  \/ PulseOn \/ PulseOff \/ Finish
         \/ ReadStatus \/ ReadRequestor \/ ReadDoor \/ ReadEvent
         \/ ReadPanic \/ ReadPower \/ ReachDeadline \/ ReadDone
         \/ Tick \/ Aside
  BY DEF Next, Loop, AlarmTask, Aside

\* Every step keeps the clocks within their bounds.
LEMMA ClockStep ==
  ASSUME TypeOK, Clock, ActivatedHasTask, [Next]_vars
  PROVE  Clock'
  <1> USE Constants
  <1>a. /\ elapsed \in Nat /\ preArm \in Nat \cup {None} /\ watched \in Nat
    BY DEF TypeOK, TaskTypeOK, FsmTypeOK, HistTypeOK
  <1>1. CASE PulseOn
    BY <1>1, <1>a DEF Clock, taskVars, fsmVars, histVars, PulseOn, Awake
  <1>2. CASE PulseOff
    BY <1>2, <1>a DEF Clock, taskVars, fsmVars, histVars, PulseOff
  <1>3. CASE Finish
    BY <1>3 DEF Clock, taskVars, fsmVars, histVars, Finish
  <1>4. CASE ReadStatus
    BY <1>4 DEF Clock, taskVars, fsmVars, histVars, ReadStatus
  <1>5. CASE ReadRequestor
    BY <1>5 DEF Clock, taskVars, fsmVars, histVars, ReadRequestor
  <1>6. CASE ReadDoor
    BY <1>6 DEF Clock, taskVars, fsmVars, histVars, ReadDoor, Start
  <1>7. CASE ReadEvent
    <2>1. CASE MustArm /\ Arm /\ UNCHANGED <<panicVars, taskVars>>
      BY <1>7, <2>1, <1>a DEF Clock, ReadEvent, Arm, taskVars
    <2>2. CASE MustStop /\ Disarm /\ GoDisarmed /\ UNCHANGED watched
      BY <1>7, <2>2, <1>a DEF Clock, ReadEvent, Disarm, GoDisarmed
    <2>3. CASE Tampering /\ Start /\ UNCHANGED <<panicVars, preArm, watched>>
      BY <1>7, <2>3, <1>a DEF Clock, ReadEvent, Start
    <2>4. CASE MustCleanUp /\ GoDisarmed /\ UNCHANGED <<panicVars, taskVars, watched>>
      BY <1>7, <2>4, <1>a DEF Clock, ReadEvent, GoDisarmed, taskVars
    <2>5. CASE /\ ~MustArm /\ ~MustStop /\ ~Tampering /\ ~MustCleanUp
               /\ UNCHANGED <<panicVars, taskVars, state, latch, preArm, watched>>
      BY <1>7, <2>5, <1>a DEF Clock, ReadEvent, taskVars
    <2> QED
      BY <1>7, <2>1, <2>2, <2>3, <2>4, <2>5, ReadEventCases
  <1>8. CASE ReadPanic
    BY <1>8 DEF Clock, taskVars, fsmVars, histVars, ReadPanic, Disarm, GoDisarmed
  <1>9. CASE ReadPower
    BY <1>9 DEF Clock, taskVars, fsmVars, histVars, ReadPower, Disarm
  <1>10. CASE ReachDeadline
    BY <1>10 DEF Clock, taskVars, fsmVars, histVars, ReachDeadline
  <1>11. CASE ReadDone
    BY <1>11 DEF Clock, taskVars, fsmVars, histVars, ReadDone
  <1>12. CASE Tick
    BY <1>12, <1>a DEF Clock, taskVars, fsmVars, histVars, Tick, Idle, Running
  <1>13. CASE Aside
    BY <1>13, AsideKeeps DEF Clock, taskVars, fsmVars, histVars
  <1> QED
    BY StepCases, <1>1, <1>2, <1>3, <1>4, <1>5, <1>6, <1>7, <1>8, <1>9, <1>10, <1>11,
       <1>12, <1>13

\* Every step keeps the outputs and the published state in agreement with the task.
LEMMA TaskStep ==
  ASSUME TypeOK, NothingLeftOn, ActivatedHasTask, [Next]_vars
  PROVE  ActivatedHasTask' /\ (~Running => claims = {} /\ ~chime)'
  <1>1. CASE PulseOn
    BY <1>1 DEF ActivatedHasTask, NothingLeftOn, Running, taskVars, fsmVars, PulseOn,
       Awake
  <1>2. CASE PulseOff
    BY <1>2 DEF ActivatedHasTask, NothingLeftOn, Running, taskVars, fsmVars, PulseOff
  <1>3. CASE Finish
    BY <1>3 DEF ActivatedHasTask, NothingLeftOn, Running, taskVars, fsmVars, Finish, Awake
  <1>4. CASE ReadStatus
    BY <1>4 DEF ActivatedHasTask, NothingLeftOn, Running, taskVars, fsmVars, ReadStatus
  <1>5. CASE ReadRequestor
    BY <1>5 DEF ActivatedHasTask, NothingLeftOn, Running, taskVars, fsmVars, ReadRequestor
  <1>6. CASE ReadDoor
    BY <1>6 DEF ActivatedHasTask, NothingLeftOn, Running, taskVars, fsmVars, ReadDoor,
       Start, Trips
  <1>7. CASE ReadEvent
    <2>1. CASE MustArm /\ Arm /\ UNCHANGED <<panicVars, taskVars>>
      BY <1>7, <2>1 DEF ActivatedHasTask, NothingLeftOn, Running, ReadEvent, Arm,
         taskVars, MustArm
    <2>2. CASE MustStop /\ Disarm /\ GoDisarmed /\ UNCHANGED watched
      BY <1>7, <2>2 DEF ActivatedHasTask, NothingLeftOn, Running, ReadEvent, Disarm,
         GoDisarmed
    <2>3. CASE Tampering /\ Start /\ UNCHANGED <<panicVars, preArm, watched>>
      BY <1>7, <2>3 DEF ActivatedHasTask, NothingLeftOn, Running, ReadEvent, Start,
         Tampering
    <2>4. CASE MustCleanUp /\ GoDisarmed /\ UNCHANGED <<panicVars, taskVars, watched>>
      BY <1>7, <2>4 DEF ActivatedHasTask, NothingLeftOn, Running, ReadEvent, GoDisarmed,
         taskVars, MustCleanUp
    <2>5. CASE /\ ~MustArm /\ ~MustStop /\ ~Tampering /\ ~MustCleanUp
               /\ UNCHANGED <<panicVars, taskVars, state, latch, preArm, watched>>
      BY <1>7, <2>5 DEF ActivatedHasTask, NothingLeftOn, Running, ReadEvent, taskVars
    <2> QED
      BY <1>7, <2>1, <2>2, <2>3, <2>4, <2>5, ReadEventCases
  <1>8. CASE ReadPanic
    BY <1>8 DEF ActivatedHasTask, NothingLeftOn, Running, taskVars, fsmVars, ReadPanic,
       Disarm, GoDisarmed
  <1>9. CASE ReadPower
    BY <1>9 DEF ActivatedHasTask, NothingLeftOn, Running, taskVars, fsmVars, ReadPower,
       Disarm
  <1>10. CASE ReachDeadline
    BY <1>10 DEF ActivatedHasTask, NothingLeftOn, Running, taskVars, fsmVars,
       ReachDeadline
  <1>11. CASE ReadDone
    BY <1>11 DEF ActivatedHasTask, NothingLeftOn, Running, taskVars, fsmVars, ReadDone
  <1>12. CASE Tick
    BY <1>12 DEF ActivatedHasTask, NothingLeftOn, Running, taskVars, fsmVars, Tick, Idle
  <1>13. CASE Aside
    BY <1>13, AsideKeeps DEF ActivatedHasTask, NothingLeftOn, Running, taskVars, fsmVars
  <1> QED
    BY StepCases, <1>1, <1>2, <1>3, <1>4, <1>5, <1>6, <1>7, <1>8, <1>9, <1>10, <1>11,
       <1>12, <1>13

\* A panic alarm that is off holds no claim after any step.
LEMMA PanicClaimsStep ==
  ASSUME NothingLeftOn, ActivatedHasTask, [Next]_vars
  PROVE  (~engaged => panicClaims = {})'
  <1>1. CASE UNCHANGED panicVars
    BY <1>1 DEF NothingLeftOn, panicVars
  <1>2. ASSUME UNCHANGED <<engaged, panicClaims>> PROVE (~engaged => panicClaims = {})'
    BY <1>2 DEF NothingLeftOn
  <1>3. CASE PanicStep
    <2>1. CASE ReadPress
      BY <2>1 DEF NothingLeftOn, ReadPress, Engage, Disengage
    <2>2. CASE ReadFeedback
      BY <2>2 DEF NothingLeftOn, ReadFeedback, Disengage
    <2>3. CASE ReadFlag
      BY <2>3 DEF NothingLeftOn, ReadFlag
    <2>4. CASE Pulse
      BY <2>4 DEF NothingLeftOn, Pulse
    <2> QED
      BY <1>3, <2>1, <2>2, <2>3, <2>4 DEF PanicStep, PanicRead
  <1>4. CASE PulseOn
    BY <1>4, <1>1, <1>2 DEF PulseOn
  <1>5. CASE PulseOff \/ Finish \/ ReadStatus \/ ReadRequestor \/ ReadDoor \/ ReachDeadline
             \/ ReadDone \/ Tick
    BY <1>5, <1>1 DEF PulseOff, Finish, ReadStatus, ReadRequestor, ReadDoor, ReachDeadline,
       ReadDone, Tick
  <1>6. CASE ReadEvent \/ ReadPanic \/ ReadPower
    <2>1. UNCHANGED panicVars \/ Disarm
      BY <1>6, ReadEventCases DEF ReadPanic, ReadPower
    <2> QED
      BY <2>1, <1>1, <1>2 DEF Disarm
  <1>7. CASE PublishStatus \/ PublishRequestor \/ PublishEventNum \/ PublishFeedback
             \/ OpenDoor \/ PressPanic
    BY <1>7, <1>1, <1>2 DEF PublishStatus, PublishRequestor, PublishEventNum, PublishFeedback,
       OpenDoor, PressPanic
  <1>8. ASSUME NEW c \in Command, SendCommand(c) PROVE (~engaged => panicClaims = {})'
    BY <1>8, <1>1 DEF SendCommand
  <1>9. ASSUME NEW live \in BOOLEAN, SwitchIgnition(live)
        PROVE  (~engaged => panicClaims = {})'
    BY <1>9, <1>1 DEF SwitchIgnition
  <1>10. CASE UNCHANGED vars
    BY <1>10, <1>1 DEF vars
  <1> QED
    BY <1>3, <1>4, <1>5, <1>6, <1>7, <1>8, <1>9, <1>10 DEF Next, Loop, AlarmTask, Publish

\* Every step keeps an armed car watched for the grace period.
LEMMA WatchStep ==
  ASSUME TypeOK, Clock, ActivatedHasTask, Watch, [Next]_vars
  PROVE  Watch'
  <1>a. preArm \in 0..GraceTicks \cup {None} /\ watched \in 0..GraceTicks
    BY DEF TypeOK, FsmTypeOK, HistTypeOK
  <1>1. CASE PulseOn
    BY <1>1 DEF Watch, fsmVars, histVars, PulseOn
  <1>2. CASE PulseOff
    BY <1>2 DEF Watch, fsmVars, histVars, PulseOff
  <1>3. CASE Finish
    BY <1>3 DEF Watch, fsmVars, histVars, Finish
  <1>4. CASE ReadStatus
    BY <1>4 DEF Watch, fsmVars, histVars, ReadStatus
  <1>5. CASE ReadRequestor
    BY <1>5 DEF Watch, fsmVars, histVars, ReadRequestor
  <1>6. CASE ReadDoor
    BY <1>6 DEF Watch, fsmVars, histVars, ReadDoor, Start
  <1>7. CASE ReadEvent
    <2>1. CASE MustArm /\ Arm /\ UNCHANGED <<panicVars, taskVars>>
      BY <1>7, <2>1 DEF Watch, ReadEvent, Arm, taskVars
    <2>2. CASE MustStop /\ Disarm /\ GoDisarmed /\ UNCHANGED watched
      BY <1>7, <2>2 DEF Watch, ReadEvent, Disarm, GoDisarmed
    <2>3. CASE Tampering /\ Start /\ UNCHANGED <<panicVars, preArm, watched>>
      BY <1>7, <2>3 DEF Watch, ReadEvent, Start
    <2>4. CASE MustCleanUp /\ GoDisarmed /\ UNCHANGED <<panicVars, taskVars, watched>>
      BY <1>7, <2>4 DEF Watch, ReadEvent, GoDisarmed, taskVars
    <2>5. CASE /\ ~MustArm /\ ~MustStop /\ ~Tampering /\ ~MustCleanUp
               /\ UNCHANGED <<panicVars, taskVars, state, latch, preArm, watched>>
      BY <1>7, <2>5 DEF Watch, ReadEvent, taskVars
    <2> QED
      BY <1>7, <2>1, <2>2, <2>3, <2>4, <2>5, ReadEventCases
  <1>8. CASE ReadPanic
    BY <1>8 DEF Watch, fsmVars, histVars, ReadPanic, GoDisarmed
  <1>9. CASE ReadPower
    BY <1>9 DEF Watch, fsmVars, histVars, ReadPower
  <1>10. CASE ReachDeadline
    BY <1>10, <1>a, Constants DEF Watch, fsmVars, histVars, ReachDeadline, Clock
  <1>11. CASE ReadDone
    BY <1>11 DEF Watch, fsmVars, histVars, ReadDone
  <1>12. CASE Tick
    BY <1>12 DEF Watch, fsmVars, histVars, Tick, Idle
  <1>13. CASE Aside
    BY <1>13, AsideKeeps DEF Watch, fsmVars, histVars
  <1> QED
    BY StepCases, <1>1, <1>2, <1>3, <1>4, <1>5, <1>6, <1>7, <1>8, <1>9, <1>10, <1>11,
       <1>12, <1>13

\* Every step keeps a task whose end is unread from being followed by another.
LEMMA EndedStep ==
  ASSUME TypeOK, ActivatedHasTask, Ended, [Next]_vars
  PROVE  Ended'
  <1>a. doneQ \in Nat
    BY DEF TypeOK, StreamTypeOK
  <1>1. CASE PulseOn
    BY <1>1 DEF Ended, ActivatedHasTask, Running, taskVars, fsmVars, streamVars, PulseOn,
       Awake
  <1>2. CASE PulseOff
    BY <1>2 DEF Ended, ActivatedHasTask, Running, taskVars, fsmVars, streamVars, PulseOff
  <1>3. CASE Finish
    BY <1>3 DEF Ended, ActivatedHasTask, Running, taskVars, fsmVars, streamVars, Finish,
       Awake
  <1>4. CASE ReadStatus
    BY <1>4 DEF Ended, ActivatedHasTask, Running, taskVars, fsmVars, streamVars,
       ReadStatus
  <1>5. CASE ReadRequestor
    BY <1>5 DEF Ended, ActivatedHasTask, Running, taskVars, fsmVars, streamVars,
       ReadRequestor
  <1>6. CASE ReadDoor
    BY <1>6 DEF Ended, ActivatedHasTask, Running, taskVars, fsmVars, streamVars, ReadDoor,
       Start, Trips
  <1>7. CASE ReadEvent
    <2>1. CASE MustArm /\ Arm /\ UNCHANGED <<panicVars, taskVars>>
      BY <1>7, <2>1, Constants DEF Ended, ActivatedHasTask, Running, ReadEvent, Arm,
         taskVars, MustArm
    <2>2. CASE MustStop /\ Disarm /\ GoDisarmed /\ UNCHANGED watched
      BY <1>7, <2>2, Constants DEF Ended, ActivatedHasTask, Running, ReadEvent, Disarm,
         GoDisarmed
    <2>3. CASE Tampering /\ Start /\ UNCHANGED <<panicVars, preArm, watched>>
      BY <1>7, <2>3, Constants DEF Ended, ActivatedHasTask, Running, ReadEvent, Start,
         Tampering
    <2>4. CASE MustCleanUp /\ GoDisarmed /\ UNCHANGED <<panicVars, taskVars, watched>>
      BY <1>7, <2>4, Constants DEF Ended, ActivatedHasTask, Running, ReadEvent,
         GoDisarmed, taskVars, MustCleanUp
    <2>5. CASE /\ ~MustArm /\ ~MustStop /\ ~Tampering /\ ~MustCleanUp
               /\ UNCHANGED <<panicVars, taskVars, state, latch, preArm, watched>>
      BY <1>7, <2>5, Constants DEF Ended, ActivatedHasTask, Running, ReadEvent, taskVars
    <2> QED
      BY <1>7, <2>1, <2>2, <2>3, <2>4, <2>5, ReadEventCases
  <1>8. CASE ReadPanic
    <2>1. CASE task = "none"
      BY <1>8, <2>1 DEF Ended, Running, ReadPanic, taskVars
    <2>2. CASE task # "none"
      BY <1>8, <2>2, Constants DEF Ended, Running, ReadPanic, Disarm, GoDisarmed
    <2> QED
      BY <2>1, <2>2
  <1>9. CASE ReadPower
    <2>1. /\ doneQ' = doneQ
          /\ \/ state' = state /\ preArm' = preArm
             \/ state' = "DISARMED" /\ preArm' = None
      BY <1>9 DEF ReadPower
    <2>2. \/ task' = task /\ latch' = latch
          \/ task' = "none" /\ ~latch' /\ task # "none" /\ Head(powerQ)
      BY <1>9 DEF ReadPower, Disarm, taskVars
    <2>3. Head(powerQ) /\ state = "ACTIVATED" => state' = "DISARMED" /\ preArm' = None
      BY <1>9 DEF ReadPower
    <2>4. None # 0
      BY Constants
    <2> QED
      BY <2>1, <2>2, <2>3, <2>4 DEF Ended, ActivatedHasTask, Running
  <1>10. CASE ReachDeadline
    BY <1>10, Constants DEF Ended, ActivatedHasTask, Running, taskVars, fsmVars,
       streamVars, ReachDeadline
  <1>11. CASE ReadDone
    BY <1>11, <1>a DEF Ended, ActivatedHasTask, Running, taskVars, fsmVars, streamVars,
       ReadDone
  <1>12. CASE Tick
    BY <1>12, <1>a DEF Ended, ActivatedHasTask, Running, taskVars, fsmVars, streamVars,
       Tick, Idle
  <1>13. CASE Aside
    BY <1>13, AsideKeeps DEF Ended, ActivatedHasTask, Running, taskVars, fsmVars,
       streamVars
  <1> QED
    BY StepCases, <1>1, <1>2, <1>3, <1>4, <1>5, <1>6, <1>7, <1>8, <1>9, <1>10, <1>11,
       <1>12, <1>13

-----------------------------------------------------------------------------
(* What the feature still has to read, and what it has made of it.         *)

\* A value that is sent is the last one.
LEMMA TellsSent ==
  ASSUME NEW S, NEW q \in Seq(S), NEW v \in S, NEW cache
  PROVE  Tells(Append(q, v), cache, v)
  BY DEF Tells

\* Reading leaves the last one where it is, or puts it in the cache.
LEMMA TellsRead ==
  ASSUME NEW S, NEW q \in Seq(S), NEW v, NEW cache, Tells(q, cache, v), q # <<>>
  PROVE  Tells(Tail(q), Head(q), v)
  <1>1. /\ Len(q) \in Nat \ {0}
        /\ Tail(q) \in Seq(S) /\ Len(Tail(q)) = Len(q) - 1
        /\ Head(q) = q[1]
        /\ \A k \in 1..Len(Tail(q)) : Tail(q)[k] = q[k + 1]
    OBVIOUS
  <1>2. q[Len(q)] = v
    BY DEF Tells
  <1>3. CASE Tail(q) = <<>>
    <2>1. Len(q) = 1
      BY <1>1, <1>3
    <2> QED
      BY <1>1, <1>2, <1>3, <2>1 DEF Tells
  <1>4. CASE Tail(q) # <<>>
    <2>1. Len(Tail(q)) \in 1..Len(Tail(q)) /\ Len(Tail(q)) + 1 = Len(q)
      BY <1>1, <1>4
    <2> QED
      BY <1>1, <1>2, <1>4, <2>1 DEF Tells
  <1> QED
    BY <1>3, <1>4

\* Every step keeps the unread values those of the arbiter's last command.
LEMMA OrderStep ==
  ASSUME TypeOK, ActivatedHasTask, Order, [Next]_vars
  PROVE  Order'
  <1>a. /\ statusQ \in Seq({"UNLOCKED", "LOCKED"}) /\ requestorQ \in Seq(Requestors)
        /\ \A c \in Command : c.status \in {"UNLOCKED", "LOCKED"} /\ c.requestor \in Requestors
        /\ command # None => command \in Command
    BY DEF TypeOK, StreamTypeOK, WorldTypeOK, Command
  <1>1. ASSUME UNCHANGED <<statusQ, lockStatus, requestorQ, lastRequestor>>,
               UNCHANGED <<command, stage, lastCommand>>
        PROVE  Order'
    BY <1>1 DEF Order, Tells
  <1>2. CASE ReadStatus
    <2>1. lastCommand # None => Tells(Tail(statusQ), Head(statusQ), lastCommand.status)
      BY <1>2, <1>a, TellsRead DEF ReadStatus, Order
    <2> QED
      BY <1>2, <2>1 DEF Order, ReadStatus, Tells, worldVars
  <1>3. CASE ReadRequestor
    <2>1. lastCommand # None /\ stage # "status" =>
             Tells(Tail(requestorQ), Head(requestorQ), lastCommand.requestor)
      BY <1>3, <1>a, TellsRead DEF ReadRequestor, Order
    <2> QED
      BY <1>3, <2>1 DEF Order, ReadRequestor, Tells, worldVars
  <1>4. CASE PublishStatus
    <2>1. Tells(Append(statusQ, command.status), lockStatus, command.status)
      BY <1>4, <1>a, TellsSent DEF PublishStatus
    <2> QED
      BY <1>4, <2>1 DEF Order, PublishStatus, Tells, fsmVars
  <1>5. CASE PublishRequestor
    <2>1. Tells(Append(requestorQ, command.requestor), lastRequestor, command.requestor)
      BY <1>5, <1>a, TellsSent DEF PublishRequestor
    <2> QED
      BY <1>5, <2>1 DEF Order, PublishRequestor, Tells, fsmVars
  <1>6. CASE PublishEventNum
    BY <1>6 DEF Order, PublishEventNum, Tells, fsmVars
  <1>7. CASE PublishFeedback
    BY <1>7 DEF Order, PublishFeedback, Tells, fsmVars, streamVars
  <1>8. ASSUME NEW c \in Command, SendCommand(c) PROVE Order'
    BY <1>8, Constants DEF Order, SendCommand, Tells, fsmVars, streamVars
  <1>9. CASE PulseOn \/ PulseOff \/ Finish \/ ReadDoor \/ ReadPanic \/ ReadPower
             \/ ReachDeadline \/ ReadDone \/ Tick \/ PanicStep \/ OpenDoor \/ PressPanic
    BY <1>9, <1>1 DEF PulseOn, PulseOff, Finish, ReadDoor, ReadPanic, ReadPower, ReachDeadline,
       ReadDone, Tick, PanicStep, OpenDoor, PressPanic, fsmVars, streamVars, worldVars
  <1>10. CASE ReadEvent
    BY <1>10, <1>1 DEF ReadEvent, worldVars
  <1>11. ASSUME NEW live \in BOOLEAN, SwitchIgnition(live) PROVE Order'
    BY <1>11, <1>1 DEF SwitchIgnition, fsmVars
  <1>12. CASE UNCHANGED vars
    BY <1>12, <1>1 DEF vars, fsmVars, streamVars, worldVars
  <1> QED
    BY <1>2, <1>3, <1>4, <1>5, <1>6, <1>7, <1>8, <1>9, <1>10, <1>11, <1>12
    DEF Next, Loop, AlarmTask, Publish

\* Every step keeps the effect of a command whose event number was read.
LEMMA HandledStep ==
  ASSUME TypeOK, ActivatedHasTask, Order, Handled, [Next]_vars
  PROVE  Handled'
  <1>a. eventQ \in Nat
    BY DEF TypeOK, StreamTypeOK
  <1>1. ASSUME UNCHANGED <<state, excuse, lastCommand, eventQ>>,
               stage' \in {"event", "token"} => stage \in {"event", "token"}
        PROVE  Handled'
    BY <1>1 DEF Handled, OwnerUnlocked, TrustedLocked
  <1>2. CASE ReadEvent
    <2>1. SUFFICES ASSUME stage \in {"event", "token"}, lastCommand # None
                   PROVE  /\ OwnerUnlocked => state' = "DISARMED"
                          /\ TrustedLocked /\ ~excuse' => state' # "DISARMED"
      BY <1>2 DEF Handled, OwnerUnlocked, TrustedLocked, ReadEvent, worldVars
    <2>2. lockStatus = lastCommand.status /\ lastRequestor = lastCommand.requestor
      BY <1>2, <2>1 DEF ReadEvent, Order, Tells
    <2>3. OwnerUnlocked => state' = "DISARMED"
      <3>1. SUFFICES ASSUME OwnerUnlocked PROVE state' = "DISARMED"
        OBVIOUS
      <3>2. /\ lockStatus = "UNLOCKED" /\ lastRequestor \in AuthSources
            /\ lastRequestor \notin Internal
        BY <2>2, <3>1, Constants DEF OwnerUnlocked
      <3>3. ~MustArm /\ ~Tampering /\ (task # "none" => MustStop)
        BY <3>2 DEF MustArm, Tampering, MustStop, LockedByTrusted, UnlockedByOwner
      <3>4. CASE MustStop \/ MustCleanUp
        BY <1>2, <3>3, <3>4, ReadEventCases DEF GoDisarmed
      <3>5. CASE ~MustStop /\ ~MustCleanUp
        <4>1. task = "none" /\ state = "DISARMED"
          BY <3>2, <3>3, <3>5 DEF MustCleanUp
        <4> QED
          BY <1>2, <3>3, <3>5, <4>1, ReadEventCases
      <3> QED
        BY <3>4, <3>5
    <2>4. TrustedLocked /\ ~excuse' => state' # "DISARMED"
      <3>1. SUFFICES ASSUME TrustedLocked, ~excuse' PROVE state' # "DISARMED"
        OBVIOUS
      <3>2. lockStatus = "LOCKED" /\ lastRequestor \in Trusted /\ ~ignitionLive
        BY <1>2, <2>2, <3>1 DEF TrustedLocked, ReadEvent
      <3>3. ~MustStop /\ ~Tampering /\ ~MustCleanUp
        BY <3>2 DEF MustStop, Tampering, MustCleanUp, UnlockedByOwner
      <3>4. state = "DISARMED" => MustArm
        BY <3>2 DEF MustArm, LockedByTrusted
      <3> QED
        BY <1>2, <3>3, <3>4, ReadEventCases DEF Arm
    <2> QED
      BY <2>3, <2>4
  <1>3. CASE ReadDoor
    BY <1>3 DEF Handled, OwnerUnlocked, TrustedLocked, ReadDoor, Start, Trips, worldVars,
       histVars
  <1>4. CASE ReadPanic
    BY <1>4 DEF Handled, OwnerUnlocked, TrustedLocked, ReadPanic, GoDisarmed, worldVars
  <1>5. CASE ReadPower
    BY <1>5 DEF Handled, OwnerUnlocked, TrustedLocked, ReadPower, worldVars
  <1>6. CASE ReachDeadline
    BY <1>6 DEF Handled, OwnerUnlocked, TrustedLocked, ReachDeadline, worldVars, histVars,
       streamVars
  <1>7. CASE ReadDone
    BY <1>7 DEF Handled, OwnerUnlocked, TrustedLocked, ReadDone, worldVars
  <1>8. CASE PublishStatus
    BY <1>8 DEF Handled, PublishStatus
  <1>9. CASE PublishRequestor
    BY <1>9 DEF Handled, PublishRequestor
  <1>10. CASE PublishEventNum
    BY <1>10, <1>a DEF Handled, PublishEventNum
  <1>11. CASE PublishFeedback
    BY <1>11, <1>1 DEF PublishFeedback, fsmVars, streamVars, histVars
  <1>12. ASSUME NEW c \in Command, SendCommand(c) PROVE Handled'
    BY <1>12, <1>1 DEF SendCommand, Order, fsmVars, streamVars, histVars
  <1>13. CASE PulseOn \/ PulseOff \/ Finish \/ ReadStatus \/ ReadRequestor \/ Tick
              \/ PanicStep \/ OpenDoor \/ PressPanic
    BY <1>13, <1>1 DEF PulseOn, PulseOff, Finish, ReadStatus, ReadRequestor, Tick, PanicStep,
       OpenDoor, PressPanic, fsmVars, streamVars, worldVars, histVars
  <1>14. ASSUME NEW live \in BOOLEAN, SwitchIgnition(live) PROVE Handled'
    BY <1>14, <1>1 DEF SwitchIgnition, fsmVars, histVars
  <1>15. CASE UNCHANGED vars
    BY <1>15, <1>1 DEF vars, fsmVars, streamVars, worldVars, histVars
  <1> QED
    BY <1>2, <1>3, <1>4, <1>5, <1>6, <1>7, <1>8, <1>9, <1>10, <1>11, <1>12, <1>13, <1>14, <1>15
    DEF Next, Loop, AlarmTask, Publish

-----------------------------------------------------------------------------
(* The invariant, and what follows from it.                                *)

\* The invariant holds initially.
LEMMA InitInvariant == Init => IInv
  <1> SUFFICES ASSUME Init PROVE IInv
    OBVIOUS
  <1>1. TypeOK
    <2>1. PanicTypeOK
      <3>1. flagQ = <<>> /\ <<>> \in Seq(BOOLEAN)
        BY DEF Init, PanicInit
      <3>2. flagQ \in Seq(BOOLEAN)
        BY <3>1
      <3> QED
        BY <3>2 DEF Init, PanicInit, PanicTypeOK
    <2>2. FsmTypeOK
      BY DEF Init, FsmTypeOK
    <2>3. StreamTypeOK
      <3>1. powerQ = <<>> /\ <<>> \in Seq(BOOLEAN)
        BY DEF Init
      <3>2. powerQ \in Seq(BOOLEAN)
        BY <3>1
      <3> QED
        BY <3>2 DEF Init, StreamTypeOK
    <2>5. 0 \in 0..(End + 1) /\ 0 \in 0..GraceTicks
      BY Constants
    <2>6. TaskTypeOK /\ HistTypeOK
      BY <2>5 DEF Init, TaskTypeOK, HistTypeOK
    <2>4. WorldTypeOK
      BY Constants DEF Init, WorldTypeOK
    <2> QED
      BY <2>1, <2>2, <2>3, <2>4, <2>6 DEF TypeOK
  <1>2. Clock /\ Watch /\ Ended /\ Order /\ Handled
    BY DEF Init, Clock, Watch, Ended, Order, Handled
  <1>3. NothingLeftOn /\ ActivatedHasTask
    BY DEF Init, PanicInit, NothingLeftOn, ActivatedHasTask
  <1> QED
    BY <1>1, <1>2, <1>3 DEF IInv

\* Every step keeps the invariant.
LEMMA StepInvariant == IInv /\ [Next]_vars => IInv'
  <1> SUFFICES ASSUME IInv, [Next]_vars PROVE IInv'
    OBVIOUS
  <1>1. TypeOK' /\ Clock' /\ Watch'
    BY TypeStep, ClockStep, WatchStep DEF IInv
  <1>2. NothingLeftOn' /\ ActivatedHasTask'
    BY TaskStep, PanicClaimsStep DEF IInv, NothingLeftOn
  <1>3. Ended' /\ Order' /\ Handled'
    BY EndedStep, OrderStep, HandledStep DEF IInv
  <1> QED
    BY <1>1, <1>2, <1>3 DEF IInv

\* The alarm's invariant holds in every reachable state.
THEOREM Invariance == Spec => []IInv
  BY InitInvariant, StepInvariant, PTL DEF Spec

\* The variables keep their types: the task's clock passes the end of the last
\* phase by a tick at most, the deadline is never longer than the grace period.
THEOREM TypeCorrect == Spec => []TypeOK
  <1>1. IInv => TypeOK
    BY DEF IInv
  <1> QED
    BY <1>1, Invariance, PTL

\* However an alarm ends, it leaves no chime, light or horn claimed.
THEOREM EndsClean == Spec => []NothingLeftOn
  <1>1. IInv => NothingLeftOn
    BY DEF IInv
  <1> QED
    BY <1>1, Invariance, PTL

\* ACTIVATED is published exactly while there is an alarm task.
THEOREM PublishesTask == Spec => []ActivatedHasTask
  <1>1. IInv => ActivatedHasTask
    BY DEF IInv
  <1> QED
    BY <1>1, Invariance, PTL

\* When the loop awaits the handle of a task that has ended, no task runs.
THEOREM AwaitsNothing == Spec => []NeverAwaitsRunningAlarm
  <1>1. IInv => NeverAwaitsRunningAlarm
    BY DEF IInv, Ended, NeverAwaitsRunningAlarm
  <1> QED
    BY <1>1, Invariance, PTL

\* A car that a trusted requestor locked last is watched.
THEOREM LockWatches == Spec => []LockedIsWatched
  <1>1. IInv => LockedIsWatched
    BY DEF IInv, LockedIsWatched, Settled, NothingQueued, Order, Handled, TrustedLocked
  <1> QED
    BY <1>1, Invariance, PTL

\* After the owner's unlock nothing is armed and nothing sounds.
THEOREM UnlockSilences == Spec => []OwnerIsNotAlarmed
  <1>1. IInv => OwnerIsNotAlarmed
    BY DEF IInv, OwnerIsNotAlarmed, Settled, NothingQueued, Order, Handled, OwnerUnlocked
  <1> QED
    BY <1>1, Invariance, PTL

\* A door starts no alarm before the grace period is over.
THEOREM KeepsGrace == Spec => GraceIsKept
  <1> DEFINE A == doorQ' < doorQ /\ state # "ACTIVATED" /\ state' = "ACTIVATED"
                     => watched = GraceTicks
  <1>1. ASSUME IInv, [Next]_vars PROVE A
    <2>1. SUFFICES ASSUME doorQ' < doorQ, state # "ACTIVATED", state' = "ACTIVATED"
                   PROVE  watched = GraceTicks
      OBVIOUS
    <2>2. doorQ \in Nat
      BY <1>1 DEF IInv, TypeOK, StreamTypeOK
    <2>3. ReadDoor
      <3>1. CASE ReadEvent
        BY <3>1, <2>1, <2>2 DEF ReadEvent
      <3>2. CASE Aside
        BY <3>2, <2>1, AsideKeeps
      <3>3. CASE PulseOn \/ PulseOff \/ Finish \/ ReadStatus \/ ReadRequestor
        BY <3>3, <2>1, <2>2 DEF PulseOn, PulseOff, Finish, ReadStatus, ReadRequestor,
           fsmVars, streamVars
      <3>4. CASE ReadPanic \/ ReadPower
        <4>1. doorQ' = doorQ
          BY <3>4 DEF ReadPanic, ReadPower
        <4> QED
          BY <4>1, <2>1, <2>2
      <3>5. CASE ReachDeadline \/ ReadDone \/ Tick
        BY <3>5, <2>1, <2>2 DEF ReachDeadline, ReadDone, Tick, streamVars
      <3> QED
        BY <1>1, <3>1, <3>2, <3>3, <3>4, <3>5, StepCases
    <2>4. state = "ARMED"
      BY <2>1, <2>3 DEF ReadDoor, Trips
    <2> QED
      BY <1>1, <2>4 DEF IInv, Watch
  <1> QED
    BY <1>1, Invariance, PTL DEF Spec, GraceIsKept
=============================================================================
