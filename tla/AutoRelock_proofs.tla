-------------------------- MODULE AutoRelock_proofs --------------------------
(***************************************************************************)
(* Proofs about AutoRelock for every set of doors and requestors, every    *)
(* timeout and every budget.  Each theorem names the assumption on the     *)
(* timing that it needs: none of the three properties holds without it.    *)
(***************************************************************************)
EXTENDS AutoRelock, SequenceTheorems, TLAPS

-----------------------------------------------------------------------------
(* Streams.                                                                *)

\* q has a value v that has not been read.
Has(q, v) == \E i \in DOMAIN q : q[i] = v

\* The value of a stream that is read last.
End(q) == q[Len(q)]

\* A value is read.
LEMMA Reading ==
  ASSUME NEW S, NEW q \in Seq(S), q # <<>>
  PROVE  /\ Head(q) \in S /\ Head(q) = q[1] /\ Tail(q) \in Seq(S)
         /\ Len(q) \in Nat \ {0} /\ Len(Tail(q)) = Len(q) - 1
         /\ IF Tail(q) = <<>> THEN Len(q) = 1 /\ End(q) = Head(q) ELSE End(Tail(q)) = End(q)
         /\ \A i \in DOMAIN Tail(q) : i + 1 \in DOMAIN q /\ Tail(q)[i] = q[i + 1]
         /\ \A v : Has(q, v) => Head(q) = v \/ Has(Tail(q), v)
         /\ \A v : Has(Tail(q), v) => Has(q, v)
         /\ Has(q, Head(q))
  <1>1. /\ Tail(q) \in Seq(S) /\ Len(Tail(q)) = Len(q) - 1 /\ Head(q) = q[1]
        /\ \A i \in 1..Len(Tail(q)) : Tail(q)[i] = q[i + 1]
        /\ Len(q) \in Nat \ {0}
        /\ DOMAIN q = 1..Len(q) /\ DOMAIN Tail(q) = 1..Len(Tail(q))
    BY HeadTailProperties, EmptySeq, LenProperties
  <1>2. Head(q) \in S
    BY <1>1
  <1>2a. \A t \in Seq(S) : Len(t) \in Nat /\ (t = <<>> <=> Len(t) = 0)
    BY EmptySeq, LenProperties
  <1>2b. Len(Tail(q)) \in Nat /\ (Tail(q) = <<>> <=> Len(Tail(q)) = 0)
    BY <1>1, <1>2a
  <1>3. /\ Tail(q) = <<>> => Len(q) = 1
        /\ Tail(q) # <<>> => Len(Tail(q)) \in Nat \ {0}
    BY <1>1, <1>2b
  <1>4. IF Tail(q) = <<>> THEN Len(q) = 1 /\ End(q) = Head(q) ELSE End(Tail(q)) = End(q)
    BY <1>1, <1>3 DEF End
  <1>5. \A i \in DOMAIN q : i = 1 \/ (i - 1 \in DOMAIN Tail(q) /\ Tail(q)[i - 1] = q[i])
    BY <1>1
  <1>6. \A i \in DOMAIN Tail(q) : i + 1 \in DOMAIN q /\ Tail(q)[i] = q[i + 1]
    BY <1>1
  <1>7. \A v : Has(q, v) => Head(q) = v \/ Has(Tail(q), v)
    BY <1>1, <1>5 DEF Has
  <1>8. \A v : Has(Tail(q), v) => Has(q, v)
    BY <1>6 DEF Has
  <1>9. Has(q, Head(q))
    BY <1>1 DEF Has
  <1> QED
    BY <1>1, <1>2, <1>4, <1>6, <1>7, <1>8, <1>9

\* A value is published.
LEMMA Publishing ==
  ASSUME NEW S, NEW q \in Seq(S), NEW v \in S
  PROVE  /\ Append(q, v) \in Seq(S) /\ Append(q, v) # <<>> /\ End(Append(q, v)) = v
         /\ Len(Append(q, v)) = Len(q) + 1 /\ Len(q) \in Nat
         /\ \A i \in 1..Len(q) : Append(q, v)[i] = q[i]
         /\ q = <<>> => Head(Append(q, v)) = v
         /\ Has(Append(q, v), v)
         /\ \A w : Has(Append(q, v), w) => w = v \/ Has(q, w)
         /\ \A w : Has(q, w) => Has(Append(q, v), w)
  <1>1. /\ Append(q, v) \in Seq(S) /\ Append(q, v) # <<>>
        /\ Len(Append(q, v)) = Len(q) + 1 /\ Len(q) \in Nat
        /\ DOMAIN q = 1..Len(q) /\ DOMAIN Append(q, v) = 1..(Len(q) + 1)
        /\ \A i \in 1..Len(q) : Append(q, v)[i] = q[i]
        /\ Append(q, v)[Len(q) + 1] = v
    BY AppendProperties, LenProperties
  <1>2. q = <<>> => Head(Append(q, v)) = v
    BY <1>1, HeadTailProperties, EmptySeq
  <1> QED
    BY <1>1, <1>2 DEF Has, End

\* Nothing is unread in an empty stream.
LEMMA NothingUnread == \A v : ~Has(<<>>, v)
  BY EmptySeq DEF Has

-----------------------------------------------------------------------------
(* The inductive invariant.                                                *)

\* What the arbiter publishes.
Statuses == {"UNLOCKED", "LOCKED"}

\* What the feature will think the status is when it has read it.
StatusIs(s) ==
    IF statusQ = <<>> THEN statusCache = s ELSE Len(statusQ) = 1 /\ Head(statusQ) = s

\* A feature that keeps up reads the status of a command before its requestor.
InStep ==
    /\ statusQ # <<>> => Len(statusQ) = 1
    /\ requestorQ # <<>> => Len(requestorQ) = 1 /\ StatusIs(Head(requestorQ).status)
    /\ command # None =>
        /\ stage = "token" => statusQ = <<>> /\ requestorQ = <<>>
        /\ stage = "status" => requestorQ = <<>> /\ StatusIs(command.status)

\* The feature knows, or will know, which doors are open.
DoorsFollow ==
    \A d \in Doors :
        IF openQ[d] = <<>> THEN doorOpen[d] = open[d] ELSE End(openQ[d]) = open[d]

\* The feature does not wait for the ignition.
Enabled == mode \in {"idle", "armed"}

\* What is left of a lockout is still to be read: nothing of the cycle has been by a feature
\* that has yet to see the crash or the OFF, and the OFF by one that waits for the ON.
CycleInv ==
    /\ crash = "none" <=> cycle = "none"
    /\ cycle = "none" => Enabled /\ ~Has(crashQ, TRUE)
    /\ cycle \in {"latched", "off"} =>
        \/ /\ cycle = CycleIn(powerQ)
           /\ mode = "waitOff" \/ (Enabled /\ Has(crashQ, TRUE))
        \/ cycle = "off" /\ mode = "waitOn" /\ ~Has(powerQ, "on")

-----------------------------------------------------------------------------
(* Types.                                                                  *)

\* A command that is there has a requestor and a status.
LEMMA Commands ==
  ASSUME NEW c \in Command
  PROVE  c # None /\ c.requestor \in Requestors /\ c.status \in Statuses
  BY RelockAssumption DEF Command, Statuses

\* The feature's steps.
LEMMA ReadTypes == TypeOK /\ (Read \/ Tick \/ Expire) => TypeOK'
  <1> SUFFICES ASSUME TypeOK, Read \/ Tick \/ Expire PROVE TypeOK'
    OBVIOUS
  <1> USE DEF TypeOK, featureVars, streamVars, worldVars
  <1>1. /\ crashQ # <<>> => Head(crashQ) \in BOOLEAN /\ Tail(crashQ) \in Seq(BOOLEAN)
        /\ statusQ # <<>> => Head(statusQ) \in Statuses /\ Tail(statusQ) \in Seq(Statuses)
        /\ requestorQ # <<>> =>
              Head(requestorQ) \in Command /\ Tail(requestorQ) \in Seq(Command)
        /\ lockQ # <<>> => Head(lockQ) \in BOOLEAN /\ Tail(lockQ) \in Seq(BOOLEAN)
        /\ powerQ # <<>> => Tail(powerQ) \in Seq({"on", "off"})
        /\ \A d \in Doors : openQ[d] # <<>> =>
              Head(openQ[d]) \in BOOLEAN /\ Tail(openQ[d]) \in Seq(BOOLEAN)
    BY Reading DEF Statuses
  <1>2. Timeout \in 0..Timeout /\ 0 \in 0..Timeout
    BY RelockAssumption
  <1>3a. CASE IdleCrash
    BY <1>1, <1>2, <1>3a DEF IdleCrash
  <1>3b. CASE IdleStatus
    BY <1>1, <1>2, <1>3b DEF IdleStatus, Statuses
  <1>3c. CASE IdleRequestor
    BY <1>1, <1>2, <1>3c DEF IdleRequestor, SleepAgain
  <1>3d. CASE IdleLocked
    BY <1>1, <1>2, <1>3d DEF IdleLocked
  <1>4a. CASE ArmedCrash
    BY <1>1, <1>2, <1>4a DEF ArmedCrash, SleepAgain, Cancel
  <1>4b. CASE ArmedLocked
    BY <1>1, <1>2, <1>4b DEF ArmedLocked, SleepAgain, Cancel
  <1>4c. CASE ArmedStatus
    BY <1>1, <1>2, <1>4c DEF ArmedStatus, SleepAgain, Statuses
  <1>4d. CASE ArmedRequestor
    BY <1>1, <1>2, <1>4d DEF ArmedRequestor, SleepAgain
  <1>5. ASSUME NEW d \in Doors, IdleOpen(d) \/ ArmedOpen(d) PROVE TypeOK'
    <2>1. doorOpen' \in [Doors -> BOOLEAN] /\ openQ' \in [Doors -> Seq(BOOLEAN)]
      BY <1>1, <1>5 DEF IdleOpen, ArmedOpen
    <2> QED
      BY <1>2, <1>5, <2>1 DEF IdleOpen, ArmedOpen, SleepAgain, Cancel
  <1>6a. CASE WaitCrash
    BY <1>1, <1>6a DEF WaitCrash
  <1>6b. CASE WaitPower
    <2>1. mode' \in {"idle", "waitOff", "waitOn"}
      BY <1>6b DEF WaitPower, ModeAfterPower
    <2> QED
      BY <1>1, <1>6b, <2>1 DEF WaitPower
  <1>7. CASE Tick \/ Expire
    BY <1>2, <1>7, RelockAssumption DEF Tick, Expire, Cancel
  <1> QED
    BY <1>3a, <1>3b, <1>3c, <1>3d, <1>4a, <1>4b, <1>4c, <1>4d,
       <1>5, <1>6a, <1>6b, <1>7 DEF Read

\* The world's steps.
World ==
    \/ Arbiter
    \/ \E r \in Requestors, s \in Statuses : SendCommand(r, s)
    \/ \E d \in Doors : MoveDoor(d)
    \/ \E b \in BOOLEAN : ReportCrash(b)
    \/ SwitchPower

\* The world keeps the types.
LEMMA WorldTypes == TypeOK /\ World => TypeOK'
  <1> SUFFICES ASSUME TypeOK, World PROVE TypeOK'
    OBVIOUS
  <1> USE DEF TypeOK, featureVars, streamVars, worldVars
  <1>1. CASE PlantMoves
    <2>1. locked' \in BOOLEAN /\ Append(lockQ, locked') \in Seq(BOOLEAN)
      BY <1>1, Publishing DEF PlantMoves
    <2> QED
      BY <1>1, <2>1 DEF PlantMoves
  <1>2. CASE PublishStatus
    <2>1. Append(statusQ, command.status) \in Seq(Statuses)
      BY <1>2, Commands, Publishing DEF PublishStatus, Statuses
    <2> QED
      BY <1>2, <2>1 DEF PublishStatus, Statuses
  <1>3. CASE PublishRequestor
    <2>1. Append(requestorQ, command) \in Seq(Command)
      BY <1>3, Publishing DEF PublishRequestor
    <2> QED
      BY <1>3, <2>1 DEF PublishRequestor
  <1>4. CASE EndCommand
    BY <1>4 DEF EndCommand
  <1>5. ASSUME NEW r \in Requestors, NEW s \in Statuses, SendCommand(r, s) PROVE TypeOK'
    <2>1. command' \in Command
      BY <1>5 DEF SendCommand, Command, Statuses
    <2>2. /\ stage' = "token" /\ moved' = FALSE /\ budget' \in 0..Budget
          /\ UNCHANGED <<featureVars, streamVars, locked, open, power, crash, cycle>>
      BY <1>5, RelockAssumption DEF SendCommand, Spend
    <2> QED
      BY <2>1, <2>2
  <1>6. ASSUME NEW d \in Doors, MoveDoor(d) PROVE TypeOK'
    <2>1. /\ open'[d] \in BOOLEAN /\ open' \in [Doors -> BOOLEAN]
          /\ openQ' = [openQ EXCEPT ![d] = Append(openQ[d], open'[d])]
      BY <1>6 DEF MoveDoor
    <2>2. Append(openQ[d], open'[d]) \in Seq(BOOLEAN)
      BY <2>1, Publishing
    <2>3. openQ' \in [Doors -> Seq(BOOLEAN)]
      BY <2>1, <2>2
    <2>4. /\ budget' \in 0..Budget
          /\ UNCHANGED <<featureVars, crashQ, statusQ, requestorQ, lockQ, powerQ,
                         command, stage, moved, locked, power, crash, cycle>>
      BY <1>6, RelockAssumption DEF MoveDoor, Spend
    <2> QED
      BY <2>1, <2>3, <2>4
  <1>7. ASSUME NEW b \in BOOLEAN, ReportCrash(b) PROVE TypeOK'
    <2>1. Append(crashQ, b) \in Seq(BOOLEAN)
      BY Publishing
    <2>2. {crash', cycle'} \subseteq {"none", "latched", "off", "over"}
      BY <1>7 DEF ReportCrash, CycleIn
    <2> QED
      BY <1>7, <2>1, <2>2, RelockAssumption DEF ReportCrash, Spend
  <1>8. CASE SwitchPower
    <2>1. power' \in {"on", "off"}
      BY <1>8 DEF SwitchPower
    <2>2. Append(powerQ, power') \in Seq({"on", "off"})
      BY <2>1, Publishing
    <2>3. {crash', cycle'} \subseteq {"none", "latched", "off", "over"}
      BY <1>8 DEF SwitchPower, Cycled
    <2> QED
      BY <1>8, <2>1, <2>2, <2>3, RelockAssumption DEF SwitchPower, Spend
  <1> QED
    BY <1>1, <1>2, <1>3, <1>4, <1>5, <1>6, <1>7, <1>8 DEF World, Arbiter

\* The feature, its streams and its world keep their types, and the timer never runs for
\* longer than the timeout.
THEOREM TypeCorrect == Spec => []TypeOK
  <1>1. Init => TypeOK
    <2> SUFFICES ASSUME Init PROVE TypeOK
      OBVIOUS
    <2>1. /\ <<"LOCKED">> \in Seq(Statuses) /\ <<TRUE>> \in Seq(BOOLEAN)
          /\ <<FALSE>> \in Seq(BOOLEAN)
          /\ <<"off">> \in Seq({"on", "off"})
          /\ \A S : <<>> \in Seq(S)
      BY EmptySeq DEF Statuses
    <2> QED
      BY <2>1, RelockAssumption DEF Init, TypeOK, Statuses
  <1>2. TypeOK /\ [Next]_vars => TypeOK'
    <2>1. ASSUME TypeOK, UNCHANGED vars PROVE TypeOK'
      BY <2>1 DEF vars, featureVars, streamVars, worldVars, TypeOK
    <2> QED
      BY <2>1, ReadTypes, WorldTypes DEF Next, World, Statuses
  <1> QED
    BY <1>1, <1>2, PTL DEF Spec

-----------------------------------------------------------------------------
(* The timer is armed by an unlock from outside.                           *)

\* A feature that keeps up stays in step.
LEMMA StaysInStep == KeepsUp /\ TypeOK /\ InStep /\ [Next]_vars => InStep'
  <1> SUFFICES ASSUME KeepsUp, TypeOK, InStep, [Next]_vars PROVE InStep'
    OBVIOUS
  <1> USE DEF InStep, StatusIs, featureVars, streamVars, worldVars
  <1>1. CASE UNCHANGED <<statusQ, requestorQ, statusCache, command, stage>>
    BY <1>1
  <1>2. CASE IdleStatus \/ ArmedStatus
    <2>1. Len(statusQ) = 1 /\ statusQ' = Tail(statusQ) /\ statusCache' = Head(statusQ)
      BY <1>2 DEF IdleStatus, ArmedStatus
    <2>2. statusQ' = <<>>
      BY <2>1, Reading, <1>2 DEF TypeOK, IdleStatus, ArmedStatus
    <2> QED
      BY <1>2, <2>1, <2>2 DEF IdleStatus, ArmedStatus
  <1>3. CASE IdleRequestor \/ ArmedRequestor
    <2>1. Len(requestorQ) = 1 /\ requestorQ' = Tail(requestorQ)
      BY <1>3 DEF IdleRequestor, ArmedRequestor
    <2>2. requestorQ' = <<>>
      BY <2>1, Reading, <1>3 DEF TypeOK, IdleRequestor, ArmedRequestor
    <2> QED
      BY <1>3, <2>2 DEF IdleRequestor, ArmedRequestor
  <1>4. ASSUME NEW r \in Requestors, NEW s \in Statuses, SendCommand(r, s) PROVE InStep'
    BY <1>4 DEF SendCommand
  <1>5. CASE PublishStatus
    <2>1. statusQ = <<>> /\ requestorQ = <<>> /\ command.status \in Statuses
      BY <1>5, Commands DEF PublishStatus, TypeOK
    <2>2. statusQ' # <<>> /\ Len(statusQ') = 1 /\ Head(statusQ') = command.status
      BY <1>5, <2>1 DEF PublishStatus
    <2> QED
      BY <1>5, <2>1, <2>2 DEF PublishStatus
  <1>6. CASE PublishRequestor
    <2>1. requestorQ = <<>> /\ StatusIs(command.status)
      BY <1>6 DEF PublishRequestor
    <2>2. requestorQ' # <<>> /\ Len(requestorQ') = 1 /\ Head(requestorQ') = command
      BY <1>6, <2>1 DEF PublishRequestor
    <2> QED
      BY <1>6, <2>1, <2>2 DEF PublishRequestor
  <1>7. CASE EndCommand
    BY <1>7 DEF EndCommand
  <1> QED
    BY <1>1, <1>2, <1>3, <1>4, <1>5, <1>6, <1>7
    DEF Next, vars, Read, Arbiter, Statuses, IdleCrash, IdleLocked, ArmedCrash, ArmedLocked,
        IdleOpen, ArmedOpen, WaitCrash, WaitPower, Tick, Expire, PlantMoves, MoveDoor,
        ReportCrash, SwitchPower

\* Its next command is not sent before the feature has read the last: then the timer is armed
\* only by an unlock from outside, the status it has cached being that of the command it reads.
THEOREM ArmedFromOutside == KeepsUp => (Spec => []ArmedByExternalUnlock)
  <1> SUFFICES ASSUME KeepsUp PROVE Spec => []ArmedByExternalUnlock
    OBVIOUS
  <1>1. Init => InStep /\ ArmedByExternalUnlock
    <2> SUFFICES ASSUME Init PROVE InStep /\ ArmedByExternalUnlock
      OBVIOUS
    <2>1. Len(<<"LOCKED">>) = 1
      OBVIOUS
    <2> QED
      BY <2>1 DEF Init, InStep, ArmedByExternalUnlock
  <1>2. InStep /\ ArmedByExternalUnlock /\ [Next]_vars => ArmedByExternalUnlock'
    <2> SUFFICES ASSUME InStep, ArmedByExternalUnlock, [Next]_vars
                 PROVE  ArmedByExternalUnlock'
      OBVIOUS
    <2>1. CASE IdleRequestor \/ ArmedRequestor
      <3>1. statusQ = <<>> /\ statusCache = Head(requestorQ).status
        BY <2>1 DEF IdleRequestor, ArmedRequestor, InStep, StatusIs
      <3> QED
        BY <2>1, <3>1 DEF IdleRequestor, ArmedRequestor, ShouldArm, ArmedByExternalUnlock
    <2>2. CASE UNCHANGED armedBy /\ (mode' = "armed" => mode = "armed")
      BY <2>2 DEF ArmedByExternalUnlock
    <2> QED
      BY <2>1, <2>2
      DEF Next, vars, featureVars, streamVars, worldVars, Read, Arbiter, IdleCrash, IdleStatus,
          IdleLocked, ArmedCrash, ArmedLocked, ArmedStatus, IdleOpen, ArmedOpen, WaitCrash,
          WaitPower, ModeAfterPower, Cancel, Tick, Expire, SendCommand, PlantMoves,
          PublishStatus, PublishRequestor, EndCommand, MoveDoor, ReportCrash, SwitchPower
  <1> QED
    BY <1>1, <1>2, TypeCorrect, StaysInStep, PTL DEF Spec

-----------------------------------------------------------------------------
(* No relock with a door open.                                             *)

\* What was last published of a door, read or not, is how the door is.
LEMMA DoorsAreFollowed == TypeOK /\ DoorsFollow /\ [Next]_vars => DoorsFollow'
  <1> SUFFICES ASSUME TypeOK, DoorsFollow, [Next]_vars PROVE DoorsFollow'
    OBVIOUS
  <1>1. CASE UNCHANGED <<openQ, doorOpen, open>>
    BY <1>1 DEF DoorsFollow, End
  <1>2. ASSUME NEW d \in Doors, IdleOpen(d) \/ ArmedOpen(d) PROVE DoorsFollow'
    <2>1. /\ openQ[d] \in Seq(BOOLEAN) /\ openQ[d] # <<>>
          /\ doorOpen' = [doorOpen EXCEPT ![d] = Head(openQ[d])]
          /\ openQ' = [openQ EXCEPT ![d] = Tail(openQ[d])]
          /\ open' = open
      BY <1>2 DEF TypeOK, IdleOpen, ArmedOpen, worldVars
    <2>2. IF Tail(openQ[d]) = <<>> THEN End(openQ[d]) = Head(openQ[d])
          ELSE End(Tail(openQ[d])) = End(openQ[d])
      BY <2>1, Reading
    <2>3. /\ doorOpen'[d] = Head(openQ[d]) /\ openQ'[d] = Tail(openQ[d])
          /\ \A e \in Doors \ {d} : doorOpen'[e] = doorOpen[e] /\ openQ'[e] = openQ[e]
      BY <2>1 DEF TypeOK
    <2>4. DoorsFollow!(d)
      BY DEF DoorsFollow
    <2>5. IF openQ'[d] = <<>> THEN doorOpen'[d] = open'[d] ELSE End(openQ'[d]) = open'[d]
      BY <2>1, <2>2, <2>3, <2>4
    <2>6. ASSUME NEW e \in Doors \ {d}
          PROVE  IF openQ'[e] = <<>> THEN doorOpen'[e] = open'[e] ELSE End(openQ'[e]) = open'[e]
      BY <2>1, <2>3 DEF DoorsFollow
    <2> QED
      BY <2>5, <2>6 DEF DoorsFollow, End
  <1>3. ASSUME NEW d \in Doors, MoveDoor(d) PROVE DoorsFollow'
    <2>1. /\ open' \in [Doors -> BOOLEAN]
          /\ openQ' = [openQ EXCEPT ![d] = Append(openQ[d], open'[d])]
          /\ doorOpen' = doorOpen
          /\ \A e \in Doors \ {d} : open'[e] = open[e]
      BY <1>3 DEF TypeOK, MoveDoor, featureVars
    <2>2. End(openQ'[d]) = open'[d] /\ openQ'[d] # <<>>
      BY <2>1, Publishing DEF TypeOK
    <2>3. \A e \in Doors \ {d} : openQ'[e] = openQ[e]
      BY <2>1 DEF TypeOK
    <2> QED
      BY <2>1, <2>2, <2>3 DEF DoorsFollow, End
  <1> QED
    BY <1>1, <1>2, <1>3
    DEF Next, vars, featureVars, streamVars, worldVars, Read, Arbiter, IdleCrash, IdleStatus,
        IdleRequestor, IdleLocked, ArmedCrash, ArmedLocked, ArmedStatus, ArmedRequestor,
        WaitCrash, WaitPower, Tick, Expire, SendCommand, PlantMoves, PublishStatus,
        PublishRequestor, EndCommand, ReportCrash, SwitchPower

\* Only the expiry of the timer makes a request.
LEMMA RelocksExpire == [Next]_vars /\ Relocks => Expire /\ ~AnyOpen(doorOpen)
  BY DEF Next, vars, featureVars, streamVars, worldVars, Read, Arbiter, IdleCrash, IdleStatus,
         IdleRequestor, IdleLocked, ArmedCrash, ArmedLocked, ArmedStatus, ArmedRequestor,
         IdleOpen, ArmedOpen, WaitCrash, WaitPower, Tick, Expire, SendCommand, PlantMoves,
         PublishStatus, PublishRequestor, EndCommand, MoveDoor, ReportCrash, SwitchPower, Relocks

\* Streams are read before the clock ticks: then the feature never asks to lock a car one of
\* whose doors is open.
THEOREM OpenDoorIsKnown == Prompt => (Spec => NoRelockWithDoorOpen)
  <1> SUFFICES ASSUME Prompt PROVE Spec => NoRelockWithDoorOpen
    OBVIOUS
  <1>1. Init => DoorsFollow
    <2> SUFFICES ASSUME Init, NEW d \in Doors
                 PROVE  openQ[d] # <<>> /\ End(openQ[d]) = open[d]
      BY DEF DoorsFollow
    <2>1. Len(<<FALSE>>) = 1 /\ <<FALSE>>[1] = FALSE
      OBVIOUS
    <2> QED
      BY <2>1 DEF Init, End
  <1>2. DoorsFollow /\ [Next]_vars => [Relocks => ~AnyOpen(open)]_vars
    BY RelocksExpire DEF DoorsFollow, Expire, Settled, Unread, AnyOpen
  <1> QED
    BY <1>1, <1>2, TypeCorrect, DoorsAreFollowed, PTL DEF Spec, NoRelockWithDoorOpen

-----------------------------------------------------------------------------
(* The lockout of a crash.                                                 *)

\* What is read next takes the cycle its step.
LEMMA CycleRead ==
  ASSUME NEW q \in Seq({"on", "off"}), q # <<>>
  PROVE  /\ Head(q) \in {"on", "off"} /\ Tail(q) \in Seq({"on", "off"})
         /\ Head(q) = "on" => CycleIn(Tail(q)) = CycleIn(q)
         /\ Head(q) = "off" =>
              CycleIn(q) = IF Has(Tail(q), "on") THEN "over" ELSE "off"
  <1>1. /\ Head(q) \in {"on", "off"} /\ Head(q) = q[1] /\ Tail(q) \in Seq({"on", "off"})
        /\ Len(q) \in Nat \ {0} /\ Len(Tail(q)) = Len(q) - 1
        /\ \A i \in DOMAIN Tail(q) : i + 1 \in DOMAIN q /\ Tail(q)[i] = q[i + 1]
    BY Reading
  <1>2. DOMAIN q = 1..Len(q) /\ DOMAIN Tail(q) = 1..Len(Tail(q))
    BY <1>1, LenProperties
  <1>3. /\ 1 \in DOMAIN q
        /\ \A i \in DOMAIN q : i # 1 => i - 1 \in DOMAIN Tail(q) /\ Tail(q)[i - 1] = q[i]
    BY <1>1, <1>2
  <1>4. ASSUME Head(q) = "on" PROVE CycleIn(Tail(q)) = CycleIn(q)
    <2>1. (\E i \in DOMAIN q : q[i] = "off") <=> (\E i \in DOMAIN Tail(q) : Tail(q)[i] = "off")
      BY <1>1, <1>3, <1>4
    <2>2. ASSUME NEW i \in DOMAIN q, NEW j \in DOMAIN q, i < j, q[i] = "off", q[j] = "on"
          PROVE  \E k, l \in DOMAIN Tail(q) : k < l /\ Tail(q)[k] = "off" /\ Tail(q)[l] = "on"
      <3>1. i # 1 /\ j # 1 /\ i - 1 < j - 1
        BY <1>1, <1>2, <1>4, <2>2
      <3> QED
        BY <1>3, <2>2, <3>1
    <2>3. ASSUME NEW i \in DOMAIN Tail(q), NEW j \in DOMAIN Tail(q), i < j,
                 Tail(q)[i] = "off", Tail(q)[j] = "on"
          PROVE  \E k, l \in DOMAIN q : k < l /\ q[k] = "off" /\ q[l] = "on"
      <3>1. i + 1 < j + 1 /\ i + 1 \in DOMAIN q /\ j + 1 \in DOMAIN q
        BY <1>1, <1>2, <2>3
      <3> QED
        BY <1>1, <2>3, <3>1
    <2> QED
      BY <2>1, <2>2, <2>3 DEF CycleIn
  <1>5. ASSUME Head(q) = "off"
        PROVE  CycleIn(q) = IF Has(Tail(q), "on") THEN "over" ELSE "off"
    <2>1. \E i \in DOMAIN q : q[i] = "off"
      BY <1>1, <1>3, <1>5
    <2>2. ASSUME NEW i \in DOMAIN q, NEW j \in DOMAIN q, i < j, q[j] = "on"
          PROVE  Has(Tail(q), "on")
      <3>1. j # 1
        BY <1>2, <2>2
      <3> QED
        BY <1>3, <2>2, <3>1 DEF Has
    <2>3. ASSUME NEW j \in DOMAIN Tail(q), Tail(q)[j] = "on"
          PROVE  \E k, l \in DOMAIN q : k < l /\ q[k] = "off" /\ q[l] = "on"
      <3>1. j + 1 \in DOMAIN q /\ q[j + 1] = "on" /\ 1 < j + 1 /\ q[1] = "off"
        BY <1>1, <1>2, <1>5, <2>3
      <3> QED
        BY <1>3, <3>1
    <2> QED
      BY <2>1, <2>2, <2>3 DEF CycleIn, Has
  <1> QED
    BY <1>1, <1>4, <1>5

\* What the ignition becomes takes the cycle its step.
LEMMA CyclePublished ==
  ASSUME NEW q \in Seq({"on", "off"}), NEW v \in {"on", "off"}
  PROVE  CycleIn(Append(q, v)) = Cycled(CycleIn(q), v)
  <1> DEFINE p == Append(q, v)
  <1>1. /\ Len(p) = Len(q) + 1 /\ Len(q) \in Nat /\ p \in Seq({"on", "off"})
        /\ \A i \in 1..Len(q) : p[i] = q[i]
        /\ p[Len(q) + 1] = v
    BY Publishing, AppendProperties
  <1>2. DOMAIN q = 1..Len(q) /\ DOMAIN p = 1..(Len(q) + 1)
    BY <1>1, LenProperties
  <1> HIDE DEF p
  <1> DEFINE Off(r) == \E i \in DOMAIN r : r[i] = "off"
             Whole(r) == \E i, j \in DOMAIN r : i < j /\ r[i] = "off" /\ r[j] = "on"
  <1>3. \A i \in DOMAIN q : i \in DOMAIN p /\ p[i] = q[i] /\ i < Len(q) + 1
    BY <1>1, <1>2
  <1>4. Len(q) + 1 \in DOMAIN p /\ \A i \in DOMAIN p : i = Len(q) + 1 \/ i \in DOMAIN q
    BY <1>1, <1>2
  <1>5. Off(p) <=> Off(q) \/ v = "off"
    BY <1>1, <1>3, <1>4
  <1>6. Whole(p) <=> Whole(q) \/ (Off(q) /\ v = "on")
    <2>1. Whole(q) => Whole(p)
      BY <1>3
    <2>2. Off(q) /\ v = "on" => Whole(p)
      BY <1>1, <1>3, <1>4
    <2>3. ASSUME NEW i \in DOMAIN p, NEW j \in DOMAIN p, i < j, p[i] = "off", p[j] = "on"
          PROVE  Whole(q) \/ (Off(q) /\ v = "on")
      <3>1. i # Len(q) + 1
        BY <1>1, <1>2, <2>3
      <3>2. i \in DOMAIN q /\ q[i] = "off"
        BY <1>3, <1>4, <2>3, <3>1
      <3>3. CASE j = Len(q) + 1
        BY <1>1, <2>3, <3>2, <3>3
      <3>4. CASE j # Len(q) + 1
        BY <1>3, <1>4, <2>3, <3>2, <3>4
      <3> QED
        BY <3>3, <3>4
    <2> QED
      BY <2>1, <2>2, <2>3
  <1>7. \A r : CycleIn(r) = IF Whole(r) THEN "over" ELSE IF Off(r) THEN "off" ELSE "latched"
    BY DEF CycleIn
  <1>8. Whole(q) => Off(q)
    OBVIOUS
  <1> HIDE DEF Off, Whole
  <1>9. CycleIn(p) = Cycled(CycleIn(q), v)
    BY <1>5, <1>6, <1>7, <1>8 DEF Cycled
  <1> QED
    BY <1>9 DEF p

\* A step that leaves the ignition, the crash and what is unread of them alone, and neither
\* disables nor enables the feature.
Bystander ==
    /\ UNCHANGED <<crashQ, powerQ, crash, cycle>>
    /\ mode' = mode \/ (Enabled /\ Enabled')

\* A feature that has not seen the crash, or the ignition's cycle, has that still to read.
LEMMA CycleIsAwaited == TypeOK /\ CycleInv /\ [Next]_vars => CycleInv'
  <1> SUFFICES ASSUME TypeOK, CycleInv, [Next]_vars PROVE CycleInv'
    OBVIOUS
  <1>1. CASE Bystander
    BY <1>1 DEF Bystander, CycleInv, Enabled, Has, CycleIn
  <1>2. CASE IdleCrash \/ ArmedCrash \/ WaitCrash
    <2>1. /\ crashQ \in Seq(BOOLEAN) /\ crashQ # <<>> /\ crashQ' = Tail(crashQ)
          /\ UNCHANGED <<powerQ, crash, cycle>>
          /\ IF Enabled THEN IF Head(crashQ) THEN mode' = "waitOff" ELSE mode' = mode
             ELSE mode' = mode
      BY <1>2 DEF IdleCrash, ArmedCrash, WaitCrash, TypeOK, Enabled, worldVars, featureVars
    <2>2. /\ Has(crashQ, TRUE) => Head(crashQ) = TRUE \/ Has(crashQ', TRUE)
          /\ Has(crashQ', TRUE) => Has(crashQ, TRUE)
          /\ Head(crashQ) \in BOOLEAN
          /\ Head(crashQ) => Has(crashQ, TRUE)
      <3>1. /\ Head(crashQ) \in BOOLEAN /\ Has(crashQ, Head(crashQ))
            /\ \A v : Has(crashQ, v) => Head(crashQ) = v \/ Has(Tail(crashQ), v)
            /\ \A v : Has(Tail(crashQ), v) => Has(crashQ, v)
        BY <2>1, Reading
      <3>2. Head(crashQ) => Has(crashQ, TRUE)
        BY <3>1
      <3> QED
        BY <2>1, <3>1, <3>2
    <2>3. CycleIn(powerQ') = CycleIn(powerQ) /\ Has(powerQ', "on") = Has(powerQ, "on")
      BY <2>1
    <2> DEFINE unread == Has(crashQ, TRUE)
               unreadNow == Has(crashQ', TRUE)
               read == Head(crashQ)
    <2>4. /\ unread => read = TRUE \/ unreadNow
          /\ unreadNow => unread
          /\ read \in BOOLEAN
          /\ read => unread
      BY <2>2
    <2>5. IF Enabled THEN IF read THEN mode' = "waitOff" ELSE mode' = mode ELSE mode' = mode
      BY <2>1
    <2>6. /\ cycle = "none" => Enabled /\ ~unread
          /\ cycle \in {"latched", "off"} =>
              \/ cycle = CycleIn(powerQ) /\ (mode = "waitOff" \/ (Enabled /\ unread))
              \/ cycle = "off" /\ mode = "waitOn" /\ ~Has(powerQ, "on")
      BY DEF CycleInv
    <2> HIDE DEF unread, unreadNow, read
    <2>7. cycle = "none" => Enabled' /\ ~unreadNow
      BY <2>4, <2>5, <2>6 DEF Enabled
    <2>8. cycle \in {"latched", "off"} =>
              \/ cycle = CycleIn(powerQ) /\ (mode' = "waitOff" \/ (Enabled' /\ unreadNow))
              \/ cycle = "off" /\ mode' = "waitOn" /\ ~Has(powerQ, "on")
      BY <2>4, <2>5, <2>6 DEF Enabled
    <2> QED
      BY <2>1, <2>3, <2>7, <2>8 DEF CycleInv, unreadNow
  <1>3. CASE WaitPower
    <2>1. /\ powerQ \in Seq({"on", "off"}) /\ powerQ # <<>> /\ powerQ' = Tail(powerQ)
          /\ mode \in {"waitOff", "waitOn"} /\ mode' = ModeAfterPower(Head(powerQ))
          /\ UNCHANGED <<crashQ, crash, cycle>>
      BY <1>3 DEF WaitPower, TypeOK, worldVars
    <2>2. /\ Head(powerQ) \in {"on", "off"}
          /\ Head(powerQ) = "on" => CycleIn(powerQ') = CycleIn(powerQ)
          /\ Head(powerQ) = "off" =>
                CycleIn(powerQ) = IF Has(powerQ', "on") THEN "over" ELSE "off"
      BY <2>1, CycleRead
    <2>3. /\ Head(powerQ) = "on" => Has(powerQ, "on")
          /\ Has(powerQ', "on") => Has(powerQ, "on")
      BY <2>1, Reading
    <2>4. cycle # "none"
      BY <2>1 DEF CycleInv, Enabled
    <2>5. ASSUME cycle \in {"latched", "off"}
          PROVE  \/ /\ cycle = CycleIn(powerQ')
                    /\ mode' = "waitOff"
                 \/ cycle = "off" /\ mode' = "waitOn" /\ ~Has(powerQ', "on")
      <3>1. \/ cycle = CycleIn(powerQ) /\ mode = "waitOff"
            \/ cycle = "off" /\ mode = "waitOn" /\ ~Has(powerQ, "on")
        BY <2>1, <2>5 DEF CycleInv, Enabled
      <3>2. CASE cycle = CycleIn(powerQ) /\ mode = "waitOff"
        BY <2>1, <2>2, <2>5, <3>2 DEF ModeAfterPower
      <3>3. CASE cycle = "off" /\ mode = "waitOn" /\ ~Has(powerQ, "on")
        BY <2>1, <2>2, <2>3, <3>3 DEF ModeAfterPower
      <3> QED
        BY <3>1, <3>2, <3>3
    <2> QED
      BY <2>1, <2>4, <2>5 DEF CycleInv
  <1>4. ASSUME NEW b \in BOOLEAN, ReportCrash(b) PROVE CycleInv'
    <2>1. /\ crashQ' = Append(crashQ, b)
          /\ crash' = IF b THEN CycleIn(<<power>>) ELSE crash
          /\ cycle' = IF b THEN CycleIn(powerQ) ELSE cycle
          /\ b => crash = "none"
          /\ UNCHANGED <<mode, powerQ>>
      BY <1>4 DEF ReportCrash, featureVars
    <2>2. /\ Has(crashQ', b)
          /\ \A w : Has(crashQ', w) => w = b \/ Has(crashQ, w)
          /\ \A w : Has(crashQ, w) => Has(crashQ', w)
      BY <2>1, Publishing DEF TypeOK
    <2>3. CASE b = TRUE
      <3>1. Enabled
        BY <2>1, <2>3 DEF CycleInv
      <3>2. \A q : CycleIn(q) \in {"latched", "off", "over"}
        BY DEF CycleIn
      <3>3. crash' # "none" /\ cycle' # "none"
        BY <2>1, <2>3, <3>2
      <3>4. Has(crashQ', TRUE) /\ Enabled' /\ cycle' = CycleIn(powerQ')
        BY <2>1, <2>2, <2>3, <3>1 DEF Enabled
      <3> QED
        BY <3>3, <3>4 DEF CycleInv
    <2>4. CASE b = FALSE
      <3>1. /\ crash' = crash /\ cycle' = cycle
            /\ Has(crashQ', TRUE) <=> Has(crashQ, TRUE)
            /\ CycleIn(powerQ') = CycleIn(powerQ) /\ Has(powerQ', "on") = Has(powerQ, "on")
            /\ Enabled' = Enabled /\ mode' = mode
        BY <2>1, <2>2, <2>4 DEF Enabled
      <3> QED
        BY <3>1 DEF CycleInv
    <2> QED
      BY <2>3, <2>4
  <1>5. CASE SwitchPower
    <2>1. /\ powerQ' = Append(powerQ, power') /\ power' \in {"on", "off"}
          /\ crash' = Cycled(crash, power') /\ cycle' = Cycled(cycle, power')
          /\ UNCHANGED <<mode, crashQ>>
      BY <1>5 DEF SwitchPower, featureVars
    <2>2. CycleIn(powerQ') = Cycled(CycleIn(powerQ), power')
      BY <2>1, CyclePublished DEF TypeOK
    <2>3. Has(powerQ', "on") => power' = "on" \/ Has(powerQ, "on")
      BY <2>1, Publishing DEF TypeOK
    <2>4. /\ crash' = "none" <=> crash = "none"
          /\ cycle' = "none" <=> cycle = "none"
      BY <2>1 DEF TypeOK, Cycled
    <2>5. Enabled' = Enabled /\ Has(crashQ', TRUE) = Has(crashQ, TRUE)
      BY <2>1 DEF Enabled
    <2>6. ASSUME cycle' \in {"latched", "off"}
          PROVE  \/ /\ cycle' = CycleIn(powerQ')
                    /\ mode' = "waitOff" \/ (Enabled' /\ Has(crashQ', TRUE))
                 \/ cycle' = "off" /\ mode' = "waitOn" /\ ~Has(powerQ', "on")
      <3>1. cycle \in {"latched", "off"}
        BY <2>1, <2>6 DEF TypeOK, Cycled
      <3>2. CASE /\ cycle = CycleIn(powerQ)
                 /\ mode = "waitOff" \/ (Enabled /\ Has(crashQ, TRUE))
        BY <2>1, <2>2, <2>5, <3>2
      <3>3. CASE cycle = "off" /\ mode = "waitOn" /\ ~Has(powerQ, "on")
        <4>1. power' = "off" /\ cycle' = "off"
          BY <2>1, <2>6, <3>3 DEF Cycled
        <4> QED
          BY <2>1, <2>3, <3>3, <4>1
      <3> QED
        BY <3>1, <3>2, <3>3 DEF CycleInv
    <2> QED
      BY <2>4, <2>5, <2>6 DEF CycleInv
  <1> QED
    BY <1>1, <1>2, <1>3, <1>4, <1>5
    DEF Next, vars, featureVars, streamVars, worldVars, Read, Arbiter, IdleStatus,
        IdleRequestor, IdleLocked, ArmedLocked, ArmedStatus, ArmedRequestor, IdleOpen,
        ArmedOpen, Tick, Expire, SendCommand, PlantMoves, PublishStatus, PublishRequestor,
        EndCommand, MoveDoor, Bystander, Enabled, Cancel

\* Streams are read before the clock ticks: then the feature does not ask to lock a crashed
\* car before it has read an OFF and then an ON, however old they are.
THEOREM LockoutIsServed == Prompt => (Spec => LockoutTakesCycle)
  <1> SUFFICES ASSUME Prompt PROVE Spec => LockoutTakesCycle
    OBVIOUS
  <1>1. Init => CycleInv
    BY NothingUnread DEF Init, CycleInv, Enabled
  <1>2. TypeOK /\ CycleInv /\ [Next]_vars => [Relocks => cycle \in {"none", "over"}]_vars
    <2> SUFFICES ASSUME TypeOK, CycleInv, [Next]_vars, Relocks
                 PROVE  cycle \in {"none", "over"}
      OBVIOUS
    <2>1. mode = "armed" /\ crashQ = <<>>
      BY RelocksExpire DEF Expire, Settled, Unread
    <2>2. ~Has(crashQ, TRUE)
      BY <2>1, NothingUnread
    <2> QED
      BY <2>1, <2>2 DEF CycleInv, TypeOK
  <1> QED
    BY <1>1, <1>2, TypeCorrect, CycleIsAwaited, PTL DEF Spec, LockoutTakesCycle
=============================================================================
