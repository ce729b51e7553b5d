------------------------- MODULE CentralLock_proofs -------------------------
(***************************************************************************)
(* Proofs about the central lock: first about DoorLockArbiter, for every   *)
(* set of features, every allow list, every capacity of the channels and   *)
(* every length of the lockout; then about the mirror of the door-lock     *)
(* plant, for every set of doors, every order of commands and echoes and   *)
(* any number of reboots and HMI commands.                                 *)
(***************************************************************************)
EXTENDS CentralLock, TLAPS

-----------------------------------------------------------------------------
(* Where the acknowledgements are in a channel.                            *)

Messages == Request \cup {Ack}

\* An empty channel holds no acknowledgement.
LEMMA NoAcksInEmpty == AcksIn(<<>>) = {}
  BY DEF AcksIn

\* Sending a request leaves the acknowledgements where they are.
LEMMA AcksAfterRequest ==
  ASSUME NEW q \in Seq(Messages), NEW r \in Request
  PROVE  AcksIn(Append(q, r)) = AcksIn(q)
  BY ArbiterAssumption DEF AcksIn

\* An acknowledgement sent to a channel without any is alone in it.
LEMMA AcksAfterAck ==
  ASSUME NEW q \in Seq(Messages), AcksIn(q) = {}
  PROVE  \E i \in 1..Len(Append(q, Ack)) : AcksIn(Append(q, Ack)) = {i}
  <1> DEFINE n == Len(q) + 1
  <1>1. /\ n \in 1..Len(Append(q, Ack))
        /\ Append(q, Ack)[n] = Ack
    OBVIOUS
  <1>2. \A i \in 1..Len(Append(q, Ack)) : Append(q, Ack)[i] = Ack => i = n
    BY DEF AcksIn
  <1> QED
    BY <1>1, <1>2 DEF AcksIn

\* Receiving a message other than the only acknowledgement keeps it.
LEMMA AcksAfterReceive ==
  ASSUME NEW q \in Seq(Messages), q # <<>>
  PROVE  /\ AcksIn(q) = {} => AcksIn(Tail(q)) = {}
         /\ \A i \in 1..Len(q) : AcksIn(q) = {i} /\ Head(q) # Ack =>
               \E j \in 1..Len(Tail(q)) : AcksIn(Tail(q)) = {j}
         /\ \A i \in 1..Len(q) : AcksIn(q) = {i} /\ Head(q) = Ack => AcksIn(Tail(q)) = {}
         /\ Head(q) = Ack => AcksIn(q) # {}
  <1>1. /\ Len(q) \in Nat \ {0}
        /\ Len(Tail(q)) = Len(q) - 1
        /\ Head(q) = q[1]
        /\ \A k \in 1..Len(Tail(q)) : Tail(q)[k] = q[k + 1]
    OBVIOUS
  <1>2. AcksIn(q) = {} => AcksIn(Tail(q)) = {}
    BY <1>1 DEF AcksIn
  <1>3. ASSUME NEW i \in 1..Len(q), AcksIn(q) = {i}, Head(q) # Ack
        PROVE  \E j \in 1..Len(Tail(q)) : AcksIn(Tail(q)) = {j}
    <2>1. i # 1 /\ q[i] = Ack
      BY <1>1, <1>3 DEF AcksIn
    <2>2. i - 1 \in 1..Len(Tail(q)) /\ Tail(q)[i - 1] = Ack
      BY <1>1, <2>1
    <2>3. \A k \in 1..Len(Tail(q)) : Tail(q)[k] = Ack => k = i - 1
      BY <1>1, <1>3 DEF AcksIn
    <2> QED
      BY <2>2, <2>3 DEF AcksIn
  <1>4. ASSUME NEW i \in 1..Len(q), AcksIn(q) = {i}, Head(q) = Ack
        PROVE  AcksIn(Tail(q)) = {}
    BY <1>1, <1>4 DEF AcksIn
  <1>5. Head(q) = Ack => AcksIn(q) # {}
    BY <1>1 DEF AcksIn
  <1> QED
    BY <1>2, <1>3, <1>4, <1>5

-----------------------------------------------------------------------------
(* The inductive invariant.  OneInFlight alone is not inductive: that the  *)
(* promoted request finds the SWC free needs active # None whenever a      *)
(* request is pending, and that a crash unlock's acknowledgement promotes  *)
(* nothing needs LockoutHasNoHeir.                                         *)

Slots ==
  /\ pending # None => active # None /\ accepted = pending
  /\ active # None => accepted # None

EventSentinel == eventNum = 0 <=> requestor = None

IInv ==
  /\ TypeOK
  /\ OneInFlight
  /\ Slots
  /\ LockoutHasNoHeir
  /\ LastAcceptedWins
  /\ StatusIsDurable
  /\ EventSentinel

\* The channel capacities and bounds are numbers the provers can compare.
LEMMA CapsAreNat == /\ CmdCap \in Nat \ {0}
                    /\ AckCap \in Nat \ {0}
                    /\ LockoutTicks \in Nat \ {0}
                    /\ MaxEventNum \in Nat \ {0, 1}
  BY ArbiterAssumption

\* An empty slot and an acknowledgement are not requests.
LEMMA SlotsDiffer == /\ None \notin Request
                     /\ None \notin Features
                     /\ Ack \notin Request
                     /\ Submittable \subseteq Request
  BY ArbiterAssumption

\* Every command stands for one of the statuses.
LEMMA StatusForType == \A c \in Commands : StatusFor(c) \in Statuses
  BY DEF StatusFor, Statuses

\* What a dispatch does to the values it assigns.
LEMMA DispatchType ==
  ASSUME TypeOK, NEW r \in Request, Dispatch(r)
  PROVE  /\ swc' = Append(swc, r.command)
         /\ swc' \in Seq(Commands)
         /\ active' = r
         /\ lockout' \in 0..LockoutTicks
         /\ lastStatus' = StatusFor(r.command) /\ lastStatus' \in Statuses
         /\ status' = StatusFor(r.command) /\ status' \in Statuses
         /\ nvm' \in Statuses
         /\ requestor' = r.feature /\ requestor' \in Features
         /\ eventNum' \in 1..MaxEventNum /\ eventNum' # eventNum
  <1>1. r.command \in Commands /\ r.feature \in Features
    BY DEF Request
  <1>2. StatusFor(r.command) \in Statuses
    BY <1>1, StatusForType
  <1>3. Bump(eventNum) \in 1..MaxEventNum /\ Bump(eventNum) # eventNum
    BY CapsAreNat DEF TypeOK, Bump
  <1>4. LockoutAfter(r) \in 0..LockoutTicks
    BY CapsAreNat DEF TypeOK, LockoutAfter
  <1>5. Append(swc, r.command) \in Seq(Commands)
    BY <1>1 DEF TypeOK
  <1> QED
    BY <1>1, <1>2, <1>3, <1>4, <1>5 DEF Dispatch, TypeOK

\* A dispatch keeps the file equal to the status on the bus.
LEMMA DispatchDurable ==
  ASSUME StatusIsDurable, NEW r \in Request, Dispatch(r)
  PROVE  StatusIsDurable'
  BY DEF StatusIsDurable, Dispatch

\* The invariant holds when the arbiter has started.
LEMMA InitInvariant == Init => IInv
  <1> SUFFICES ASSUME Init PROVE IInv
    OBVIOUS
  <1>1. TypeOK
    BY CapsAreNat DEF Init, TypeOK, Statuses
  <1>2. OneInFlight
    BY NoAcksInEmpty DEF Init, OneInFlight
  <1> QED
    BY <1>1, <1>2 DEF Init, IInv, Slots, LockoutHasNoHeir, LastAcceptedWins, StatusIsDurable, EventSentinel

\* A feature that sends a request only fills the channel.
LEMMA SubmitInvariant ==
  ASSUME IInv, NEW r \in Request, Submit(r)
  PROVE  IInv'
  <1> USE DEF IInv, Submit, queueVars, busVars
  <1>1. cmdQ \in Seq(Messages) /\ cmdQ' = Append(cmdQ, r)
    BY DEF TypeOK, Messages
  <1>2. AcksIn(cmdQ') = AcksIn(cmdQ) /\ Len(cmdQ') = Len(cmdQ) + 1 /\ Len(cmdQ) \in Nat
    BY <1>1, AcksAfterRequest
  <1>3. TypeOK'
    BY DEF TypeOK
  <1>4. OneInFlight'
    BY <1>2 DEF OneInFlight
  <1> QED
    BY <1>3, <1>4 DEF Slots, LockoutHasNoHeir, LastAcceptedWins, StatusIsDurable, EventSentinel

\* What every step of the loop does to the request channel.
LEMMA ReceiveChannel ==
  ASSUME TypeOK, Receive
  PROVE  /\ cmdQ \in Seq(Messages) /\ cmdQ # <<>>
         /\ cmdQ' = Tail(cmdQ)
         /\ cmdQ' \in Seq(Messages)
         /\ Head(cmdQ) # Ack => Head(cmdQ) \in Request
         /\ acks' = acks
  BY DEF TypeOK, Receive, Messages

\* A refused request changes nothing but the channel.
LEMMA RefuseInvariant ==
  ASSUME IInv, RefuseRequest
  PROVE  IInv'
  <1> USE DEF IInv, RefuseRequest, queueVars, busVars
  <1>1. /\ cmdQ \in Seq(Messages) /\ cmdQ # <<>> /\ cmdQ' = Tail(cmdQ)
        /\ cmdQ' \in Seq(Messages) /\ acks' = acks
    BY ReceiveChannel
  <1>2. TypeOK'
    BY <1>1 DEF TypeOK, Messages
  <1>3. OneInFlight'
    BY <1>1, AcksAfterReceive DEF OneInFlight
  <1> QED
    BY <1>2, <1>3 DEF Slots, LockoutHasNoHeir, LastAcceptedWins, StatusIsDurable, EventSentinel

\* A request that finds the arbiter idle becomes the only one in flight.
LEMMA DispatchWhenIdleInvariant ==
  ASSUME IInv, DispatchWhenIdle
  PROVE  IInv'
  <1> USE DEF IInv, DispatchWhenIdle
  <1> DEFINE r == Head(cmdQ)
  <1>1. /\ cmdQ \in Seq(Messages) /\ cmdQ # <<>> /\ cmdQ' = Tail(cmdQ)
        /\ cmdQ' \in Seq(Messages) /\ acks' = acks /\ r \in Request
    BY ReceiveChannel
  <1>2. /\ swc' = Append(swc, r.command) /\ swc' \in Seq(Commands) /\ active' = r
        /\ lockout' \in 0..LockoutTicks /\ lastStatus' \in Statuses /\ nvm' \in Statuses
        /\ status' = StatusFor(r.command) /\ status' \in Statuses
        /\ requestor' = r.feature /\ requestor' \in Features
        /\ eventNum' \in 1..MaxEventNum
    BY <1>1, DispatchType
  <1>3. TypeOK'
    BY <1>1, <1>2, CapsAreNat DEF TypeOK, Messages
  <1>4. swc = <<>> /\ acks = 0 /\ AcksIn(cmdQ) = {} /\ pending = None
    BY DEF OneInFlight, Slots
  <1>5. OneInFlight'
    <2>1. AcksIn(cmdQ') = {}
      BY <1>1, <1>4, AcksAfterReceive
    <2>2. swc' = <<active'.command>>
      BY <1>2, <1>4
    <2> QED
      BY <1>1, <1>2, <1>4, <2>1, <2>2, SlotsDiffer DEF OneInFlight
  <1>6. accepted' = r /\ pending' = None /\ r # None
    BY <1>1, <1>4, SlotsDiffer
  <1> QED
    BY <1>1, <1>2, <1>3, <1>5, <1>6, DispatchDurable, SlotsDiffer
    DEF Slots, LockoutHasNoHeir, LastAcceptedWins, EventSentinel

\* A request that finds the arbiter busy becomes the pending one.
LEMMA MakePendingInvariant ==
  ASSUME IInv, MakePending
  PROVE  IInv'
  <1> USE DEF IInv, MakePending, busVars
  <1> DEFINE r == Head(cmdQ)
  <1>1. /\ cmdQ \in Seq(Messages) /\ cmdQ # <<>> /\ cmdQ' = Tail(cmdQ)
        /\ cmdQ' \in Seq(Messages) /\ acks' = acks /\ r \in Request
    BY ReceiveChannel
  <1>2. pending' = r /\ accepted' = r /\ r # None /\ lockout' = 0
    BY <1>1, SlotsDiffer, CapsAreNat DEF ReplacePending, Refused, TypeOK
  <1>3. TypeOK'
    BY <1>1, <1>2, CapsAreNat DEF TypeOK, Messages
  <1>4. OneInFlight'
    BY <1>1, AcksAfterReceive DEF OneInFlight
  <1>5. LockoutHasNoHeir'
    BY <1>2 DEF LockoutHasNoHeir
  <1>6. Slots' /\ LastAcceptedWins' /\ StatusIsDurable' /\ EventSentinel'
    BY <1>2 DEF Slots, LastAcceptedWins, StatusIsDurable, EventSentinel
  <1> QED
    BY <1>3, <1>4, <1>5, <1>6

\* The acknowledgement being handled is the one of the active request, and
\* once it is handled none is left anywhere.
LEMMA AckWasTheOnlyOne ==
  ASSUME IInv, Receive, Head(cmdQ) = Ack
  PROVE  /\ active # None /\ swc = <<>> /\ acks = 0
         /\ AcksIn(cmdQ') = {}
  <1>1. /\ cmdQ \in Seq(Messages) /\ cmdQ # <<>> /\ cmdQ' = Tail(cmdQ)
    BY ReceiveChannel DEF IInv
  <1>2. AcksIn(cmdQ) # {}
    BY <1>1, AcksAfterReceive
  <1>3. active # None /\ swc = <<>> /\ acks = 0 /\ \E i \in 1..Len(cmdQ) : AcksIn(cmdQ) = {i}
    BY <1>2 DEF IInv, OneInFlight
  <1> QED
    BY <1>1, <1>3, AcksAfterReceive

\* An acknowledgement with nothing pending leaves the arbiter idle.
LEMMA CompleteAndRestInvariant ==
  ASSUME IInv, CompleteAndRest
  PROVE  IInv'
  <1> USE DEF IInv, CompleteAndRest, busVars
  <1>1. /\ cmdQ' \in Seq(Messages) /\ acks' = acks
    BY ReceiveChannel
  <1>2. /\ active # None /\ swc = <<>> /\ acks = 0 /\ AcksIn(cmdQ') = {}
    BY AckWasTheOnlyOne
  <1>3. TypeOK'
    BY <1>1 DEF TypeOK, Messages
  <1>4. OneInFlight'
    BY <1>1, <1>2 DEF OneInFlight
  <1> QED
    BY <1>2, <1>3, <1>4 DEF Slots, LockoutHasNoHeir, LastAcceptedWins, StatusIsDurable, EventSentinel

\* An acknowledgement hands the motor from the active request to the pending one.
LEMMA CompleteAndPromoteInvariant ==
  ASSUME IInv, CompleteAndPromote
  PROVE  IInv'
  <1> USE DEF IInv, CompleteAndPromote
  <1>1. /\ cmdQ' \in Seq(Messages) /\ acks' = acks
    BY ReceiveChannel
  <1>2. /\ active # None /\ swc = <<>> /\ acks = 0 /\ AcksIn(cmdQ') = {}
    BY AckWasTheOnlyOne
  <1>3. pending \in Request /\ accepted = pending /\ accepted' = pending
    BY DEF TypeOK, Slots
  <1>4. /\ swc' = Append(swc, pending.command) /\ swc' \in Seq(Commands) /\ active' = pending
        /\ lockout' \in 0..LockoutTicks /\ lastStatus' \in Statuses /\ nvm' \in Statuses
        /\ status' = StatusFor(pending.command) /\ status' \in Statuses
        /\ requestor' = pending.feature /\ requestor' \in Features
        /\ eventNum' \in 1..MaxEventNum
    BY <1>3, DispatchType
  <1>5. TypeOK'
    BY <1>1, <1>3, <1>4, CapsAreNat DEF TypeOK, Messages
  <1>6. swc' = <<active'.command>>
    BY <1>2, <1>4
  <1>7. OneInFlight'
    BY <1>1, <1>2, <1>3, <1>4, <1>6, SlotsDiffer DEF OneInFlight
  <1> QED
    BY <1>3, <1>4, <1>5, <1>7, DispatchDurable, SlotsDiffer
    DEF Slots, LockoutHasNoHeir, LastAcceptedWins, EventSentinel

\* The SWC turns its command into its acknowledgement.
LEMMA SwcCompleteInvariant ==
  ASSUME IInv, SwcComplete
  PROVE  IInv'
  <1> USE DEF IInv, SwcComplete, queueVars, busVars
  <1>1. active # None /\ swc = <<active.command>> /\ acks = 0 /\ AcksIn(cmdQ) = {}
    BY DEF OneInFlight
  <1>2. swc' = <<>> /\ acks' = 1
    BY <1>1
  <1>3. TypeOK'
    BY <1>2, CapsAreNat DEF TypeOK
  <1>4. OneInFlight'
    BY <1>1, <1>2 DEF OneInFlight
  <1> QED
    BY <1>3, <1>4 DEF Slots, LockoutHasNoHeir, LastAcceptedWins, StatusIsDurable, EventSentinel

\* The forwarding task moves the acknowledgement along.
LEMMA ForwardAckInvariant ==
  ASSUME IInv, ForwardAck
  PROVE  IInv'
  <1> USE DEF IInv, ForwardAck, queueVars, busVars
  <1>1. active # None /\ swc = <<>> /\ acks = 1 /\ AcksIn(cmdQ) = {}
    BY DEF OneInFlight
  <1>2. cmdQ \in Seq(Messages) /\ cmdQ' = Append(cmdQ, Ack) /\ acks' = 0
    BY <1>1 DEF TypeOK, Messages
  <1>3. TypeOK'
    BY <1>2, CapsAreNat DEF TypeOK, Messages
  <1>4. OneInFlight'
    BY <1>1, <1>2, AcksAfterAck DEF OneInFlight
  <1> QED
    BY <1>3, <1>4 DEF Slots, LockoutHasNoHeir, LastAcceptedWins, StatusIsDurable, EventSentinel

\* The passing of time only shortens the lockout.
LEMMA TickInvariant ==
  ASSUME IInv, Tick
  PROVE  IInv'
  <1> USE DEF IInv, Tick, busVars, chanVars
  <1>1. TypeOK'
    BY CapsAreNat DEF TypeOK
  <1> QED
    BY <1>1 DEF OneInFlight, Slots, LockoutHasNoHeir, LastAcceptedWins, StatusIsDurable, EventSentinel

\* A reboot starts the arbiter again, with the file it left.
LEMMA RebootInvariant ==
  ASSUME IInv, Reboot
  PROVE  IInv'
  <1> USE DEF IInv, Reboot, BootStatus
  <1>1. TypeOK'
    BY CapsAreNat DEF TypeOK
  <1>2. OneInFlight'
    BY NoAcksInEmpty DEF OneInFlight
  <1> QED
    BY <1>1, <1>2 DEF Slots, LockoutHasNoHeir, LastAcceptedWins, StatusIsDurable, EventSentinel

\* Every step keeps the invariant.
LEMMA StepInvariant == IInv /\ [Next]_vars => IInv'
  <1> SUFFICES ASSUME IInv, [Next]_vars PROVE IInv'
    OBVIOUS
  <1>1. CASE \E r \in Submittable : Submit(r)
    BY <1>1, SubmitInvariant, SlotsDiffer
  <1>2. CASE HandleMessage
    BY <1>2, RefuseInvariant, DispatchWhenIdleInvariant, MakePendingInvariant,
       CompleteAndRestInvariant, CompleteAndPromoteInvariant DEF HandleMessage
  <1>3. CASE SwcComplete
    BY <1>3, SwcCompleteInvariant
  <1>4. CASE ForwardAck
    BY <1>4, ForwardAckInvariant
  <1>5. CASE Tick
    BY <1>5, TickInvariant
  <1>6. CASE Reboot
    BY <1>6, RebootInvariant
  <1>7. CASE UNCHANGED vars
    BY <1>7 DEF vars, queueVars, busVars, chanVars, IInv, TypeOK, OneInFlight, Slots,
       LockoutHasNoHeir, LastAcceptedWins, StatusIsDurable, EventSentinel
  <1> QED
    BY <1>1, <1>2, <1>3, <1>4, <1>5, <1>6, <1>7 DEF Next, Run

-----------------------------------------------------------------------------
(* The theorems.                                                           *)

\* The inductive invariant holds in every reachable state.
THEOREM Invariance == Spec => []IInv
  BY InitInvariant, StepInvariant, PTL DEF Spec

\* Every variable of the arbiter keeps its type: the pending slot holds one
\* request, the lockout never exceeds its length, the event number fits u16.
THEOREM TypeCorrect == Spec => []TypeOK
  BY Invariance, PTL DEF IInv

\* For any features, channel capacities and lockout, the SWC never has two
\* commands and every acknowledgement is the active request's.
THEOREM Serial == Spec => []OneInFlight
  BY Invariance, PTL DEF IInv

\* The acknowledgement of a crash unlock finds nothing to promote for as long
\* as the lockout runs.
THEOREM LockoutIsSilent == Spec => []LockoutHasNoHeir
  BY Invariance, PTL DEF IInv

\* The last request the arbiter accepted is the one that will have been
\* dispatched last, whatever was pending or being executed.
THEOREM LatestWins == Spec => []LastAcceptedWins
  BY Invariance, PTL DEF IInv

\* A power cycle restores the LockStatus that was last published.
THEOREM Durable == Spec => []StatusIsDurable
  BY Invariance, PTL DEF IInv

\* Every dispatch puts a new event number, never 0, on the bus.
THEOREM EventNumbers == Spec => EventNumNamesDispatch
  <1> DEFINE Named == /\ (eventNum' = 0 <=> requestor' = None)
                      /\ (swc' # swc /\ swc' # <<>> => eventNum' \notin {0, eventNum})
  <1>1. ASSUME IInv, [Next]_vars, IInv' PROVE [Named]_vars
    <2>1. eventNum' = 0 <=> requestor' = None
      BY <1>1 DEF IInv, EventSentinel
    <2>2. CASE DispatchWhenIdle
      <3>1. Head(cmdQ) \in Request
        BY <1>1, <2>2, ReceiveChannel DEF IInv, DispatchWhenIdle
      <3>2. eventNum' \in 1..MaxEventNum /\ eventNum' # eventNum
        BY <1>1, <2>2, <3>1, DispatchType DEF IInv, DispatchWhenIdle
      <3> QED
        BY <2>1, <3>2, CapsAreNat
    <2>3. CASE CompleteAndPromote
      <3>1. pending \in Request
        BY <1>1, <2>3 DEF IInv, TypeOK, CompleteAndPromote
      <3>2. eventNum' \in 1..MaxEventNum /\ eventNum' # eventNum
        BY <1>1, <2>3, <3>1, DispatchType DEF IInv, CompleteAndPromote
      <3> QED
        BY <2>1, <3>2, CapsAreNat
    <2>4. CASE SwcComplete
      <3>1. swc = <<active.command>>
        BY <1>1, <2>4 DEF IInv, OneInFlight, SwcComplete
      <3>2. swc' = <<>>
        BY <2>4, <3>1 DEF SwcComplete
      <3> QED
        BY <2>1, <3>2
    <2>5. ASSUME swc' \in {swc, <<>>} PROVE Named
      BY <2>1, <2>5
    <2> QED
      BY <1>1, <2>2, <2>3, <2>4, <2>5
      DEF Next, Run, HandleMessage, Submit, RefuseRequest, MakePending, CompleteAndRest,
          ForwardAck, Tick, Reboot, chanVars, vars
  <1> QED
    BY <1>1, Invariance, PTL DEF Spec, EventNumNamesDispatch

\* For every choice of the constants the arbiter, with its queue, channels and
\* acknowledgements hidden, is a LockMotor.
THEOREM Refinement == Spec => ImplementsLockMotor
  <1> DEFINE motor == IF swc = <<>> THEN None ELSE active
  <1>1. Init => Motor!MotorInit
    BY DEF Init, Motor!MotorInit
  <1>2. ASSUME IInv, [Next]_vars PROVE [Motor!MotorNext]_(Motor!motorVars)
    <2> USE DEF Motor!motorVars
    <2>1. CASE DispatchWhenIdle
      <3> DEFINE r == Head(cmdQ)
      <3>1. r \in Request
        BY <1>2, <2>1, ReceiveChannel DEF IInv, DispatchWhenIdle
      <3>2. swc = <<>> /\ lockout = 0
        BY <1>2, <2>1, CapsAreNat DEF IInv, OneInFlight, DispatchWhenIdle, Refused, TypeOK
      <3>3. swc' = Append(swc, r.command) /\ active' = r /\ lockout' = LockoutAfter(r)
        BY <2>1 DEF DispatchWhenIdle, Dispatch
      <3>4. swc' # <<>>
        BY <3>2, <3>3
      <3>5. Motor!Start(r)
        BY <3>1, <3>2, <3>3, <3>4 DEF Motor!Start, LockoutAfter
      <3> QED
        BY <3>1, <3>5 DEF Motor!MotorNext
    <2>2. CASE CompleteAndPromote
      <3>1. pending \in Request
        BY <1>2, <2>2 DEF IInv, TypeOK, CompleteAndPromote
      <3>2. swc = <<>> /\ lockout = 0
        BY <1>2, <2>2, AckWasTheOnlyOne, CapsAreNat
        DEF IInv, LockoutHasNoHeir, CompleteAndPromote, TypeOK
      <3>3. swc' = Append(swc, pending.command) /\ active' = pending
            /\ lockout' = LockoutAfter(pending)
        BY <2>2 DEF CompleteAndPromote, Dispatch
      <3>4. swc' # <<>>
        BY <3>2, <3>3
      <3>5. Motor!Start(pending)
        BY <3>1, <3>2, <3>3, <3>4 DEF Motor!Start, LockoutAfter
      <3> QED
        BY <3>1, <3>5 DEF Motor!MotorNext
    <2>3. CASE CompleteAndRest
      <3>1. swc = <<>> /\ swc' = <<>> /\ lockout' = lockout
        BY <1>2, <2>3, AckWasTheOnlyOne DEF CompleteAndRest, busVars
      <3> QED
        BY <3>1
    <2>4. CASE SwcComplete
      <3>1. active # None /\ swc = <<active.command>>
        BY <1>2, <2>4 DEF IInv, OneInFlight, SwcComplete
      <3>2. swc # <<>> /\ swc' = <<>>
        BY <2>4, <3>1 DEF SwcComplete
      <3>3. Motor!Finish
        BY <2>4, <3>1, <3>2 DEF Motor!Finish, SwcComplete, queueVars
      <3> QED
        BY <3>3 DEF Motor!MotorNext
    <2>5. CASE Tick
      BY <2>5 DEF Tick, Motor!MotorNext, Motor!PassTime, chanVars
    <2>6. CASE Reboot
      BY <2>6 DEF Reboot, Motor!MotorNext, Motor!PowerCycle
    <2>7. ASSUME UNCHANGED <<swc, active, lockout>> PROVE UNCHANGED Motor!motorVars
      BY <2>7
    <2> QED
      BY <1>2, <2>1, <2>2, <2>3, <2>4, <2>5, <2>6, <2>7
      DEF Next, Run, HandleMessage, Submit, RefuseRequest, MakePending, ForwardAck, Receive,
          queueVars, chanVars, vars
  <1> QED
    BY <1>1, <1>2, Invariance, PTL DEF Spec, ImplementsLockMotor, Motor!MotorSpec


-----------------------------------------------------------------------------
(* One array of the plant: its echoes e, its copy f and the values g on the *)
(* bus.                                                                    *)

\* The last unread echo, or else the copy, is the value on the bus.
Tells(q, cache, v) == IF q = <<>> THEN cache = v ELSE q[Len(q)] = v

Mirrored(S, e, f, g) ==
  /\ e \in [Doors -> Seq(S)] /\ f \in [Doors -> S] /\ g \in [Doors -> S]
  /\ \A d \in Doors : Tells(e[d], f[d], g[d])

\* An echo that is sent is the last one.
LEMMA TellsSent ==
  ASSUME NEW S, NEW q \in Seq(S), NEW v \in S, NEW cache
  PROVE  Append(q, v) \in Seq(S) /\ Tells(Append(q, v), cache, v)
  BY DEF Tells

\* An echo that is seen and was the last one is in the copy.
LEMMA TellsRead ==
  ASSUME NEW S, NEW q \in Seq(S), NEW v, NEW cache, Tells(q, cache, v), q # <<>>
  PROVE  /\ Tail(q) \in Seq(S) /\ Head(q) \in S
         /\ Tells(Tail(q), Head(q), v)
  <1>1. /\ Len(q) \in Nat \ {0}
        /\ Tail(q) \in Seq(S) /\ Len(Tail(q)) = Len(q) - 1
        /\ Head(q) = q[1] /\ Head(q) \in S
        /\ \A k \in 1..Len(Tail(q)) : Tail(q)[k] = q[k + 1]
    OBVIOUS
  <1>2. q[Len(q)] = v
    BY DEF Tells
  <1>3. CASE Tail(q) = <<>>
    <2>1. Len(q) = 1
      BY <1>1, <1>3
    <2> QED
      BY <1>1, <1>2, <1>3, <2>1 DEF Tells
  <1>4. CASE Tail(q) # <<>>
    <2>1. Len(Tail(q)) \in 1..Len(Tail(q)) /\ Len(Tail(q)) + 1 = Len(q)
      BY <1>1, <1>4
    <2> QED
      BY <1>1, <1>2, <1>4, <2>1 DEF Tells
  <1> QED
    BY <1>1, <1>3, <1>4

\* Publishing the value b for some doors, in the copy and on the bus.
LEMMA PublishMirrored ==
  ASSUME NEW S, NEW e, NEW f, NEW g, NEW D, NEW b \in S, Mirrored(S, e, f, g)
  PROVE  Mirrored(S, Send(e, D, b), Put(f, D, b), Put(g, D, b))
  <1>1. Put(f, D, b) \in [Doors -> S] /\ Put(g, D, b) \in [Doors -> S]
    BY DEF Mirrored, Put
  <1>2. ASSUME NEW d \in Doors
        PROVE  /\ Send(e, D, b)[d] \in Seq(S)
               /\ Tells(Send(e, D, b)[d], Put(f, D, b)[d], Put(g, D, b)[d])
    <2>1. e[d] \in Seq(S) /\ Tells(e[d], f[d], g[d])
      BY DEF Mirrored
    <2>2. CASE d \in D
      <3>1. /\ Send(e, D, b)[d] = Append(e[d], b)
            /\ Put(f, D, b)[d] = b /\ Put(g, D, b)[d] = b
        BY <2>2 DEF Send, Put
      <3> QED
        BY <2>1, <3>1, TellsSent
    <2>3. CASE d \notin D
      <3>1. /\ Send(e, D, b)[d] = e[d]
            /\ Put(f, D, b)[d] = f[d] /\ Put(g, D, b)[d] = g[d]
        BY <2>3 DEF Send, Put
      <3> QED
        BY <2>1, <3>1
    <2> QED
      BY <2>2, <2>3
  <1>3. Send(e, D, b) \in [Doors -> Seq(S)]
    BY <1>2 DEF Send
  <1> QED
    BY <1>1, <1>2, <1>3 DEF Mirrored

\* Seeing one echo.
LEMMA SeeMirrored ==
  ASSUME NEW S, NEW e, NEW f, NEW g, NEW d \in Doors, Mirrored(S, e, f, g), e[d] # <<>>
  PROVE  Mirrored(S, [e EXCEPT ![d] = Tail(@)], [f EXCEPT ![d] = Head(e[d])], g)
  <1>1. e[d] \in Seq(S) /\ Tells(e[d], f[d], g[d])
    BY DEF Mirrored
  <1>2. /\ Tail(e[d]) \in Seq(S) /\ Head(e[d]) \in S
        /\ Tells(Tail(e[d]), Head(e[d]), g[d])
    BY <1>1, TellsRead
  <1>3. /\ [e EXCEPT ![d] = Tail(@)] \in [Doors -> Seq(S)]
        /\ [f EXCEPT ![d] = Head(e[d])] \in [Doors -> S]
    BY <1>2 DEF Mirrored
  <1>4. ASSUME NEW c \in Doors
        PROVE  Tells([e EXCEPT ![d] = Tail(@)][c], [f EXCEPT ![d] = Head(e[d])][c], g[c])
    <2>1. CASE c = d
      <3>1. /\ [e EXCEPT ![d] = Tail(@)][c] = Tail(e[d])
            /\ [f EXCEPT ![d] = Head(e[d])][c] = Head(e[d])
        BY <2>1 DEF Mirrored
      <3> QED
        BY <1>2, <2>1, <3>1
    <2>2. CASE c # d
      <3>1. /\ [e EXCEPT ![d] = Tail(@)][c] = e[c]
            /\ [f EXCEPT ![d] = Head(e[d])][c] = f[c]
        BY <2>2 DEF Mirrored
      <3> QED
        BY <3>1 DEF Mirrored
    <2> QED
      BY <2>1, <2>2
  <1> QED
    BY <1>3, <1>4 DEF Mirrored

\* The fresh bus of a boot.
LEMMA BootMirrored ==
  ASSUME NEW S, NEW f \in [Doors -> S]
  PROVE  Mirrored(S, [d \in Doors |-> <<f[d]>>], f, f)
  <1> DEFINE e == [d \in Doors |-> <<f[d]>>]
  <1>1. ASSUME NEW d \in Doors PROVE e[d] \in Seq(S) /\ Tells(e[d], f[d], f[d])
    <2>1. e[d] = <<f[d]>> /\ f[d] \in S
      OBVIOUS
    <2> QED
      BY <2>1 DEF Tells
  <1>2. e \in [Doors -> Seq(S)]
    BY <1>1
  <1> QED
    BY <1>1, <1>2 DEF Mirrored

-----------------------------------------------------------------------------
(* The invariant needs nothing of the arbiter: whoever sends commands, and  *)
(* whenever the plant takes them, both arrays follow the bus.              *)

MirrorInv ==
  /\ Mirrored(BOOLEAN, lockedEcho, locked, lockedBus)
  /\ Mirrored(BOOLEAN, doubleEcho, double, doubleBus)

\* The invariant holds initially.
LEMMA MirrorInit == LockInit => MirrorInv
  <1> SUFFICES ASSUME LockInit PROVE MirrorInv
    OBVIOUS
  <1>1. locked \in [Doors -> BOOLEAN] /\ double \in [Doors -> BOOLEAN]
    BY DEF LockInit
  <1> QED
    BY <1>1, BootMirrored DEF LockInit, MirrorInv

\* A command keeps both arrays mirrored.
LEMMA ApplyMirrored ==
  ASSUME MirrorInv, NEW c, Apply(c)
  PROVE  MirrorInv'
  <1>1. Mirrored(BOOLEAN, lockedEcho', locked', lockedBus')
    BY PublishMirrored DEF MirrorInv, Apply
  <1>2. Mirrored(BOOLEAN, doubleEcho', double', doubleBus')
    BY PublishMirrored DEF MirrorInv, Apply
  <1> QED
    BY <1>1, <1>2 DEF MirrorInv, Mirrored

\* Every step keeps the invariant.
LEMMA MirrorStep == MirrorInv /\ [LockNext]_lockVars => MirrorInv'
  <1> SUFFICES ASSUME MirrorInv, [LockNext]_lockVars PROVE MirrorInv'
    OBVIOUS
  <1>1. ASSUME UNCHANGED plantVars PROVE MirrorInv'
    BY <1>1 DEF plantVars, MirrorInv, Mirrored
  <1>2. CASE PlantCommand
    BY <1>2, ApplyMirrored DEF PlantCommand
  <1>3. ASSUME NEW d \in Doors, SeeLocked(d) PROVE MirrorInv'
    <2>1. Mirrored(BOOLEAN, lockedEcho', locked', lockedBus')
      BY <1>3, SeeMirrored DEF SeeLocked, MirrorInv
    <2>2. UNCHANGED <<doubleEcho, double, doubleBus>>
      BY <1>3 DEF SeeLocked
    <2> QED
      BY <2>1, <2>2 DEF MirrorInv, Mirrored
  <1>4. ASSUME NEW d \in Doors, SeeDouble(d) PROVE MirrorInv'
    <2>1. Mirrored(BOOLEAN, doubleEcho', double', doubleBus')
      BY <1>4, SeeMirrored DEF SeeDouble, MirrorInv
    <2>2. UNCHANGED <<lockedEcho, locked, lockedBus>>
      BY <1>4 DEF SeeDouble
    <2> QED
      BY <2>1, <2>2 DEF MirrorInv, Mirrored
  <1>5. CASE LockReboot
    <2>1. locked \in [Doors -> BOOLEAN] /\ double \in [Doors -> BOOLEAN]
      BY DEF MirrorInv, Mirrored
    <2>2. /\ Mirrored(BOOLEAN, lockedEcho', locked, locked)
          /\ Mirrored(BOOLEAN, doubleEcho', double, double)
      BY <1>5, <2>1, BootMirrored DEF LockReboot
    <2>3. /\ locked' = locked /\ lockedBus' = locked
          /\ double' = double /\ doubleBus' = double
      BY <1>5 DEF LockReboot
    <2> QED
      BY <2>2, <2>3 DEF MirrorInv, Mirrored
  <1>6. CASE ArbiterStep \/ SeePower
    BY <1>6, <1>1 DEF ArbiterStep, SeePower
  <1>7. ASSUME NEW v \in {"on", "off"}, SwitchIgnition(v) PROVE MirrorInv'
    BY <1>7, <1>1 DEF SwitchIgnition
  <1>8. ASSUME NEW c \in HmiCommands, HmiCommand(c) PROVE MirrorInv'
    BY <1>8, <1>1 DEF HmiCommand
  <1>9. CASE UNCHANGED lockVars
    BY <1>9, <1>1 DEF lockVars
  <1> QED
    BY <1>2, <1>3, <1>4, <1>5, <1>6, <1>7, <1>8, <1>9 DEF LockNext

\* Once a door's echoes have been seen, the plant's copies show what every
\* other subscriber of the bus sees.
THEOREM MirrorFollowsBus == LockSpec => []MirrorAgrees
  <1>1. MirrorInv => MirrorAgrees
    BY DEF MirrorInv, Mirrored, Tells, MirrorAgrees
  <1> QED
    BY <1>1, MirrorInit, MirrorStep, PTL DEF LockSpec
-----------------------------------------------------------------------------
(* In an orderly life.                                                     *)

\* Every echo is the copy, which is the value on the bus.
Calm ==
  /\ locked = lockedBus /\ double = doubleBus
  /\ \A d \in Doors : lockedEcho[d] \in {<<>>, <<locked[d]>>}
                      /\ doubleEcho[d] \in {<<>>, <<double[d]>>}

AllLocked == \A d \in Doors : locked[d]

\* What the doors show while nothing is on its way to the plant.
Shown ==
  /\ status = "UNLOCKED" => \A d \in Doors : ~locked[d]
  /\ status = "DRIVER_UNLOCKED" => ~locked[DriverDoor] /\ \A d \in Doors : ~double[d]
  /\ status = "LOCKED" => AllLocked
  /\ status = "DOUBLE_LOCKED" => AllLocked /\ \A d \in Doors : double[d]

Orderly ==
  /\ IInv
  /\ active # None => status = StatusFor(active.command)
  /\ Calm
  /\ \A d \in Doors : double[d] => locked[d]
  /\ swc = <<>> => Shown
  /\ swc = <<"ReleaseDouble">> => AllLocked

DoorInv == orderly => Orderly

\* Two publishes to different doors that had no unread echo.
LEMMA TwoPuts ==
  ASSUME NEW e, NEW f, NEW A, NEW B, NEW a, NEW b, A \cap B = {},
         NEW d \in Doors, e[d] = <<>>,
         NEW F, F = Put(Put(f, A, a), B, b),
         NEW E, E = Send(Send(e, A, a), B, b)
  PROVE  /\ d \in B => F[d] = b
         /\ d \in A => F[d] = a
         /\ d \notin A \cup B => F[d] = f[d]
         /\ E[d] \in {<<>>, <<F[d]>>}
  <1>1. CASE d \in B
    <2>1. F[d] = b /\ E[d] = Append(<<>>, b) /\ d \notin A
      BY <1>1 DEF Put, Send
    <2> QED
      BY <1>1, <2>1
  <1>2. CASE d \in A
    <2>1. F[d] = a /\ E[d] = Append(<<>>, a) /\ d \notin B
      BY <1>2 DEF Put, Send
    <2> QED
      BY <1>2, <2>1
  <1>3. CASE d \notin A \cup B
    <2>1. F[d] = f[d] /\ E[d] = <<>>
      BY <1>3 DEF Put, Send
    <2> QED
      BY <1>3, <2>1
  <1> QED
    BY <1>1, <1>2, <1>3

\* A command that finds every echo seen moves each door as it says.
LEMMA ApplyCalm ==
  ASSUME MirrorInv, Calm, EchoesSeen, NEW c \in Commands, Apply(c)
  PROVE  /\ Calm'
         /\ \A d \in Doors :
               /\ d \in ClosedBy(c) => locked'[d]
               /\ d \in UnlockedBy(c) => ~locked'[d]
               /\ d \notin ClosedBy(c) \cup UnlockedBy(c) => (locked'[d] <=> locked[d])
               /\ d \in SuperlockedBy(c) => double'[d]
               /\ d \in DowngradedBy(c) => ~double'[d]
               /\ d \notin SuperlockedBy(c) \cup DowngradedBy(c) => (double'[d] <=> double[d])
  <1>1. UnlockedBy(c) \cap ClosedBy(c) = {} /\ DowngradedBy(c) \cap SuperlockedBy(c) = {}
    BY DEF UnlockedBy, ClosedBy, DowngradedBy, SuperlockedBy, ReleasedBy
  <1>2. \A d \in Doors : lockedEcho[d] = <<>> /\ doubleEcho[d] = <<>>
    BY DEF EchoesSeen
  <1>3. ASSUME NEW d \in Doors
        PROVE  /\ d \in ClosedBy(c) => locked'[d] = TRUE
               /\ d \in UnlockedBy(c) => locked'[d] = FALSE
               /\ d \notin UnlockedBy(c) \cup ClosedBy(c) => locked'[d] = locked[d]
               /\ lockedEcho'[d] \in {<<>>, <<locked'[d]>>}
    <2>1. /\ locked' = Put(Put(locked, UnlockedBy(c), FALSE), ClosedBy(c), TRUE)
          /\ lockedEcho' = Send(Send(lockedEcho, UnlockedBy(c), FALSE), ClosedBy(c), TRUE)
      BY DEF Apply
    <2>2. lockedEcho[d] = <<>> /\ UnlockedBy(c) \cap ClosedBy(c) = {}
      BY <1>1, <1>2
    <2>3. \A b, a :
             /\ locked' = Put(Put(locked, UnlockedBy(c), a), ClosedBy(c), b)
             /\ lockedEcho' = Send(Send(lockedEcho, UnlockedBy(c), a), ClosedBy(c), b)
             => /\ d \in ClosedBy(c) => locked'[d] = b
                /\ d \in UnlockedBy(c) => locked'[d] = a
                /\ d \notin UnlockedBy(c) \cup ClosedBy(c) => locked'[d] = locked[d]
                /\ lockedEcho'[d] \in {<<>>, <<locked'[d]>>}
      BY <2>2, TwoPuts
    <2> QED
      BY <2>1, <2>3
  <1>4. ASSUME NEW d \in Doors
        PROVE  /\ d \in SuperlockedBy(c) => double'[d] = TRUE
               /\ d \in DowngradedBy(c) => double'[d] = FALSE
               /\ d \notin DowngradedBy(c) \cup SuperlockedBy(c) => double'[d] = double[d]
               /\ doubleEcho'[d] \in {<<>>, <<double'[d]>>}
    <2>1. /\ double' = Put(Put(double, DowngradedBy(c), FALSE), SuperlockedBy(c), TRUE)
          /\ doubleEcho' =
                Send(Send(doubleEcho, DowngradedBy(c), FALSE), SuperlockedBy(c), TRUE)
      BY DEF Apply
    <2>2. doubleEcho[d] = <<>> /\ DowngradedBy(c) \cap SuperlockedBy(c) = {}
      BY <1>1, <1>2
    <2>3. \A b, a :
             /\ double' = Put(Put(double, DowngradedBy(c), a), SuperlockedBy(c), b)
             /\ doubleEcho' = Send(Send(doubleEcho, DowngradedBy(c), a), SuperlockedBy(c), b)
             => /\ d \in SuperlockedBy(c) => double'[d] = b
                /\ d \in DowngradedBy(c) => double'[d] = a
                /\ d \notin DowngradedBy(c) \cup SuperlockedBy(c) => double'[d] = double[d]
                /\ doubleEcho'[d] \in {<<>>, <<double'[d]>>}
      BY <2>2, TwoPuts
    <2> QED
      BY <2>1, <2>3
  <1>5. locked' = lockedBus' /\ double' = doubleBus'
    BY DEF Apply, Calm
  <1> QED
    BY <1>3, <1>4, <1>5 DEF Calm

\* In an orderly life the plant executes the active request's command.
LEMMA ExecutesActive ==
  ASSUME Orderly, swc # <<>>
  PROVE  /\ active # None /\ active.command \in Commands
         /\ swc = <<active.command>> /\ Head(swc) = active.command /\ Tail(swc) = <<>>
         /\ status = StatusFor(active.command)
  <1>1. active # None /\ active \in Request /\ swc = <<active.command>>
    BY DEF Orderly, IInv, OneInFlight, TypeOK
  <1> QED
    BY <1>1 DEF Orderly, Request

\* The doors after a command that finds every echo seen.
LEMMA ShownAfter ==
  ASSUME MirrorInv, Orderly, EchoesSeen, NEW c \in Commands, Apply(c),
         swc = <<c>>, status' = StatusFor(c)
  PROVE  Shown' /\ Calm' /\ (\A d \in Doors : double[d] => locked[d])'
  <1>1. Calm'
    BY ApplyCalm DEF Orderly
  <1>2. \A d \in Doors :
           /\ d \in ClosedBy(c) => locked'[d]
           /\ d \in UnlockedBy(c) => ~locked'[d]
           /\ d \notin ClosedBy(c) \cup UnlockedBy(c) => (locked'[d] <=> locked[d])
           /\ d \in SuperlockedBy(c) => double'[d]
           /\ d \in DowngradedBy(c) => ~double'[d]
           /\ d \notin SuperlockedBy(c) \cup DowngradedBy(c) => (double'[d] <=> double[d])
    BY ApplyCalm DEF Orderly
  <1>3. \A d \in Doors : double[d] => locked[d]
    BY DEF Orderly
  <1> USE DEF ClosedBy, UnlockedBy, SuperlockedBy, DowngradedBy, ReleasedBy
  <1>4. ASSUME NEW d \in Doors, double'[d] PROVE locked'[d]
    BY <1>2, <1>3, <1>4
  <1>5. CASE c = "UnlockAll"
    <2>1. \A d \in Doors : ~locked'[d]
      BY <1>2, <1>5
    <2> QED
      BY <1>1, <1>4, <1>5, <2>1 DEF Shown, StatusFor
  <1>6. CASE c = "UnlockDriver"
    <2>1. ~locked'[DriverDoor]
      BY <1>2, <1>6, DoorsAssumption
    <2>2. \A d \in Doors : ~double'[d]
      BY <1>2, <1>3, <1>6
    <2> QED
      BY <1>1, <1>4, <1>6, <2>1, <2>2 DEF Shown, StatusFor
  <1>7. CASE c = "LockAll"
    <2>1. \A d \in Doors : locked'[d]
      BY <1>2, <1>7
    <2> QED
      BY <1>1, <1>4, <1>7, <2>1 DEF Shown, StatusFor, AllLocked
  <1>8. CASE c = "DoubleLockAll"
    <2>1. \A d \in Doors : locked'[d] /\ double'[d]
      BY <1>2, <1>3, <1>8
    <2> QED
      BY <1>1, <1>4, <1>8, <2>1 DEF Shown, StatusFor, AllLocked
  <1>9. CASE c = "ReleaseDouble"
    <2>1. \A d \in Doors : locked[d]
      BY <1>9 DEF Orderly, AllLocked
    <2>2. \A d \in Doors : locked'[d]
      BY <1>2, <1>9, <2>1
    <2> QED
      BY <1>1, <1>4, <1>9, <2>2 DEF Shown, StatusFor, AllLocked
  <1> QED
    BY <1>5, <1>6, <1>7, <1>8, <1>9 DEF Commands

\* A dispatch, which finds the SWC free, gives it a command fit for the doors.
LEMMA DispatchOrderly ==
  ASSUME Orderly, NEW r \in Request, swc = <<>>, Dispatch(r), UNCHANGED plantVars, IInv',
         r.command = "ReleaseDouble" => status = "DOUBLE_LOCKED"
  PROVE  Orderly'
  <1>1. swc' = <<r.command>> /\ swc' # <<>> /\ active' = r /\ status' = StatusFor(r.command)
    BY DEF Dispatch
  <1>2. r.command = "ReleaseDouble" => AllLocked
    BY DEF Orderly, Shown
  <1>3. (active # None => status = StatusFor(active.command))'
    BY <1>1
  <1>4. Calm' /\ (\A d \in Doors : double[d] => locked[d])'
    BY DEF Orderly, Calm, plantVars
  <1>5. (swc = <<"ReleaseDouble">> => AllLocked)'
    BY <1>1, <1>2 DEF AllLocked, plantVars
  <1> QED
    BY <1>1, <1>3, <1>4, <1>5 DEF Orderly

\* The loop of the arbiter, its channels and its clock.
LEMMA ArbiterOrderly ==
  ASSUME Orderly, IInv', UNCHANGED plantVars,
         \/ \E r \in Request : Submit(r)
         \/ HandleMessage \/ ForwardAck \/ Tick,
         ~(swc' # swc /\ swc' = <<"ReleaseDouble">> /\ status # "DOUBLE_LOCKED")
  PROVE  Orderly'
  <1>1. ASSUME UNCHANGED <<swc, status>>, active' \in {active, None} PROVE Orderly'
    BY <1>1 DEF Orderly, Calm, Shown, AllLocked, plantVars
  <1>2. ASSUME NEW r \in Request, Submit(r) PROVE Orderly'
    BY <1>1, <1>2 DEF Submit, queueVars, busVars
  <1>3. CASE RefuseRequest \/ MakePending \/ CompleteAndRest
    BY <1>1, <1>3 DEF RefuseRequest, MakePending, CompleteAndRest, queueVars, busVars
  <1>4. CASE ForwardAck \/ Tick
    BY <1>1, <1>4 DEF ForwardAck, Tick, queueVars, busVars, chanVars
  <1>5. ASSUME NEW r \in Request, swc = <<>>, Dispatch(r) PROVE Orderly'
    <2>1. swc' = <<r.command>>
      BY <1>5 DEF Dispatch
    <2>2. r.command = "ReleaseDouble" => status = "DOUBLE_LOCKED"
      BY <1>5, <2>1
    <2> QED
      BY <1>5, <2>2, DispatchOrderly
  <1>6. CASE DispatchWhenIdle
    <2>1. swc = <<>> /\ Dispatch(Head(cmdQ))
      BY <1>6 DEF DispatchWhenIdle, Orderly, IInv, OneInFlight
    <2>2. Head(cmdQ) \in Request
      BY <1>6 DEF DispatchWhenIdle, Receive, Orderly, IInv, TypeOK
    <2> QED
      BY <1>5, <2>1, <2>2
  <1>7. CASE CompleteAndPromote
    <2>1. swc = <<>>
      BY <1>7, AckWasTheOnlyOne DEF CompleteAndPromote, Orderly
    <2>2. pending \in Request
      BY <1>7 DEF CompleteAndPromote, Orderly, IInv, TypeOK
    <2> QED
      BY <1>5, <1>7, <2>1, <2>2 DEF CompleteAndPromote
  <1> QED
    BY <1>2, <1>3, <1>4, <1>6, <1>7 DEF HandleMessage

\* Seeing an echo that is the copy changes nothing but the echo.
LEMMA SeeOrderly ==
  ASSUME MirrorInv, Orderly, NEW d \in Doors, SeeLocked(d) \/ SeeDouble(d)
  PROVE  Orderly'
  <1>1. /\ lockedEcho \in [Doors -> Seq(BOOLEAN)] /\ locked \in [Doors -> BOOLEAN]
        /\ doubleEcho \in [Doors -> Seq(BOOLEAN)] /\ double \in [Doors -> BOOLEAN]
    BY DEF MirrorInv, Mirrored
  <1>2. UNCHANGED locked /\ UNCHANGED double
    <2>1. CASE SeeLocked(d)
      <3>1. lockedEcho[d] = <<locked[d]>> /\ Head(lockedEcho[d]) = locked[d]
        BY <2>1 DEF SeeLocked, Orderly, Calm
      <3> QED
        BY <1>1, <2>1, <3>1 DEF SeeLocked
    <2>2. CASE SeeDouble(d)
      <3>1. doubleEcho[d] = <<double[d]>> /\ Head(doubleEcho[d]) = double[d]
        BY <2>2 DEF SeeDouble, Orderly, Calm
      <3> QED
        BY <1>1, <2>2, <3>1 DEF SeeDouble
    <2> QED
      BY <2>1, <2>2
  <1>3. UNCHANGED <<vars, lockedBus, doubleBus>>
    BY DEF SeeLocked, SeeDouble
  <1>4. ASSUME NEW c \in Doors
        PROVE  /\ lockedEcho'[c] \in {<<>>, <<locked[c]>>}
               /\ doubleEcho'[c] \in {<<>>, <<double[c]>>}
    <2>1. lockedEcho[c] \in {<<>>, <<locked[c]>>} /\ doubleEcho[c] \in {<<>>, <<double[c]>>}
      BY DEF Orderly, Calm
    <2>2. CASE SeeLocked(d)
      <3>1. doubleEcho' = doubleEcho /\ lockedEcho' = [lockedEcho EXCEPT ![d] = Tail(@)]
            /\ lockedEcho[d] # <<>>
        BY <2>2 DEF SeeLocked
      <3>2. c = d => lockedEcho'[c] = <<>>
        <4>1. Tail(<<locked[c]>>) = <<>>
          OBVIOUS
        <4>2. c = d => lockedEcho'[c] = Tail(lockedEcho[c]) /\ lockedEcho[c] = <<locked[c]>>
          BY <1>1, <2>1, <3>1
        <4> QED
          BY <4>1, <4>2
      <3>3. c # d => lockedEcho'[c] = lockedEcho[c]
        BY <1>1, <3>1
      <3> QED
        BY <2>1, <3>1, <3>2, <3>3
    <2>3. CASE SeeDouble(d)
      <3>1. lockedEcho' = lockedEcho /\ doubleEcho' = [doubleEcho EXCEPT ![d] = Tail(@)]
            /\ doubleEcho[d] # <<>>
        BY <2>3 DEF SeeDouble
      <3>2. c = d => doubleEcho'[c] = <<>>
        <4>1. Tail(<<double[c]>>) = <<>>
          OBVIOUS
        <4>2. c = d => doubleEcho'[c] = Tail(doubleEcho[c]) /\ doubleEcho[c] = <<double[c]>>
          BY <1>1, <2>1, <3>1
        <4> QED
          BY <4>1, <4>2
      <3>3. c # d => doubleEcho'[c] = doubleEcho[c]
        BY <1>1, <3>1
      <3> QED
        BY <2>1, <3>1, <3>2, <3>3
    <2> QED
      BY <2>2, <2>3
  <1>5. Calm'
    BY <1>2, <1>3, <1>4 DEF Orderly, Calm
  <1>6. IInv'
    BY <1>3, StepInvariant DEF Orderly
  <1> QED
    BY <1>2, <1>3, <1>5, <1>6 DEF Orderly, Shown, AllLocked, vars, queueVars, busVars, chanVars
\* A command that the plant takes when it has seen its own publishes.
LEMMA PlantOrderly ==
  ASSUME MirrorInv, Orderly, PlantCommand, EchoesSeen
  PROVE  Orderly'
  <1>1. SwcComplete /\ swc # <<>> /\ Apply(Head(swc)) /\ UNCHANGED <<queueVars, busVars>>
    BY DEF PlantCommand, SwcComplete
  <1>2. /\ swc = <<active.command>> /\ Head(swc) = active.command /\ Tail(swc) = <<>>
        /\ active.command \in Commands
        /\ status = StatusFor(active.command)
    BY <1>1, ExecutesActive
  <1>3. UNCHANGED <<active, status>> /\ swc' = <<>>
    BY <1>1, <1>2 DEF SwcComplete, queueVars, busVars
  <1>4. Shown' /\ Calm' /\ (\A d \in Doors : double[d] => locked[d])'
    BY <1>1, <1>2, <1>3, ShownAfter
  <1>5. IInv'
    BY <1>1, StepInvariant DEF Orderly, Next, Run
  <1> QED
    BY <1>2, <1>3, <1>4, <1>5 DEF Orderly

\* A reboot between two operations starts from the doors and the status as
\* they are.
LEMMA RebootOrderly ==
  ASSUME Orderly, LockReboot, active = None
  PROVE  Orderly'
  <1>1. Reboot /\ UNCHANGED <<locked, double>> /\ lockedBus' = locked /\ doubleBus' = double
    BY DEF LockReboot
  <1>2. IInv'
    BY <1>1, StepInvariant DEF Orderly, Next
  <1>3. swc = <<>> /\ Shown
    BY DEF Orderly, IInv, OneInFlight
  <1>4. active' = None /\ swc' = <<>> /\ status' = status
    BY <1>1 DEF Reboot, BootStatus, Orderly, IInv, StatusIsDurable
  <1>5. Calm'
    BY <1>1 DEF LockReboot, Calm
  <1> QED
    BY <1>1, <1>2, <1>3, <1>4, <1>5 DEF Orderly, Shown, AllLocked

\* The invariant of an orderly life holds initially.
LEMMA DoorInit == LockInit => DoorInv
  <1> SUFFICES ASSUME LockInit PROVE Orderly
    BY DEF DoorInv
  <1>1. IInv
    BY InitInvariant DEF LockInit
  <1>2. active = None /\ swc = <<>> /\ status = nvm
    BY DEF LockInit, Init
  <1>3. /\ \A d \in Doors : locked[d] <=> nvm # "UNLOCKED"
        /\ \A d \in Doors : double[d] <=> nvm = "DOUBLE_LOCKED"
        /\ nvm \in {"UNLOCKED", "LOCKED", "DOUBLE_LOCKED"}
    BY DEF LockInit
  <1>4. Calm
    BY DEF LockInit, Calm
  <1>5. Shown
    BY <1>2, <1>3 DEF Shown, AllLocked
  <1> QED
    BY <1>1, <1>2, <1>3, <1>4, <1>5 DEF Orderly

\* Every step keeps it: what would upset it ends the orderly life.
LEMMA DoorStep == MirrorInv /\ DoorInv /\ [LockNext]_lockVars => DoorInv'
  <1> SUFFICES ASSUME MirrorInv, DoorInv, [LockNext]_lockVars, orderly' PROVE Orderly'
    BY DEF DoorInv
  <1>1. ASSUME Orderly, UNCHANGED <<vars, plantVars>> PROVE Orderly'
    <2>1. IInv'
      BY <1>1, StepInvariant DEF Orderly
    <2> QED
      BY <1>1, <2>1 DEF Orderly, Calm, Shown, AllLocked, vars, queueVars, busVars, chanVars,
         plantVars
  <1>2. CASE ArbiterStep
    <2>1. /\ Orderly
          /\ ~(swc' # swc /\ swc' = <<"ReleaseDouble">> /\ status # "DOUBLE_LOCKED")
          /\ UNCHANGED plantVars
      BY <1>2 DEF ArbiterStep, DoorInv
    <2>2. \/ \E r \in Submittable : Submit(r)
          \/ HandleMessage \/ ForwardAck \/ Tick
      BY <1>2 DEF ArbiterStep
    <2>3. IInv'
      BY <2>1, <2>2, StepInvariant DEF Orderly, Next, Run
    <2> QED
      BY <2>1, <2>2, <2>3, ArbiterOrderly, SlotsDiffer
  <1>3. CASE PlantCommand
    <2>1. EchoesSeen /\ Orderly
      BY <1>3 DEF PlantCommand, DoorInv
    <2> QED
      BY <1>3, <2>1, PlantOrderly
  <1>4. ASSUME NEW d \in Doors, SeeLocked(d) \/ SeeDouble(d) PROVE Orderly'
    <2>1. Orderly
      BY <1>4 DEF SeeLocked, SeeDouble, DoorInv
    <2> QED
      BY <1>4, <2>1, SeeOrderly
  <1>5. CASE SeePower
    <2>1. Orderly /\ UNCHANGED plantVars
      BY <1>5 DEF SeePower, DoorInv
    <2>2. CASE UNCHANGED vars
      BY <1>1, <2>1, <2>2
    <2>3. CASE Submit([feature |-> DoubleLockRelease, command |-> "ReleaseDouble"])
      <3>1. IInv' /\ UNCHANGED swc
        BY <2>1, <2>3, SubmitInvariant, DoorsAssumption DEF Orderly, Submit
      <3> QED
        BY <2>1, <2>3, <3>1, ArbiterOrderly, DoorsAssumption
    <2> QED
      BY <1>5, <2>2, <2>3 DEF SeePower
  <1>6. ASSUME NEW v \in {"on", "off"}, SwitchIgnition(v) PROVE Orderly'
    BY <1>6, <1>1 DEF SwitchIgnition, DoorInv
  <1>7. ASSUME NEW c \in HmiCommands, HmiCommand(c) PROVE Orderly'
    BY <1>7 DEF HmiCommand
  <1>8. CASE LockReboot
    <2>1. Orderly /\ active = None
      BY <1>8 DEF LockReboot, DoorInv
    <2> QED
      BY <1>8, <2>1, RebootOrderly
  <1>9. CASE UNCHANGED lockVars
    BY <1>9, <1>1 DEF lockVars, DoorInv
  <1> QED
    BY <1>2, <1>3, <1>4, <1>5, <1>6, <1>7, <1>8, <1>9 DEF LockNext

\* The invariant holds in every reachable state.
THEOREM OrderlyLife == LockSpec => [](MirrorInv /\ DoorInv)
  BY MirrorInit, MirrorStep, DoorInit, DoorStep, PTL DEF LockSpec

\* When everything has settled after an orderly life, the doors are where
\* LockStatus says they are.
THEOREM DoorsAgree == LockSpec => []DoorsFollowStatus
  <1>1. DoorInv => DoorsFollowStatus
    <2> SUFFICES ASSUME DoorInv, Settled, orderly PROVE DoorsAreAsStatus
      BY DEF DoorsFollowStatus
    <2>1. /\ Shown /\ locked = lockedBus /\ double = doubleBus
          /\ status \in Statuses
      BY DEF DoorInv, Orderly, Settled, Calm, IInv, TypeOK
    <2> QED
      BY <2>1 DEF Shown, AllLocked, DoorsAreAsStatus, Statuses
  <1> QED
    BY <1>1, OrderlyLife, PTL

\* After an orderly life no door of a released car keeps a superlock.
THEOREM NoDoorStaysSuperlocked == LockSpec => []NoSuperlockOnceOpen
  <1>1. DoorInv => NoSuperlockOnceOpen
    BY DEF DoorInv, Orderly, NoSuperlockOnceOpen, Settled, Calm, Shown
  <1> QED
    BY <1>1, OrderlyLife, PTL

\* In an orderly life a superlocked door is a locked door.
THEOREM SuperlocksLock == LockSpec => []SuperlockIsLock
  <1>1. DoorInv => SuperlockIsLock
    BY DEF DoorInv, Orderly, SuperlockIsLock
  <1> QED
    BY <1>1, OrderlyLife, PTL
=============================================================================
