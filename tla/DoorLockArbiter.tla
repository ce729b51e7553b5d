--------------------------- MODULE DoorLockArbiter ---------------------------
(***************************************************************************)
(* The door-lock arbiter (src/vss-bridge/src/arbiter.rs): features send    *)
(* lock requests to one bounded channel; a background loop dispatches them *)
(* one at a time to the Locking SWC, keeps the latest of the others in a   *)
(* one-deep pending slot, and lets an acknowledgement from the SWC promote *)
(* the pending request.  A dispatched crash unlock closes the arbiter for  *)
(* LockoutTicks.                                                           *)
(*                                                                         *)
(* A message is a request or Ack (the acknowledgement's event number and   *)
(* per-door results are only logged by the loop, so all acknowledgements   *)
(* are alike).  The command token, the published lock status, the          *)
(* requestor and the event number are abstracted to model values.  The     *)
(* publishes of one dispatch are one step: the loop has no point between   *)
(* them at which it can be suspended or aborted.                           *)
(***************************************************************************)
EXTENDS Naturals, Sequences

CONSTANTS
    Features,     \* FeatureId
    AllowList,    \* the features allowed to request (door_lock_allow_list)
    CrashUnlock,  \* FeatureId::CrashUnlock
    Submittable,  \* the requests features send
    None,         \* an empty slot
    Ack,          \* DoorLockMsg::Ack
    CmdCap,       \* capacity of the request channel (64)
    AckCap,       \* capacity of the acknowledgement channel (16)
    LockoutTicks, \* the crash lockout of 10 s, in ticks of the clock
    MaxEventNum   \* u16::MAX

Commands == {"UnlockDriver", "UnlockAll", "LockAll", "DoubleLockAll", "ReleaseDouble"}
Statuses == {"DRIVER_UNLOCKED", "UNLOCKED", "LOCKED", "DOUBLE_LOCKED"}

Request == [feature : Features, command : Commands]

ASSUME ArbiterAssumption ==
    /\ AllowList \subseteq Features
    /\ CrashUnlock \in AllowList
    /\ Submittable \subseteq Request
    /\ None \notin Request \cup Features \cup Commands
    /\ Ack \notin Request
    /\ CmdCap \in Nat \ {0}
    /\ AckCap \in Nat \ {0}
    /\ LockoutTicks \in Nat \ {0}
    /\ MaxEventNum \in Nat \ {0, 1}

VARIABLES
    cmdQ,       \* the unified channel of requests and acknowledgements
    acks,       \* how many acknowledgements wait in the SWC's channel
    swc,        \* commands on CENTRAL_LOCK_CMD the SWC has not completed
    active,     \* the request being executed
    pending,    \* the request to be dispatched next
    lockout,    \* ticks left before crash_lockout_until
    lastStatus, \* the loop's copy of the last status it dispatched
    status,     \* value of Vehicle.Cabin.LockStatus on the bus
    requestor,  \* value of LockStatus.LastRequestor on the bus
    eventNum,   \* value of LockStatus.EventNum on the bus
    nvm,        \* cabin_lock_status.json
    accepted    \* history: the last request accepted since boot

queueVars == <<active, pending, lockout, accepted>>
busVars   == <<lastStatus, status, requestor, eventNum, nvm>>
chanVars  == <<cmdQ, acks, swc>>
vars      == <<queueVars, busVars, chanVars>>

TypeOK ==
    /\ cmdQ \in Seq(Request \cup {Ack})
    /\ acks \in 0..AckCap
    /\ swc \in Seq(Commands)
    /\ active \in Request \cup {None}
    /\ pending \in Request \cup {None}
    /\ lockout \in 0..LockoutTicks
    /\ lastStatus \in Statuses
    /\ status \in Statuses
    /\ requestor \in Features \cup {None}
    /\ eventNum \in 0..MaxEventNum
    /\ nvm \in Statuses
    /\ accepted \in Request \cup {None}

-----------------------------------------------------------------------------
(* Helpers of the loop.  A definition whose name ends in a remark such as  *)
(* Forgetful is a deliberately wrong variant of the definition after it,   *)
(* used to show that a property notices the difference.                    *)

\* lock_status_for
StatusFor(c) ==
    CASE c = "UnlockAll"     -> "UNLOCKED"
      [] c = "UnlockDriver"  -> "DRIVER_UNLOCKED"
      [] c = "DoubleLockAll" -> "DOUBLE_LOCKED"
      [] OTHER               -> "LOCKED"

\* The next event number; 0 is reserved for "the arbiter has just started".
Bump(n) == IF n = MaxEventNum THEN 1 ELSE n + 1

IsCrash(r) == r.feature = CrashUnlock

LockoutAfterForgetful(r) == lockout

\* The lockout once r has been dispatched.
LockoutAfter(r) == IF IsCrash(r) THEN LockoutTicks ELSE lockout

\* dispatch_lock_command, with the lockout and the active slot the loop sets
\* after it.  The file is written only when the status differs from the last.
Dispatch(r) ==
    LET s == StatusFor(r.command) IN
    /\ swc' = Append(swc, r.command)
    /\ status' = s
    /\ lastStatus' = s
    /\ nvm' = IF s # lastStatus THEN s ELSE nvm
    /\ requestor' = r.feature
    /\ eventNum' = Bump(eventNum)
    /\ lockout' = LockoutAfter(r)
    /\ active' = r

RefusedUnlessOpen(r) ==
    \/ r.feature \notin AllowList
    \/ lockout > 0

\* Requests of unknown features, requests during the crash lockout, and
\* requests that would replace a pending crash unlock are refused.
Refused(r) ==
    \/ r.feature \notin AllowList
    \/ lockout > 0
    \/ active # None /\ pending # None /\ IsCrash(pending)

-----------------------------------------------------------------------------
(* A feature sends a request; send().await waits while the channel is full. *)

Submit(r) ==
    /\ Len(cmdQ) < CmdCap
    /\ cmdQ' = Append(cmdQ, r)
    /\ UNCHANGED <<queueVars, busVars, acks, swc>>

-----------------------------------------------------------------------------
(* The background loop, door_lock_loop.                                    *)

Receive ==
    /\ cmdQ # <<>>
    /\ cmdQ' = Tail(cmdQ)
    /\ UNCHANGED acks

RefuseRequest ==
    /\ Receive
    /\ Head(cmdQ) # Ack
    /\ Refused(Head(cmdQ))
    /\ UNCHANGED <<queueVars, busVars, swc>>

DispatchWhenIdle ==
    /\ Receive
    /\ Head(cmdQ) # Ack
    /\ ~Refused(Head(cmdQ))
    /\ active = None
    /\ Dispatch(Head(cmdQ))
    /\ accepted' = Head(cmdQ)
    /\ UNCHANGED pending

KeepFirstPending(r) == IF pending = None THEN r ELSE pending

\* Latest wins.
ReplacePending(r) == r

MakePending ==
    /\ Receive
    /\ Head(cmdQ) # Ack
    /\ ~Refused(Head(cmdQ))
    /\ active # None
    /\ pending' = ReplacePending(Head(cmdQ))
    /\ accepted' = Head(cmdQ)
    /\ UNCHANGED <<active, lockout, busVars, swc>>

CompleteAndRest ==
    /\ Receive
    /\ Head(cmdQ) = Ack
    /\ pending = None
    /\ active' = None
    /\ UNCHANGED <<pending, lockout, accepted, busVars, swc>>

CompleteAndPromote ==
    /\ Receive
    /\ Head(cmdQ) = Ack
    /\ pending # None
    /\ Dispatch(pending)
    /\ pending' = None
    /\ UNCHANGED accepted

HandleMessage ==
    \/ RefuseRequest
    \/ DispatchWhenIdle
    \/ MakePending
    \/ CompleteAndRest
    \/ CompleteAndPromote

-----------------------------------------------------------------------------
(* The world around the loop.                                              *)

\* The Locking SWC completes the oldest command and acknowledges it.
SwcComplete ==
    /\ swc # <<>>
    /\ acks < AckCap
    /\ swc' = Tail(swc)
    /\ acks' = acks + 1
    /\ UNCHANGED <<queueVars, busVars, cmdQ>>

\* The task that copies acknowledgements into the request channel.
ForwardAck ==
    /\ acks > 0
    /\ Len(cmdQ) < CmdCap
    /\ acks' = acks - 1
    /\ cmdQ' = Append(cmdQ, Ack)
    /\ UNCHANGED <<queueVars, busVars, swc>>

Tick ==
    /\ lockout > 0
    /\ lockout' = lockout - 1
    /\ UNCHANGED <<active, pending, accepted, busVars, chanVars>>

\* The status the loop starts from, and the one it publishes at boot.
BootStatus == nvm

\* Every task is aborted and the stack is built again on a fresh bus; only
\* the file survives.
Reboot ==
    /\ cmdQ' = <<>>
    /\ acks' = 0
    /\ swc' = <<>>
    /\ active' = None
    /\ pending' = None
    /\ lockout' = 0
    /\ accepted' = None
    /\ lastStatus' = BootStatus
    /\ status' = BootStatus
    /\ requestor' = None
    /\ eventNum' = 0
    /\ UNCHANGED nvm

Init ==
    /\ cmdQ = <<>>
    /\ acks = 0
    /\ swc = <<>>
    /\ active = None
    /\ pending = None
    /\ lockout = 0
    /\ accepted = None
    /\ nvm \in Statuses
    /\ lastStatus = nvm
    /\ status = nvm
    /\ requestor = None
    /\ eventNum = 0

\* One boot: everything but a reboot.
Run ==
    \/ \E r \in Submittable : Submit(r)
    \/ HandleMessage
    \/ SwcComplete
    \/ ForwardAck
    \/ Tick

Next == Run \/ Reboot

Spec == Init /\ [][Next]_vars

\* The loop is a task that is polled while a message waits; the forwarder
\* queues for a slot of the channel, and tokio's channels serve their waiting
\* senders in order; the SWC completes what it was told to do.
Fairness ==
    /\ WF_vars(HandleMessage)
    /\ SF_vars(ForwardAck)
    /\ WF_vars(SwcComplete)

\* Reboots remain possible at any time.
FairSpec == Spec /\ Fairness

-----------------------------------------------------------------------------
(* Properties.                                                             *)

AcksIn(q) == {i \in 1..Len(q) : q[i] = Ack}

\* The motor cannot accept concurrent commands: between a dispatch and the
\* handling of its acknowledgement exactly one of these holds - the SWC is
\* executing the active command, its acknowledgement waits in the SWC's
\* channel, or it waits in the request channel - and otherwise none does.
OneInFlight ==
    /\ active = None => swc = <<>> /\ acks = 0 /\ AcksIn(cmdQ) = {}
    /\ active # None =>
          \/ swc = <<active.command>> /\ acks = 0 /\ AcksIn(cmdQ) = {}
          \/ swc = <<>> /\ acks = 1 /\ AcksIn(cmdQ) = {}
          \/ swc = <<>> /\ acks = 0 /\ \E i \in 1..Len(cmdQ) : AcksIn(cmdQ) = {i}

\* While the crash lockout runs nothing waits to be promoted, so the
\* acknowledgement of the crash unlock cannot dispatch anything either.
LockoutHasNoHeir == lockout > 0 => pending = None

\* Latest wins, whatever the interleaving of requests and acknowledgements:
\* the last request the arbiter accepted is pending, or it is the one the SWC
\* was given last, and then the status on the bus is its status.
LastAcceptedWins ==
    accepted # None =>
        \/ pending = accepted
        \/ /\ pending = None
           /\ active \in {accepted, None}
           /\ requestor = accepted.feature
           /\ status = StatusFor(accepted.command)

\* The file always holds the status on the bus, though it is written only when
\* the status changes: a power cycle never changes what LockStatus says.
StatusIsDurable == nvm = status /\ nvm = lastStatus

\* Subscribers take a change of EventNum as "a command was accepted" and 0 as
\* "the arbiter has restarted": every dispatch changes it, to a value other
\* than 0, and 0 is on the bus exactly as long as nothing was dispatched.
EventNumNamesDispatch ==
    [][/\ (eventNum' = 0 <=> requestor' = None)
       /\ (swc' # swc /\ swc' # <<>> => eventNum' \notin {0, eventNum})]_vars

Motor == INSTANCE LockMotor WITH
    Tasks <- Request,
    CrashTasks <- {r \in Request : IsCrash(r)},
    Idle <- None,
    motor <- IF swc = <<>> THEN None ELSE active,
    hold <- lockout

\* Seen from the motor, the arbiter is a LockMotor: one request at a time and
\* silence for LockoutTicks after the start of a crash unlock.
ImplementsLockMotor == Motor!MotorSpec

\* A crash unlock that has reached the head of the channel of an open arbiter
\* is dispatched (the lockout starts with its dispatch), whatever else is sent,
\* unless the stack is rebooted first.
CrashIsServed ==
    (cmdQ # <<>> /\ lockout = 0 /\ \E r \in Submittable : IsCrash(r) /\ Head(cmdQ) = r)
        ~> (lockout > 0 \/ (cmdQ = <<>> /\ eventNum = 0))
=============================================================================
