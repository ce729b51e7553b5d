---------------------------- MODULE DomainArbiter ----------------------------
(***************************************************************************)
(* One domain arbiter (src/vss-bridge/src/arbiter.rs): features claim and  *)
(* release actuator signals over one bounded channel; a loop keeps one     *)
(* claim per signal and feature and publishes, whenever it changes, the    *)
(* value of the claim of highest priority (the most recent on a tie), or   *)
(* the signal's off value when nobody claims it or its physical gate is    *)
(* closed.  A watcher task per gate copies the gate signal's values from   *)
(* its bus subscription into the same channel.                             *)
(*                                                                         *)
(* A gate is named by its target: every factory of the code gives a target *)
(* at most one gate.  The values of a gate signal are abstracted to whether*)
(* they equal suppress_when.                                               *)
(***************************************************************************)
EXTENDS Naturals, Sequences

CONSTANTS
    Features,    \* FeatureId
    Signals,     \* the actuator signals of the domain
    AllowList,   \* triples <<feature, signal, priority>>
    Gated,       \* the signals with a physical gate
    Configured,  \* the signals with a configured default
    Off,         \* the off value of each signal
    Values,      \* SignalValue
    Unset,       \* no value yet
    Submittable, \* the requests features send
    Gate,        \* tag of a GateChanged message
    Release,     \* tag of a Release message
    MaxPriority, \* Priority::Critical
    ChanCap,     \* capacity of the channel (256)
    GateCap,     \* capacity of a watcher's subscription (256)
    MaxSeq,      \* bound: no more is sent when this many claims may have been made
    Fallible     \* the signals whose publishes may fail

Priorities == 0..MaxPriority

Request == [feature : Features, signal : Signals, priority : Priorities, value : Values]
ReleaseMsg == [tag : {Release}, feature : Features, signal : Signals]
GateMsg == [tag : {Gate}, target : Gated, closed : BOOLEAN]

Claim == [priority : Priorities, value : Values, seq : Nat]

ASSUME DomainAssumption ==
    /\ AllowList \subseteq Features \X Signals \X Priorities
    /\ Gated \subseteq Signals
    /\ Configured \subseteq Signals
    /\ Off \in [Signals -> Values]
    /\ Unset \notin Values \cup Claim
    /\ Submittable \subseteq Request
    /\ Gate # Release
    /\ MaxPriority \in Nat
    /\ ChanCap \in Nat \ {0}
    /\ GateCap \in Nat \ {0}
    /\ MaxSeq \in Nat
    /\ Fallible \subseteq Signals

VARIABLES
    chan,          \* the arbiter's channel
    gateStream,    \* values each gate watcher has not read yet
    gateSignal,    \* does the gate signal on the bus ask for suppression?
    claims,        \* per signal and feature: a claim, or Unset
    gatesClosed,   \* the loop's view of each gate
    lastPublished, \* per signal: the loop's copy of what it published
    bus,           \* per signal: the value on the bus
    nextSeq,       \* the last sequence number given to a claim
    wants,         \* history: per signal and feature, the standing request that was sent
    asked          \* history: how many standing requests were sent

outputs == <<lastPublished, bus>>
loopVars == <<claims, gatesClosed, outputs, nextSeq>>
historyVars == <<wants, asked>>
worldVars == <<gateStream, gateSignal, historyVars>>
vars == <<chan, gateStream, gateSignal, claims, gatesClosed, lastPublished, bus, nextSeq, wants,
          asked>>

TypeOK ==
    /\ chan \in Seq(Submittable \cup ReleaseMsg \cup GateMsg)
    /\ gateStream \in [Gated -> Seq(BOOLEAN)]
    /\ gateSignal \in [Gated -> BOOLEAN]
    /\ claims \in [Signals -> [Features -> Claim \cup {Unset}]]
    /\ gatesClosed \in [Signals -> BOOLEAN]
    /\ lastPublished \in [Signals -> Values \cup {Unset}]
    /\ bus \in [Signals -> Values \cup {Unset}]
    /\ nextSeq \in Nat
    /\ wants \in [Signals -> [Features -> Claim \cup {Unset}]]
    /\ asked \in Nat

-----------------------------------------------------------------------------
(* Helpers of the loop.  A definition whose name ends in a remark such as  *)
(* Forgetful is a deliberately wrong variant of the definition after it,   *)
(* used to show that a property notices the difference.                    *)

\* Is the request in the allow list, with this very priority?
Allowed(r) == <<r.feature, r.signal, r.priority>> \in AllowList

Holders(cl, s) == {f \in Features : cl[s][f] # Unset}

OutranksOldest(c, d) ==
    \/ c.priority > d.priority
    \/ c.priority = d.priority /\ c.seq <= d.seq

\* The order of max_by_key: priority, then the sequence number.
Outranks(c, d) ==
    \/ c.priority > d.priority
    \/ c.priority = d.priority /\ c.seq >= d.seq

Winner(cl, s) ==
    CHOOSE f \in Holders(cl, s) :
        \A g \in Holders(cl, s) : Outranks(cl[s][f], cl[s][g])

\* The value of the signal for these claims and gates.
Resolved(cl, closed, s) ==
    IF closed[s] \/ Holders(cl, s) = {} THEN Off[s] ELSE cl[s][Winner(cl, s)].value

\* The end of publish_resolved: nothing when the value was the last published,
\* and after a failed publish the copy keeps the old value.
Publish(s, v) ==
    \/ lastPublished[s] = v /\ UNCHANGED outputs
    \/ /\ lastPublished[s] # v
       /\ lastPublished' = [lastPublished EXCEPT ![s] = v]
       /\ bus' = [bus EXCEPT ![s] = v]
    \/ lastPublished[s] # v /\ s \in Fallible /\ UNCHANGED outputs

-----------------------------------------------------------------------------
(* The features.  Sending waits while the channel is full.                 *)

RoomForFeatures ==
    /\ Len(chan) < ChanCap
    /\ nextSeq + Len(chan) < MaxSeq

Submit(r) ==
    /\ RoomForFeatures
    /\ chan' = Append(chan, r)
    /\ IF Allowed(r)
         THEN /\ asked' = asked + 1
              /\ wants' = [wants EXCEPT ![r.signal][r.feature] =
                              [priority |-> r.priority, value |-> r.value, seq |-> asked']]
         ELSE UNCHANGED historyVars
    /\ UNCHANGED <<loopVars, gateStream, gateSignal>>

Withdraw(f, s) ==
    /\ RoomForFeatures
    /\ chan' = Append(chan, [tag |-> Release, feature |-> f, signal |-> s])
    /\ wants' = [wants EXCEPT ![s][f] = Unset]
    /\ UNCHANGED <<loopVars, gateStream, gateSignal, asked>>

-----------------------------------------------------------------------------
(* The physical gates.                                                     *)

\* Someone publishes the gate signal; its watcher's subscription gets it.
MoveGate(s) ==
    /\ Len(gateStream[s]) < GateCap
    /\ \E closed \in BOOLEAN :
          /\ gateSignal' = [gateSignal EXCEPT ![s] = closed]
          /\ gateStream' = [gateStream EXCEPT ![s] = Append(@, closed)]
    /\ UNCHANGED <<loopVars, chan, historyVars>>

WatchGateDropping(s) ==
    /\ gateStream[s] # <<>>
    /\ chan' = IF Len(chan) < ChanCap
                 THEN Append(chan, [tag |-> Gate, target |-> s, closed |-> Head(gateStream[s])])
                 ELSE chan
    /\ gateStream' = [gateStream EXCEPT ![s] = Tail(@)]
    /\ UNCHANGED <<loopVars, gateSignal, historyVars>>

\* The watcher task of the gate.
WatchGate(s) ==
    /\ gateStream[s] # <<>>
    /\ Len(chan) < ChanCap
    /\ chan' = Append(chan, [tag |-> Gate, target |-> s, closed |-> Head(gateStream[s])])
    /\ gateStream' = [gateStream EXCEPT ![s] = Tail(@)]
    /\ UNCHANGED <<loopVars, gateSignal, historyVars>>

-----------------------------------------------------------------------------
(* The loop, arbiter_loop.                                                 *)

Receive == chan # <<>> /\ chan' = Tail(chan)

Reject ==
    /\ Receive
    /\ Head(chan) \in Request
    /\ ~Allowed(Head(chan))
    /\ UNCHANGED <<loopVars, worldVars>>

HandleRequest ==
    /\ Receive
    /\ Head(chan) \in Request
    /\ Allowed(Head(chan))
    /\ nextSeq' = nextSeq + 1
    /\ LET r == Head(chan) IN
       /\ claims' = [claims EXCEPT ![r.signal][r.feature] =
                        [priority |-> r.priority, value |-> r.value, seq |-> nextSeq']]
       /\ Publish(r.signal, Resolved(claims', gatesClosed, r.signal))
    /\ UNCHANGED <<gatesClosed, worldVars>>

\* Releasing what the feature does not hold resolves nothing.
HandleRelease ==
    /\ Receive
    /\ Head(chan) \in ReleaseMsg
    /\ LET s == Head(chan).signal
           f == Head(chan).feature
       IN  /\ claims' = [claims EXCEPT ![s][f] = Unset]
           /\ IF claims[s][f] = Unset
                THEN UNCHANGED outputs
                ELSE Publish(s, Resolved(claims', gatesClosed, s))
    /\ UNCHANGED <<gatesClosed, nextSeq, worldVars>>

\* A gate message that changes nothing resolves nothing.
HandleGate ==
    /\ Receive
    /\ Head(chan) \in GateMsg
    /\ LET s == Head(chan).target
           closed == Head(chan).closed
       IN  /\ gatesClosed' = [gatesClosed EXCEPT ![s] = closed]
           /\ IF gatesClosed[s] = closed
                THEN UNCHANGED outputs
                ELSE Publish(s, Resolved(claims, gatesClosed', s))
    /\ UNCHANGED <<claims, nextSeq, worldVars>>

HandleMessage ==
    \/ Reject
    \/ HandleRequest
    \/ HandleRelease
    \/ HandleGate

-----------------------------------------------------------------------------

\* The loop has started and published the configured defaults; a gate signal
\* that already has a value is the first item of its watcher's subscription.
Init ==
    /\ chan = <<>>
    /\ gateSignal \in [Gated -> BOOLEAN]
    /\ gateStream = [s \in Gated |-> IF gateSignal[s] THEN <<TRUE>> ELSE <<>>]
    /\ claims = [s \in Signals |-> [f \in Features |-> Unset]]
    /\ gatesClosed = [s \in Signals |-> FALSE]
    /\ \E seeded \in SUBSET Configured :
          /\ Configured \ Fallible \subseteq seeded
          /\ lastPublished = [s \in Signals |-> IF s \in seeded THEN Off[s] ELSE Unset]
    /\ bus = lastPublished
    /\ nextSeq = 0
    /\ wants = claims
    /\ asked = 0

Next ==
    \/ \E r \in Submittable : Submit(r)
    \/ \E f \in Features, s \in Signals : Withdraw(f, s)
    \/ \E s \in Gated : MoveGate(s) \/ WatchGate(s)
    \/ HandleMessage

Spec == Init /\ [][Next]_vars

\* The loop and the watchers are tasks that are polled while they can go on;
\* tokio's channel serves its waiting senders in order.
Fairness ==
    /\ WF_vars(HandleMessage)
    /\ \A s \in Gated : SF_vars(WatchGate(s))

FairSpec == Spec /\ Fairness

-----------------------------------------------------------------------------
(* Properties.                                                             *)

\* A publish is skipped only when it would repeat the value on the bus, even
\* after publishes that failed: the loop's copy is what the bus has.
CopyIsBus == lastPublished = bus

\* While its publishes succeed, a signal the loop ever resolved has the value
\* its claims and its gate call for, after every single message.
BusIsResolved ==
    \A s \in Signals \ Fallible :
        IF bus[s] = Unset
          THEN Holders(claims, s) = {} /\ ~gatesClosed[s]
          ELSE bus[s] = Resolved(claims, gatesClosed, s)

\* No two claims on a signal tie: they have different sequence numbers, none
\* of them from the future.
ClaimsAreOrdered ==
    \A s \in Signals : \A f, g \in Holders(claims, s) :
        /\ claims[s][f].seq <= nextSeq
        /\ claims[s][f].seq = claims[s][g].seq => f = g

\* An open signal that somebody claims shows the value of a claim that no
\* other claim outranks; exactly one claim is of that kind.
HighestClaimShows ==
    \A s \in Signals \ Fallible :
        ~gatesClosed[s] /\ Holders(claims, s) # {} =>
            \E f \in Holders(claims, s) :
                /\ bus[s] = claims[s][f].value
                /\ \A g \in Holders(claims, s) \ {f} :
                      /\ Outranks(claims[s][f], claims[s][g])
                      /\ ~Outranks(claims[s][g], claims[s][f])

Settled == chan = <<>> /\ \A s \in Gated : gateStream[s] = <<>>

\* Whose standing request counts: the highest priority, then the last to have been sent.
Precedes(want, other) ==
    \/ want.priority > other.priority
    \/ want.priority = other.priority /\ want.seq > other.seq

Foremost(s) ==
    CHOOSE f \in Holders(wants, s) :
        \A g \in Holders(wants, s) \ {f} : Precedes(wants[s][f], wants[s][g])

\* What the features' standing requests, in the order they were sent, and the
\* gate signals on the bus make of a signal.
Wanted(s) ==
    IF (s \in Gated /\ gateSignal[s]) \/ Holders(wants, s) = {}
      THEN Off[s]
      ELSE wants[s][Foremost(s)].value

\* End to end: once the channel and the gate subscriptions are drained, the
\* bus shows what was asked for - the last request of the highest priority
\* that was not withdrawn, or off while the gate signal suppresses it -
\* whatever was rejected, repeated, overtaken or released meanwhile.  Where a
\* publish failed the loop knows it: its copy is not the wanted value either,
\* so that the next message about the signal publishes.
DeliversWants ==
    Settled =>
        \A s \in Signals :
            \/ bus[s] = Wanted(s)
            \/ bus[s] = Unset /\ Wanted(s) = Off[s]
            \/ s \in Fallible /\ lastPublished[s] # Wanted(s)

\* While publishes succeed, a gate signal that stays closed turns its target
\* off and keeps it off, and one that stays open hands it back to the claims.
GatesAreObeyed ==
    \A s \in Gated \ Fallible :
        /\ <>[]gateSignal[s] => <>[](bus[s] = Off[s])
        /\ <>[](~gateSignal[s]) => <>[](~gatesClosed[s])
=============================================================================
