------------------------------- MODULE MockBus -------------------------------
(***************************************************************************)
(* One signal of the in-memory bus (src/vss-bridge/src/adapters/mock.rs)   *)
(* that every component communicates over.  The program runs on several    *)
(* threads; publish and subscribe take the bus's locks one after another,  *)
(* so each is two steps: publish writes the latest-value map and then      *)
(* broadcasts, subscribe opens a broadcast receiver and then reads the map *)
(* for the value it replays.  A receiver that falls more than Capacity     *)
(* values behind continues with the oldest value that is still there (the  *)
(* Lagged error is filtered out of the stream).  inject is a publish from  *)
(* outside; clear_history and reset are not modelled.                      *)
(*                                                                         *)
(* Published values are told apart by numbers, in the order in which they  *)
(* enter the map.  The publish history kept for assertions is left out.    *)
(***************************************************************************)
EXTENDS Integers, Sequences

CONSTANTS
    Publishers,  \* tasks that publish the signal
    Subscribers, \* tasks that subscribe to it, once
    Capacity,    \* CHANNEL_CAPACITY (256)
    MaxValues    \* bound: how many values are published

ASSUME BusAssumption ==
    /\ Publishers # {}
    /\ Capacity \in Nat \ {0}
    /\ MaxValues \in Nat

VARIABLES
    latest,   \* the map's value; 0: none
    sending,  \* per publisher: the value it has not broadcast yet; 0: none
    sent,     \* the values broadcast, in order
    published,\* how many values have been published
    progress, \* per subscriber: "new", "open" (has its receiver) or "ready"
    position, \* per subscriber: index in sent of the next value to receive
    replay,   \* per subscriber: the value to be replayed first; 0: none
    yielded,  \* history, per subscriber: the last value its stream yielded
    asked     \* history, per subscriber: the map's value when it subscribed

busVars == <<latest, sending, sent, published>>
subscriberVars == <<progress, position, replay, yielded, asked>>
signalVars == <<busVars, subscriberVars>>

TypeOK ==
    /\ latest \in 0..published
    /\ sending \in [Publishers -> 0..published]
    /\ sent \in Seq(1..published)
    /\ published \in 0..MaxValues
    /\ progress \in [Subscribers -> {"new", "open", "ready"}]
    /\ position \in [Subscribers -> 1..(Len(sent) + 1)]
    /\ replay \in [Subscribers -> 0..published]
    /\ yielded \in [Subscribers -> 0..published]
    /\ asked \in [Subscribers -> 0..published]

-----------------------------------------------------------------------------
(* publish.                                                                *)

WriteLatest(p) ==
    /\ sending[p] = 0
    /\ published < MaxValues
    /\ published' = published + 1
    /\ latest' = published'
    /\ sending' = [sending EXCEPT ![p] = published']
    /\ UNCHANGED <<sent, subscriberVars>>

SendLive(p) ==
    /\ sending[p] # 0
    /\ sent' = Append(sent, sending[p])
    /\ sending' = [sending EXCEPT ![p] = 0]
    /\ UNCHANGED <<latest, published, subscriberVars>>

-----------------------------------------------------------------------------
(* subscribe.                                                              *)

\* A wrong variant of OpenReceiver: the receiver keeps the last broadcast.
OpenReceiverRewound(s) ==
    /\ progress[s] = "new"
    /\ progress' = [progress EXCEPT ![s] = "open"]
    /\ position' = [position EXCEPT ![s] = IF sent = <<>> THEN 1 ELSE Len(sent)]
    /\ asked' = [asked EXCEPT ![s] = latest]
    /\ UNCHANGED <<busVars, replay, yielded>>

\* A broadcast receiver sees what is sent after it was opened.
OpenReceiver(s) ==
    /\ progress[s] = "new"
    /\ progress' = [progress EXCEPT ![s] = "open"]
    /\ position' = [position EXCEPT ![s] = Len(sent) + 1]
    /\ asked' = [asked EXCEPT ![s] = latest]
    /\ UNCHANGED <<busVars, replay, yielded>>

ReadLatest(s) ==
    /\ progress[s] = "open"
    /\ progress' = [progress EXCEPT ![s] = "ready"]
    /\ replay' = [replay EXCEPT ![s] = latest]
    /\ UNCHANGED <<busVars, position, yielded, asked>>

-----------------------------------------------------------------------------
(* The stream.                                                             *)

\* A wrong variant of YieldReplay: the live half of the stream is opened only
\* when the replayed value has been consumed.
YieldReplayLazy(s) ==
    /\ progress[s] = "ready"
    /\ replay[s] # 0
    /\ yielded' = [yielded EXCEPT ![s] = replay[s]]
    /\ replay' = [replay EXCEPT ![s] = 0]
    /\ position' = [position EXCEPT ![s] = Len(sent) + 1]
    /\ UNCHANGED <<busVars, progress, asked>>

YieldReplay(s) ==
    /\ progress[s] = "ready"
    /\ replay[s] # 0
    /\ yielded' = [yielded EXCEPT ![s] = replay[s]]
    /\ replay' = [replay EXCEPT ![s] = 0]
    /\ UNCHANGED <<busVars, progress, position, asked>>

Oldest == IF Len(sent) > Capacity THEN Len(sent) - Capacity + 1 ELSE 1

YieldLive(s) ==
    /\ progress[s] = "ready"
    /\ replay[s] = 0
    /\ position[s] <= Len(sent)
    /\ LET i == IF position[s] < Oldest THEN Oldest ELSE position[s] IN
       /\ yielded' = [yielded EXCEPT ![s] = sent[i]]
       /\ position' = [position EXCEPT ![s] = i + 1]
    /\ UNCHANGED <<busVars, progress, replay, asked>>

-----------------------------------------------------------------------------

BusInit ==
    /\ latest = 0
    /\ sending = [p \in Publishers |-> 0]
    /\ sent = <<>>
    /\ published = 0
    /\ progress = [s \in Subscribers |-> "new"]
    /\ position = [s \in Subscribers |-> 1]
    /\ replay = [s \in Subscribers |-> 0]
    /\ yielded = [s \in Subscribers |-> 0]
    /\ asked = [s \in Subscribers |-> 0]

BusNext ==
    \/ \E p \in Publishers : WriteLatest(p) \/ SendLive(p)
    \/ \E s \in Subscribers :
          OpenReceiver(s) \/ ReadLatest(s) \/ YieldReplay(s) \/ YieldLive(s)

BusSpec == BusInit /\ [][BusNext]_signalVars

-----------------------------------------------------------------------------
(* Properties.                                                             *)

AllSent == \A p \in Publishers : sending[p] = 0

\* The subscriber has consumed everything its stream holds.
Drained(s) == progress[s] = "ready" /\ replay[s] = 0 /\ position[s] > Len(sent)

SoleWriter == \A p, q \in Publishers : p = q

\* However subscribe interleaves with publish, and however far the subscriber
\* fell behind: when the signal has one writer, a subscriber that has consumed
\* its stream holds the latest value.
DrainedSeesLatest ==
    SoleWriter /\ AllSent => \A s \in Subscribers : Drained(s) => yielded[s] = latest

\* A stream may step back: the value it replays can be newer than the first
\* values its receiver delivers.  With one writer it never steps back behind
\* the value that was current when the subscriber asked for it.
NeverOlderThanAsked ==
    SoleWriter => \A s \in Subscribers : yielded[s] # 0 => yielded[s] >= asked[s]
=============================================================================
