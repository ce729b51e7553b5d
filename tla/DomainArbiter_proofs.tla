------------------------ MODULE DomainArbiter_proofs ------------------------
(***************************************************************************)
(* Proofs about DomainArbiter for every set of features and signals, every *)
(* allow list, every set of gates and defaults and every channel capacity: *)
(* what the loop does with each message, and, in the second half, what the *)
(* features and gates get of it in the end.                                *)
(***************************************************************************)
EXTENDS DomainArbiter, SequenceTheorems, WellFoundedInduction, TLAPS

-----------------------------------------------------------------------------
(* The winner of a signal.                                                 *)

\* Per signal and feature, its claim, if it has one.
ClaimTable == [Signals -> [Features -> Claim \cup {Unset}]]

\* What a signal's claims must satisfy for max_by_key to have one result.
Ordered(cl, s, n) ==
    \A f, g \in Holders(cl, s) :
        /\ cl[s][f].seq <= n
        /\ cl[s][f].seq = cl[s][g].seq => f = g

\* A claim holds numbers, and none of them is the empty entry.
LEMMA ClaimParts ==
  ASSUME NEW cl \in ClaimTable, NEW s \in Signals, NEW f \in Holders(cl, s)
  PROVE  /\ f \in Features
         /\ cl[s][f] \in Claim
         /\ cl[s][f].priority \in Nat /\ cl[s][f].priority <= MaxPriority
         /\ cl[s][f].seq \in Nat
         /\ cl[s][f].value \in Values
  BY DomainAssumption DEF ClaimTable, Holders, Claim, Priorities

\* A non-empty set of numbers with an upper bound has a largest element.
LEMMA LargestBelow ==
  ASSUME NEW n \in Nat, NEW T, T \subseteq 0..n, T # {}
  PROVE  \E x \in T : \A y \in T : y <= x
  <1> DEFINE D == {n - x : x \in T}
  <1>1. D \in SUBSET Nat /\ D # {}
    OBVIOUS
  <1>2. \E m \in D : \A d \in D : m <= d
    <2>1. PICK m \in D : \A d \in D : ~(<<d, m>> \in OpToRel(<, Nat))
      <3> HIDE DEF D
      <3> QED
        BY ONLY <1>1, NatLessThanWellFounded, WFMin, Zenon
    <2>2. \A d \in D : ~(d < m)
      BY <1>1, <2>1 DEF OpToRel
    <2> QED
      BY <1>1, <2>2
  <1>3. PICK x \in T : \A d \in D : n - x <= d
    BY <1>2
  <1>4. ASSUME NEW y \in T PROVE y <= x
    <2>1. n - x <= n - y
      BY <1>3
    <2> QED
      BY <2>1
  <1> QED
    BY <1>4

\* If a signal is claimed, its winner is one of the claims, and outranks all.
LEMMA WinnerExists ==
  ASSUME NEW cl \in ClaimTable, NEW s \in Signals, NEW n \in Nat,
         Ordered(cl, s, n), Holders(cl, s) # {}
  PROVE  /\ Winner(cl, s) \in Holders(cl, s)
         /\ \A g \in Holders(cl, s) : Outranks(cl[s][Winner(cl, s)], cl[s][g])
  <1> DEFINE H == Holders(cl, s)
             P == {cl[s][f].priority : f \in H}
  <1>1. P \subseteq 0..MaxPriority /\ P # {}
    BY ClaimParts
  <1>2. PICK p \in P : \A q \in P : q <= p
    BY <1>1, LargestBelow, DomainAssumption
  <1> DEFINE Top == {f \in H : cl[s][f].priority = p}
             Q == {cl[s][f].seq : f \in Top}
  <1>3. Q \subseteq 0..n /\ Q # {}
    BY <1>2, ClaimParts DEF Ordered
  <1>4. PICK m \in Q : \A q \in Q : q <= m
    BY <1>3, LargestBelow
  <1>5. PICK f \in Top : cl[s][f].seq = m
    OBVIOUS
  <1>6. ASSUME NEW g \in H PROVE Outranks(cl[s][f], cl[s][g])
    <2>1. cl[s][g].priority <= p
      BY <1>2
    <2>2. g \in Top => cl[s][g].seq <= m
      BY <1>4
    <2> QED
      BY <1>5, <2>1, <2>2, <1>6, ClaimParts DEF Outranks
  <1> QED
    BY <1>5, <1>6 DEF Winner

\* The value of a signal is a value.
LEMMA ResolvedType ==
  ASSUME NEW cl \in ClaimTable, NEW s \in Signals, NEW n \in Nat, NEW closed,
         Ordered(cl, s, n)
  PROVE  Resolved(cl, closed, s) \in Values
  <1>1. Off[s] \in Values
    BY DomainAssumption
  <1>2. CASE Holders(cl, s) = {}
    BY <1>1, <1>2 DEF Resolved
  <1>3. CASE Holders(cl, s) # {}
    <2>1. Winner(cl, s) \in Holders(cl, s)
      BY <1>3, WinnerExists
    <2> QED
      BY <1>1, <2>1, ClaimParts DEF Resolved
  <1> QED
    BY <1>2, <1>3

\* The value of a signal depends on its own claims and its own gate only.
LEMMA ResolvedLocal ==
  ASSUME NEW cl, NEW cl2, NEW closed, NEW closed2, NEW s \in Signals,
         cl2[s] = cl[s], closed2[s] = closed[s]
  PROVE  /\ Holders(cl2, s) = Holders(cl, s)
         /\ Resolved(cl2, closed2, s) = Resolved(cl, closed, s)
  BY DEF Resolved, Holders, Winner

-----------------------------------------------------------------------------
(* The inductive invariant.  BusIsResolved is inductive only together with *)
(* CopyIsBus: a publish is skipped on the word of the loop's copy.  That   *)
(* the resolved value exists at all needs ClaimsAreOrdered.                *)
IInv ==
  /\ TypeOK
  /\ CopyIsBus
  /\ BusIsResolved
  /\ ClaimsAreOrdered

\* What the assumptions say of the messages.
LEMMA MessageTypes ==
  /\ Submittable \subseteq Request
  /\ \A r \in Request : /\ r.feature \in Features /\ r.signal \in Signals
                        /\ r.priority \in Priorities /\ r.value \in Values
  /\ \A m \in ReleaseMsg : m.feature \in Features /\ m.signal \in Signals
  /\ \A m \in GateMsg : m.target \in Signals /\ m.closed \in BOOLEAN
  BY DomainAssumption DEF Request, ReleaseMsg, GateMsg

\* Publishing a value keeps the outputs typed and the copy equal to the bus;
\* on a bus that does not fail the signal then has the value, and no other
\* signal has changed.
LEMMA PublishOutputs ==
  ASSUME TypeOK, CopyIsBus, NEW s \in Signals, NEW v \in Values, Publish(s, v)
  PROVE  /\ lastPublished' \in [Signals -> Values \cup {Unset}]
         /\ bus' \in [Signals -> Values \cup {Unset}]
         /\ CopyIsBus'
         /\ \A z \in Signals \ {s} : bus'[z] = bus[z]
         /\ s \notin Fallible => bus'[s] = v
  BY DEF TypeOK, CopyIsBus, Publish, outputs

\* Resolving one signal after only its claims and gate changed.
LEMMA ResolveStep ==
  ASSUME IInv, NEW s \in Signals,
         claims' \in ClaimTable, gatesClosed' \in [Signals -> BOOLEAN],
         nextSeq' \in Nat, ClaimsAreOrdered',
         \A z \in Signals \ {s} : claims'[z] = claims[z] /\ gatesClosed'[z] = gatesClosed[z],
         Publish(s, Resolved(claims', gatesClosed', s))
  PROVE  /\ lastPublished' \in [Signals -> Values \cup {Unset}]
         /\ bus' \in [Signals -> Values \cup {Unset}]
         /\ CopyIsBus'
         /\ BusIsResolved'
  <1> DEFINE v == Resolved(claims', gatesClosed', s)
  <1>1. v \in Values
    <2>1. Ordered(claims', s, nextSeq')
      BY DEF ClaimsAreOrdered, Ordered
    <2> QED
      BY <2>1, ResolvedType
  <1>2. /\ lastPublished' \in [Signals -> Values \cup {Unset}]
        /\ bus' \in [Signals -> Values \cup {Unset}]
        /\ CopyIsBus'
        /\ \A z \in Signals \ {s} : bus'[z] = bus[z]
        /\ s \notin Fallible => bus'[s] = v
    <2> HIDE DEF v
    <2> QED
      BY <1>1, PublishOutputs DEF IInv, v
  <1>3. ASSUME NEW z \in Signals \ Fallible
        PROVE  IF bus'[z] = Unset
                 THEN Holders(claims', z) = {} /\ ~gatesClosed'[z]
                 ELSE bus'[z] = Resolved(claims', gatesClosed', z)
    <2>1. CASE z = s
      BY <1>1, <1>2, <1>3, <2>1, DomainAssumption
    <2>2. CASE z # s
      <3>1. /\ Holders(claims', z) = Holders(claims, z)
            /\ Resolved(claims', gatesClosed', z) = Resolved(claims, gatesClosed, z)
        BY <2>2, ResolvedLocal
      <3> QED
        BY <1>2, <1>3, <2>2, <3>1 DEF IInv, BusIsResolved
    <2> QED
      BY <2>1, <2>2
  <1>4. BusIsResolved'
    BY <1>3 DEF BusIsResolved
  <1> QED
    BY <1>2, <1>4

\* Nothing the invariant reads has changed.
LEMMA LoopUntouched ==
  ASSUME IInv, UNCHANGED loopVars,
         chan' \in Seq(Submittable \cup ReleaseMsg \cup GateMsg),
         gateStream' \in [Gated -> Seq(BOOLEAN)],
         gateSignal' \in [Gated -> BOOLEAN],
         wants' \in ClaimTable, asked' \in Nat
  PROVE  IInv'
  <1>1. /\ claims' = claims /\ gatesClosed' = gatesClosed /\ lastPublished' = lastPublished
        /\ bus' = bus /\ nextSeq' = nextSeq
    BY DEF loopVars, outputs
  <1>2. TypeOK'
    BY <1>1 DEF IInv, TypeOK, ClaimTable
  <1>3. CopyIsBus'
    BY <1>1 DEF IInv, CopyIsBus
  <1>4. BusIsResolved'
    <2>1. \A z \in Signals : /\ Holders(claims', z) = Holders(claims, z)
                            /\ Resolved(claims', gatesClosed', z) = Resolved(claims, gatesClosed, z)
      BY <1>1, ResolvedLocal
    <2> QED
      BY <1>1, <2>1 DEF IInv, BusIsResolved
  <1>5. ClaimsAreOrdered'
    BY <1>1 DEF IInv, ClaimsAreOrdered, Holders
  <1> QED
    BY <1>2, <1>3, <1>4, <1>5 DEF IInv

\* The invariant holds when the loop has started.
LEMMA InitInvariant == Init => IInv
  <1> SUFFICES ASSUME Init PROVE IInv
    OBVIOUS
  <1>1. TypeOK
    <2>1. gateStream \in [Gated -> Seq(BOOLEAN)]
      <3>1. <<TRUE>> \in Seq(BOOLEAN) /\ <<>> \in Seq(BOOLEAN)
        OBVIOUS
      <3>2. \A s \in Gated : gateStream[s] \in {<<TRUE>>, <<>>}
        BY DEF Init
      <3> QED
        BY <3>1, <3>2 DEF Init
    <2>2. lastPublished \in [Signals -> Values \cup {Unset}]
      BY DomainAssumption DEF Init
    <2> QED
      BY <2>1, <2>2 DEF Init, TypeOK
  <1>2. CopyIsBus
    BY DEF Init, CopyIsBus
  <1>3. \A s \in Signals : Holders(claims, s) = {} /\ ~gatesClosed[s]
    BY DEF Init, Holders
  <1>4. \A s \in Signals : bus[s] \in {Off[s], Unset} /\ Off[s] # Unset
    BY DomainAssumption DEF Init
  <1>5. BusIsResolved
    BY <1>3, <1>4 DEF BusIsResolved, Resolved
  <1>6. ClaimsAreOrdered
    BY <1>3 DEF ClaimsAreOrdered
  <1> QED
    BY <1>1, <1>2, <1>5, <1>6 DEF IInv

\* Features and watchers only fill the channel.
LEMMA WorldInvariant ==
  ASSUME IInv,
         \/ \E r \in Submittable : Submit(r)
         \/ \E f \in Features, s \in Signals : Withdraw(f, s)
         \/ \E s \in Gated : MoveGate(s) \/ WatchGate(s)
  PROVE  IInv'
  <1> USE DEF IInv, TypeOK, ClaimTable, historyVars
  <1>1. ASSUME NEW r \in Submittable, Submit(r) PROVE IInv'
    <2>1. wants' \in ClaimTable /\ asked' \in Nat
      <3> DEFINE want == [priority |-> r.priority, value |-> r.value, seq |-> asked + 1]
      <3>1. want \in Claim /\ r.signal \in Signals /\ r.feature \in Features
        BY MessageTypes DEF Claim
      <3>2. CASE Allowed(r)
        <4>1. wants' = [wants EXCEPT ![r.signal][r.feature] = want] /\ asked' = asked + 1
          BY <1>1, <3>2 DEF Submit
        <4> HIDE DEF want
        <4> QED
          BY <3>1, <4>1
      <3>3. CASE ~Allowed(r)
        BY <1>1, <3>3 DEF Submit
      <3> QED
        BY <3>2, <3>3
    <2> QED
      BY <1>1, <2>1, LoopUntouched DEF Submit
  <1>2. ASSUME NEW f \in Features, NEW s \in Signals, Withdraw(f, s) PROVE IInv'
    <2>1. [tag |-> Release, feature |-> f, signal |-> s] \in ReleaseMsg
      BY DEF ReleaseMsg
    <2>2. wants' \in ClaimTable /\ asked' \in Nat
      BY <1>2 DEF Withdraw
    <2> QED
      BY <1>2, <2>1, <2>2, LoopUntouched DEF Withdraw
  <1>3. ASSUME NEW s \in Gated, MoveGate(s) PROVE IInv'
    <2>1. /\ gateStream' \in [Gated -> Seq(BOOLEAN)]
          /\ gateSignal' \in [Gated -> BOOLEAN]
          /\ UNCHANGED <<loopVars, chan, historyVars>>
      BY <1>3 DEF MoveGate
    <2> QED
      BY <2>1, LoopUntouched
  <1>4. ASSUME NEW s \in Gated, WatchGate(s) PROVE IInv'
    <2>1. Head(gateStream[s]) \in BOOLEAN /\ Tail(gateStream[s]) \in Seq(BOOLEAN)
      BY <1>4 DEF WatchGate
    <2>2. [tag |-> Gate, target |-> s, closed |-> Head(gateStream[s])] \in GateMsg
      BY <2>1 DEF GateMsg
    <2>3. chan' \in Seq(Submittable \cup ReleaseMsg \cup GateMsg)
      BY <1>4, <2>2 DEF WatchGate
    <2>4. /\ gateStream' \in [Gated -> Seq(BOOLEAN)]
          /\ UNCHANGED <<loopVars, gateSignal, historyVars>>
      BY <1>4, <2>1 DEF WatchGate
    <2> QED
      BY <2>3, <2>4, LoopUntouched
  <1> QED
    BY <1>1, <1>2, <1>3, <1>4

\* The channel and the world when the loop takes a message.
LEMMA ReceiveTypes ==
  ASSUME TypeOK, Receive, UNCHANGED worldVars
  PROVE  /\ chan' \in Seq(Submittable \cup ReleaseMsg \cup GateMsg)
         /\ gateStream' \in [Gated -> Seq(BOOLEAN)]
         /\ gateSignal' \in [Gated -> BOOLEAN]
         /\ wants' \in ClaimTable /\ asked' \in Nat
  BY DEF TypeOK, Receive, worldVars, historyVars, ClaimTable

\* A new claim has the highest number.
LEMMA RequestInvariant == ASSUME IInv, HandleRequest PROVE IInv'
  <1> DEFINE r == Head(chan)
             c == [priority |-> r.priority, value |-> r.value, seq |-> nextSeq']
  <1>1. /\ r.feature \in Features /\ r.signal \in Signals
        /\ r.priority \in Priorities /\ r.value \in Values
    BY MessageTypes DEF HandleRequest
  <1>2. nextSeq' = nextSeq + 1 /\ nextSeq \in Nat /\ gatesClosed' = gatesClosed
    BY DEF HandleRequest, IInv, TypeOK
  <1>3. c \in Claim /\ c # Unset
    BY <1>1, <1>2, DomainAssumption DEF Claim
  <1>4. claims' = [claims EXCEPT ![r.signal][r.feature] = c] /\ claims \in ClaimTable
    BY DEF HandleRequest, IInv, TypeOK, ClaimTable
  <1>5. claims' \in ClaimTable
    <2> HIDE DEF r, c
    <2> QED
      BY <1>1, <1>3, <1>4 DEF ClaimTable
  <1>6. ClaimsAreOrdered'
    <2> SUFFICES ASSUME NEW s \in Signals,
                        NEW f \in Holders(claims', s), NEW g \in Holders(claims', s)
                 PROVE  /\ claims'[s][f].seq <= nextSeq'
                        /\ claims'[s][f].seq = claims'[s][g].seq => f = g
      BY DEF ClaimsAreOrdered, Holders
    <2>1. c.seq = nextSeq + 1
      BY <1>2
    <2>2. \A h \in Holders(claims', s) :
             \/ s = r.signal /\ h = r.feature /\ claims'[s][h] = c
             \/ /\ ~(s = r.signal /\ h = r.feature)
                /\ claims'[s][h] = claims[s][h]
                /\ h \in Holders(claims, s)
      <3> HIDE DEF r, c
      <3> QED
        BY <1>1, <1>4 DEF Holders, ClaimTable
    <2>3. \A h \in Holders(claims, s) :
             claims[s][h].seq \in Nat /\ claims[s][h].seq <= nextSeq
      BY <1>4, ClaimParts DEF IInv, ClaimsAreOrdered
    <2> HIDE DEF r, c
    <2>4. claims'[s][f].seq <= nextSeq'
      BY <1>2, <2>1, <2>2, <2>3
    <2>5. claims'[s][f].seq = claims'[s][g].seq => f = g
      BY <1>2, <2>1, <2>2, <2>3 DEF IInv, ClaimsAreOrdered
    <2> QED
      BY <2>4, <2>5
  <1>7. \A z \in Signals \ {r.signal} : claims'[z] = claims[z]
    <2> HIDE DEF r, c
    <2> QED
      BY <1>4 DEF ClaimTable
  <1>8. Publish(r.signal, Resolved(claims', gatesClosed', r.signal))
    BY <1>2 DEF HandleRequest
  <1>9. gatesClosed' \in [Signals -> BOOLEAN]
    BY <1>2 DEF IInv, TypeOK
  <1>10. /\ lastPublished' \in [Signals -> Values \cup {Unset}]
         /\ bus' \in [Signals -> Values \cup {Unset}]
         /\ CopyIsBus'
         /\ BusIsResolved'
    <2> HIDE DEF r, c
    <2> QED
      BY <1>1, <1>2, <1>5, <1>6, <1>7, <1>8, <1>9, ResolveStep
  <1>11. TypeOK'
    BY <1>2, <1>5, <1>9, <1>10, ReceiveTypes DEF HandleRequest, IInv, TypeOK, ClaimTable
  <1> QED
    BY <1>6, <1>10, <1>11 DEF IInv

\* Dropping a claim keeps the others in order.
LEMMA ReleaseInvariant == ASSUME IInv, HandleRelease PROVE IInv'
  <1> DEFINE s == Head(chan).signal
             f == Head(chan).feature
  <1>1. f \in Features /\ s \in Signals
    BY MessageTypes DEF HandleRelease
  <1>2. /\ claims' = [claims EXCEPT ![s][f] = Unset]
        /\ claims \in ClaimTable
        /\ nextSeq' = nextSeq /\ nextSeq \in Nat
        /\ gatesClosed' = gatesClosed /\ gatesClosed' \in [Signals -> BOOLEAN]
    BY DEF HandleRelease, IInv, TypeOK, ClaimTable
  <1>3. /\ IF claims[s][f] = Unset
             THEN UNCHANGED outputs
             ELSE Publish(s, Resolved(claims', gatesClosed', s))
        /\ TypeOK /\ Receive /\ UNCHANGED worldVars
    BY <1>2 DEF HandleRelease, IInv
  <1> HIDE DEF s, f
  <1>4. claims' \in ClaimTable
    BY <1>1, <1>2 DEF ClaimTable
  <1>5. /\ \A z \in Signals \ {s} : claims'[z] = claims[z]
        /\ \A z \in Signals : \A h \in Holders(claims', z) :
              h \in Holders(claims, z) /\ claims'[z][h] = claims[z][h]
    BY <1>1, <1>2 DEF ClaimTable, Holders
  <1>6. ClaimsAreOrdered'
    <2> SUFFICES ASSUME NEW z \in Signals,
                        NEW g \in Holders(claims', z), NEW h \in Holders(claims', z)
                 PROVE  /\ claims'[z][g].seq <= nextSeq'
                        /\ claims'[z][g].seq = claims'[z][h].seq => g = h
      BY DEF ClaimsAreOrdered, Holders
    <2>1. /\ g \in Holders(claims, z) /\ claims'[z][g] = claims[z][g]
          /\ h \in Holders(claims, z) /\ claims'[z][h] = claims[z][h]
      BY <1>5
    <2>2. /\ claims[z][g].seq <= nextSeq
          /\ claims[z][g].seq = claims[z][h].seq => g = h
      BY <2>1 DEF IInv, ClaimsAreOrdered
    <2> QED
      BY <1>2, <2>1, <2>2
  <1>7. CASE claims[s][f] = Unset
    <2>1. claims' = claims
      BY <1>1, <1>2, <1>7 DEF ClaimTable
    <2>2. UNCHANGED loopVars
      BY <1>2, <1>3, <1>7, <2>1 DEF loopVars
    <2> QED
      BY <1>3, <2>2, ReceiveTypes, LoopUntouched
  <1>8. CASE claims[s][f] # Unset
    <2>1. /\ lastPublished' \in [Signals -> Values \cup {Unset}]
          /\ bus' \in [Signals -> Values \cup {Unset}]
          /\ CopyIsBus'
          /\ BusIsResolved'
      BY <1>1, <1>2, <1>3, <1>4, <1>5, <1>6, <1>8, ResolveStep
    <2>2. TypeOK'
      BY <1>2, <1>3, <1>4, <2>1, ReceiveTypes DEF TypeOK, ClaimTable
    <2> QED
      BY <1>6, <2>1, <2>2 DEF IInv
  <1> QED
    BY <1>7, <1>8

\* A gate message resolves its target when it changes the gate.
LEMMA GateInvariant == ASSUME IInv, HandleGate PROVE IInv'
  <1> DEFINE s == Head(chan).target
             closed == Head(chan).closed
  <1>1. s \in Signals /\ closed \in BOOLEAN
    BY MessageTypes DEF HandleGate
  <1>2. /\ gatesClosed' = [gatesClosed EXCEPT ![s] = closed]
        /\ gatesClosed \in [Signals -> BOOLEAN]
        /\ claims' = claims /\ claims' \in ClaimTable
        /\ nextSeq' = nextSeq /\ nextSeq' \in Nat
    BY DEF HandleGate, IInv, TypeOK, ClaimTable
  <1>3. /\ IF gatesClosed[s] = closed
             THEN UNCHANGED outputs
             ELSE Publish(s, Resolved(claims', gatesClosed', s))
        /\ TypeOK /\ Receive /\ UNCHANGED worldVars
    BY <1>2 DEF HandleGate, IInv
  <1> HIDE DEF s, closed
  <1>4. /\ gatesClosed' \in [Signals -> BOOLEAN]
        /\ \A z \in Signals \ {s} : gatesClosed'[z] = gatesClosed[z]
    BY <1>1, <1>2
  <1>5. ClaimsAreOrdered'
    BY <1>2 DEF IInv, ClaimsAreOrdered, Holders
  <1>6. CASE gatesClosed[s] = closed
    <2>1. gatesClosed' = gatesClosed
      BY <1>1, <1>2, <1>6
    <2>2. UNCHANGED loopVars
      BY <1>2, <1>3, <1>6, <2>1 DEF loopVars
    <2> QED
      BY <1>3, <2>2, ReceiveTypes, LoopUntouched
  <1>7. CASE gatesClosed[s] # closed
    <2>1. /\ lastPublished' \in [Signals -> Values \cup {Unset}]
          /\ bus' \in [Signals -> Values \cup {Unset}]
          /\ CopyIsBus'
          /\ BusIsResolved'
      BY <1>1, <1>2, <1>3, <1>4, <1>5, <1>7, ResolveStep
    <2>2. TypeOK'
      BY <1>2, <1>3, <1>4, <2>1, ReceiveTypes DEF TypeOK, ClaimTable
    <2> QED
      BY <1>5, <2>1, <2>2 DEF IInv
  <1> QED
    BY <1>6, <1>7

\* Every step keeps the invariant.
LEMMA StepInvariant == IInv /\ [Next]_vars => IInv'
  <1> SUFFICES ASSUME IInv, [Next]_vars PROVE IInv'
    OBVIOUS
  <1>1. CASE Reject
    BY <1>1, ReceiveTypes, LoopUntouched DEF Reject, IInv
  <1>2. CASE UNCHANGED vars
    <2>1. UNCHANGED <<loopVars, chan, gateStream, gateSignal, historyVars>>
      BY <1>2 DEF vars, loopVars, outputs, historyVars
    <2> QED
      BY <2>1, LoopUntouched DEF IInv, TypeOK, ClaimTable, historyVars
  <1> QED
    BY <1>1, <1>2, WorldInvariant, RequestInvariant, ReleaseInvariant, GateInvariant
    DEF Next, HandleMessage

\* The inductive invariant holds throughout.
THEOREM Invariance == Spec => []IInv
  BY InitInvariant, StepInvariant, PTL DEF Spec

-----------------------------------------------------------------------------
(* What the invariant says.                                                *)

\* Every variable of the arbiter, its channel and its gates keeps its type; in
\* particular no sequence number is ever taken back.
THEOREM TypeCorrect == Spec => []TypeOK
  BY Invariance, PTL DEF IInv

\* The loop's duplicate filter compares with what the bus really has, also
\* after publishes that failed.
THEOREM FilterIsExact == Spec => []CopyIsBus
  BY Invariance, PTL DEF IInv

\* After every message each resolved signal shows what its claims and its gate
\* call for.
THEOREM OutputsAreResolved == Spec => []BusIsResolved
  BY Invariance, PTL DEF IInv

\* The claims of a signal never tie.
THEOREM NoTies == Spec => []ClaimsAreOrdered
  BY Invariance, PTL DEF IInv

\* The invariant makes the shown value that of the one highest claim.
LEMMA WinnerShows == IInv => HighestClaimShows
  <1> SUFFICES ASSUME IInv, NEW s \in Signals \ Fallible,
                      ~gatesClosed[s], Holders(claims, s) # {}
               PROVE  \E f \in Holders(claims, s) :
                         /\ bus[s] = claims[s][f].value
                         /\ \A g \in Holders(claims, s) \ {f} :
                               /\ Outranks(claims[s][f], claims[s][g])
                               /\ ~Outranks(claims[s][g], claims[s][f])
    BY DEF HighestClaimShows
  <1> DEFINE w == Winner(claims, s)
  <1>1. claims \in ClaimTable /\ nextSeq \in Nat /\ Ordered(claims, s, nextSeq)
    BY DEF IInv, TypeOK, ClaimTable, ClaimsAreOrdered, Ordered
  <1>2. /\ w \in Holders(claims, s)
        /\ \A g \in Holders(claims, s) : Outranks(claims[s][w], claims[s][g])
    BY <1>1, WinnerExists
  <1>3. bus[s] = claims[s][w].value
    BY DEF IInv, BusIsResolved, Resolved
  <1> HIDE DEF w
  <1>4. ASSUME NEW g \in Holders(claims, s) \ {w}
        PROVE  ~Outranks(claims[s][g], claims[s][w])
    <2>1. claims[s][g].seq # claims[s][w].seq
      BY <1>2, <1>4 DEF IInv, ClaimsAreOrdered
    <2>2. /\ claims[s][w].seq \in Nat /\ claims[s][w].priority \in Nat
          /\ claims[s][g].seq \in Nat /\ claims[s][g].priority \in Nat
      BY <1>1, <1>2, <1>4, ClaimParts
    <2>3. Outranks(claims[s][w], claims[s][g])
      BY <1>2
    <2> QED
      BY <2>1, <2>2, <2>3 DEF Outranks
  <1> QED
    BY <1>2, <1>3, <1>4

\* An open, claimed signal always shows the value of the claim of highest
\* priority, the most recent one on a tie, and there is exactly one such claim.
THEOREM HighestWins == Spec => []HighestClaimShows
  BY Invariance, WinnerShows, PTL

-----------------------------------------------------------------------------
(* End to end.  What a feature wants of a signal is the last message about *)
(* it that waits in the channel or, when none waits, its claim; and the    *)
(* order in which the requests were sent is that of the sequence numbers   *)
(* for the claims and that of the channel for what waits.  A gate signal   *)
(* is what its subscription ends with or, when that is drained, the last   *)
(* message about it or, when there is none, the loop's view of it.         *)

\* Messages that make or end the claim of f on s.
Words(s, f) ==
    {m \in Request : Allowed(m) /\ m.signal = s /\ m.feature = f}
    \cup {m \in ReleaseMsg : m.signal = s /\ m.feature = f}

\* Messages that turn the gate of s.
Turns(s) == {m \in GateMsg : m.target = s}

\* No message of a kind waits.
Silent(kind) == \A i \in DOMAIN chan : chan[i] \notin kind

\* The last message of a kind.
Latest(i, kind) ==
    /\ i \in DOMAIN chan /\ chan[i] \in kind
    /\ \A j \in DOMAIN chan : j > i => chan[j] \notin kind

\* A want and a claim, or the request for one, are the same.
Same(want, c) == want.priority = c.priority /\ want.value = c.value

\* What a feature wants, word m decides.
Says(m, want) ==
    IF m \in ReleaseMsg THEN want = Unset ELSE want # Unset /\ Same(want, m)

\* The loop has, or will have, what f wants of s.
ClaimsFollow(s, f) ==
    /\ wants[s][f] # Unset => wants[s][f].seq <= asked
    /\ Silent(Words(s, f)) =>
        /\ claims[s][f] = Unset <=> wants[s][f] = Unset
        /\ claims[s][f] # Unset => Same(wants[s][f], claims[s][f])
    /\ \A i : Latest(i, Words(s, f)) => Says(chan[i], wants[s][f])

\* f's claim or request is older than g's.
Older(s, f, g) ==
    \/ /\ Silent(Words(s, f)) /\ Silent(Words(s, g))
       /\ claims[s][f].seq < claims[s][g].seq
    \/ Silent(Words(s, f)) /\ \E j : Latest(j, Words(s, g))
    \/ \E i, j : Latest(i, Words(s, f)) /\ Latest(j, Words(s, g)) /\ i < j

\* Of two features the one with the older claim or request has asked first.
OrderIsKept(s) ==
    \A f, g \in Holders(wants, s) : Older(s, f, g) => wants[s][f].seq < wants[s][g].seq

\* The loop knows, or will know, what the gate signal of s is.
GateFollows(s) ==
    IF gateStream[s] # <<>> THEN gateStream[s][Len(gateStream[s])] = gateSignal[s]
    ELSE /\ Silent(Turns(s)) => gatesClosed[s] = gateSignal[s]
         /\ \A i : Latest(i, Turns(s)) => chan[i].closed = gateSignal[s]

\* All of it; no signal without a gate is suppressed.
DeliveryInv ==
    /\ \A s \in Signals : (\A f \in Features : ClaimsFollow(s, f)) /\ OrderIsKept(s)
    /\ \A s \in Gated : GateFollows(s)
    /\ \A s \in Signals \ Gated : ~gatesClosed[s]

\* What can be in the channel.
Messages == Submittable \cup ReleaseMsg \cup GateMsg

\* A message is about one thing.
LEMMA KindsDiffer ==
  /\ \A m \in Request : m \notin ReleaseMsg /\ m \notin GateMsg
  /\ \A m \in ReleaseMsg : m \notin GateMsg
  <1>1. \A m \in Request : DOMAIN m = {"feature", "signal", "priority", "value"}
    BY DEF Request
  <1>2. \A m \in ReleaseMsg : "tag" \in DOMAIN m /\ m.tag = Release
    BY DEF ReleaseMsg
  <1>3. \A m \in GateMsg : "tag" \in DOMAIN m /\ m.tag = Gate
    BY DEF GateMsg
  <1> QED
    BY <1>1, <1>2, <1>3, DomainAssumption

\* A message that joins the channel is the latest of its kind, and changes nothing for
\* another kind.
LEMMA Sending ==
  ASSUME chan \in Seq(Messages), NEW m \in Messages, chan' = Append(chan, m), NEW kind
  PROVE  /\ m \notin kind =>
            /\ Silent(kind)' <=> Silent(kind)
            /\ \A i : Latest(i, kind)' => Latest(i, kind) /\ chan'[i] = chan[i]
         /\ m \in kind =>
            /\ ~Silent(kind)'
            /\ \A i : Latest(i, kind)' => i = Len(chan) + 1 /\ chan'[i] = m
         /\ \A i, other : Latest(i, other) => i < Len(chan) + 1
  <1>1. /\ Len(chan) \in Nat /\ DOMAIN chan = 1..Len(chan)
        /\ DOMAIN chan' = 1..(Len(chan) + 1)
        /\ chan'[Len(chan) + 1] = m
        /\ \A i \in 1..Len(chan) : chan'[i] = chan[i]
    BY AppendProperties, LenProperties
  <1>2. ASSUME m \notin kind
        PROVE  /\ Silent(kind)' <=> Silent(kind)
               /\ \A i : Latest(i, kind)' => Latest(i, kind) /\ chan'[i] = chan[i]
    BY <1>1, <1>2 DEF Silent, Latest
  <1>3. ASSUME m \in kind
        PROVE  /\ ~Silent(kind)'
               /\ \A i : Latest(i, kind)' => i = Len(chan) + 1 /\ chan'[i] = m
    BY <1>1, <1>3 DEF Silent, Latest
  <1>4. \A i, other : Latest(i, other) => i < Len(chan) + 1
    BY <1>1 DEF Latest
  <1> QED
    BY <1>2, <1>3, <1>4

\* When the first message leaves, the kinds that are silent then were so or had it as their
\* only message, and the latest message of a kind stays that.
LEMMA Receiving ==
  ASSUME chan \in Seq(Messages), Receive, NEW kind
  PROVE  /\ Silent(kind)' => IF Head(chan) \in kind THEN Latest(1, kind) ELSE Silent(kind)
         /\ \A i : Latest(i, kind)' => Latest(i + 1, kind) /\ chan'[i] = chan[i + 1] /\ i \in Nat
         /\ \A i : Latest(i, kind)' => i + 1 > 1
         /\ chan[1] = Head(chan)
  <1>1. /\ Len(chan) \in Nat \ {0} /\ DOMAIN chan = 1..Len(chan)
        /\ DOMAIN chan' = 1..(Len(chan) - 1)
        /\ \A i \in 1..(Len(chan) - 1) : chan'[i] = chan[i + 1]
        /\ Head(chan) = chan[1]
    BY HeadTailProperties, LenProperties, EmptySeq DEF Receive
  <1>2. \A j \in 1..Len(chan) : j = 1 \/ (j - 1 \in 1..(Len(chan) - 1) /\ chan'[j - 1] = chan[j])
    BY <1>1
  <1>3. ASSUME Silent(kind)'
        PROVE  IF Head(chan) \in kind THEN Latest(1, kind) ELSE Silent(kind)
    BY <1>1, <1>2, <1>3 DEF Silent, Latest
  <1>4. ASSUME NEW i, Latest(i, kind)'
        PROVE  Latest(i + 1, kind) /\ chan'[i] = chan[i + 1] /\ i \in Nat /\ i + 1 > 1
    <2>1. i \in 1..(Len(chan) - 1) /\ chan'[i] \in kind
      BY <1>1, <1>4 DEF Latest
    <2>2. ASSUME NEW j \in DOMAIN chan, j > i + 1 PROVE chan[j] \notin kind
      <3>1. j - 1 \in DOMAIN chan' /\ chan'[j - 1] = chan[j] /\ j - 1 > i
        BY <1>1, <2>1, <2>2
      <3> QED
        BY <1>4, <3>1 DEF Latest
    <2> QED
      BY <1>1, <2>1, <2>2 DEF Latest
  <1> QED
    BY <1>1, <1>3, <1>4

\* Words about one feature and signal are about no other, and none turns a gate.
LEMMA WordsDiffer ==
  /\ \A s, f, r, g : \A m \in Words(s, f) : m \in Words(r, g) => r = s /\ g = f
  /\ \A s, f, r : \A m \in Words(s, f) : m \notin Turns(r)
  /\ \A s, r : \A m \in Turns(s) : m \in Turns(r) => r = s
  BY KindsDiffer DEF Words, Turns

\* Only features that exist are heard of.
LEMMA WordTypes ==
  ASSUME NEW s, NEW f, NEW m \in Words(s, f)
  PROVE  s \in Signals /\ f \in Features
  BY MessageTypes DEF Words

-----------------------------------------------------------------------------
(* The features and the gates.                                             *)

\* A message that is about no claim changes nothing for the claims.
LEMMA UnheardOf ==
  ASSUME IInv, NEW s \in Signals, UNCHANGED claims, wants'[s] = wants[s],
         asked' \in Nat, asked' >= asked,
         NEW m \in Messages, chan' = Append(chan, m), \A f : m \notin Words(s, f),
         \A f \in Features : ClaimsFollow(s, f), OrderIsKept(s)
  PROVE  (\A f \in Features : ClaimsFollow(s, f)') /\ OrderIsKept(s)'
  <1>1. chan \in Seq(Messages)
    BY DEF IInv, TypeOK, Messages
  <1>2. ASSUME NEW f
        PROVE  /\ Silent(Words(s, f))' <=> Silent(Words(s, f))
               /\ \A i : Latest(i, Words(s, f))' =>
                     Latest(i, Words(s, f)) /\ chan'[i] = chan[i]
    <2> DEFINE kind == Words(s, f)
    <2>1. m \notin kind
      OBVIOUS
    <2> HIDE DEF kind
    <2>2. /\ Silent(kind)' <=> Silent(kind)
          /\ \A i : Latest(i, kind)' => Latest(i, kind) /\ chan'[i] = chan[i]
      BY <1>1, <2>1, Sending
    <2> QED
      BY <2>2 DEF kind
  <1>3. ASSUME NEW f \in Features PROVE ClaimsFollow(s, f)'
    <2>1. wants[s][f] # Unset => wants[s][f].seq <= asked'
      <3>1. wants \in ClaimTable /\ asked \in Nat
        BY DEF IInv, TypeOK, ClaimTable
      <3> QED
        BY <3>1, ClaimParts DEF ClaimsFollow, Holders
    <2> QED
      BY <1>2, <2>1 DEF ClaimsFollow
  <1>4. \A f, g : Older(s, f, g)' => Older(s, f, g)
    BY <1>2 DEF Older
  <1>5. OrderIsKept(s)'
    BY <1>4 DEF OrderIsKept, Holders
  <1> QED
    BY <1>3, <1>5

\* A word is the last that is wanted, and the newest.
LEMMA HeardOf ==
  ASSUME IInv, NEW s \in Signals, NEW f \in Features, UNCHANGED claims,
         NEW m \in Messages, chan' = Append(chan, m), m \in Words(s, f),
         wants' \in ClaimTable, asked \in Nat, asked' \in Nat, asked' >= asked,
         \A g \in Features \ {f} : wants'[s][g] = wants[s][g],
         Says(m, wants'[s][f]),
         wants'[s][f] # Unset => (wants'[s][f].seq = asked + 1 /\ asked' = asked + 1),
         \A g \in Features : ClaimsFollow(s, g), OrderIsKept(s)
  PROVE  (\A g \in Features : ClaimsFollow(s, g)') /\ OrderIsKept(s)'
  <1>1. chan \in Seq(Messages)
    BY DEF IInv, TypeOK, Messages
  <1>2. ASSUME NEW g \in Features \ {f}
        PROVE  /\ Silent(Words(s, g))' <=> Silent(Words(s, g))
               /\ \A i : Latest(i, Words(s, g))' =>
                     /\ Latest(i, Words(s, g)) /\ chan'[i] = chan[i]
                     /\ i < Len(chan) + 1
    <2> DEFINE kind == Words(s, g)
    <2>1. m \notin kind
      BY WordsDiffer
    <2> HIDE DEF kind
    <2>2. /\ Silent(kind)' <=> Silent(kind)
          /\ \A i : Latest(i, kind)' =>
                Latest(i, kind) /\ chan'[i] = chan[i] /\ i < Len(chan) + 1
      BY <1>1, <2>1, Sending
    <2> QED
      BY <2>2 DEF kind
  <1>3. /\ ~Silent(Words(s, f))'
        /\ \A i : Latest(i, Words(s, f))' => i = Len(chan) + 1 /\ chan'[i] = m
    <2> DEFINE kind == Words(s, f)
    <2>1. m \in kind
      OBVIOUS
    <2> HIDE DEF kind
    <2>2. /\ ~Silent(kind)'
          /\ \A i : Latest(i, kind)' => i = Len(chan) + 1 /\ chan'[i] = m
      BY <1>1, <2>1, Sending
    <2> QED
      BY <2>2 DEF kind
  <1>4. \A g \in Features : wants[s][g] # Unset =>
           wants[s][g].seq \in Nat /\ wants[s][g].seq <= asked
    <2>1. wants \in ClaimTable
      BY DEF IInv, TypeOK, ClaimTable
    <2> QED
      BY <2>1, ClaimParts DEF ClaimsFollow, Holders
  <1>5. ClaimsFollow(s, f)'
    BY <1>3 DEF ClaimsFollow
  <1>6. ASSUME NEW g \in Features \ {f} PROVE ClaimsFollow(s, g)'
    <2>1. wants[s][g] # Unset => wants[s][g].seq <= asked'
      BY <1>4
    <2> QED
      BY <1>2, <2>1 DEF ClaimsFollow
  <1>7. ASSUME NEW g \in Features, NEW h \in Features, wants'[s][g] # Unset,
               wants'[s][h] # Unset, Older(s, g, h)'
        PROVE  wants'[s][g].seq < wants'[s][h].seq
    <2>1. CASE g = f
      <3>1. \A i, j : ~(Latest(i, Words(s, g)) /\ Latest(j, Words(s, h)) /\ i < j)'
        <4>1. CASE h = f
          BY <1>3, <2>1, <4>1
        <4>2. CASE h # f
          <5>1. \A i, j : (Latest(i, Words(s, g)) /\ Latest(j, Words(s, h)) /\ i < j)' =>
                   i = Len(chan) + 1 /\ j < Len(chan) + 1 /\ i < j /\ j \in DOMAIN chan
            BY <1>2, <1>3, <2>1, <4>2 DEF Latest
          <5>2. DOMAIN chan = 1..Len(chan) /\ Len(chan) \in Nat
            BY <1>1, LenProperties
          <5> QED
            BY <5>1, <5>2
        <4> QED
          BY <4>1, <4>2
      <3> QED
        BY <1>3, <1>7, <2>1, <3>1 DEF Older
    <2>2. CASE g # f /\ h = f
      BY <1>4, <1>7, <2>2
    <2>3. CASE g # f /\ h # f
      <3>1. Older(s, g, h)
        BY <1>2, <1>7, <2>3 DEF Older
      <3> QED
        BY <1>7, <2>3, <3>1 DEF OrderIsKept, Holders
    <2> QED
      BY <2>1, <2>2, <2>3
  <1>8. OrderIsKept(s)'
    BY <1>7 DEF OrderIsKept, Holders
  <1> QED
    BY <1>5, <1>6, <1>8

\* A message that turns no gate changes nothing for the gates.
LEMMA Unturned ==
  ASSUME IInv, NEW s \in Gated, UNCHANGED <<gatesClosed, gateSignal>>,
         gateStream'[s] = gateStream[s],
         NEW m \in Messages, chan' = Append(chan, m), m \notin Turns(s), GateFollows(s)
  PROVE  GateFollows(s)'
  <1>1. chan \in Seq(Messages)
    BY DEF IInv, TypeOK, Messages
  <1> DEFINE kind == Turns(s)
  <1>2. m \notin kind
    OBVIOUS
  <1> HIDE DEF kind
  <1>3. /\ Silent(kind)' <=> Silent(kind)
        /\ \A i : Latest(i, kind)' => Latest(i, kind) /\ chan'[i] = chan[i]
    BY <1>1, <1>2, Sending
  <1> QED
    BY <1>3 DEF kind, GateFollows

\* Taking the head leaves a queue's end where it was.
LEMMA EndOfTail ==
  ASSUME NEW S, NEW q \in Seq(S), q # <<>>
  PROVE  IF Tail(q) = <<>> THEN Head(q) = q[Len(q)] ELSE Tail(q)[Len(Tail(q))] = q[Len(q)]
  <1>1. /\ Tail(q) \in Seq(S) /\ Len(Tail(q)) = Len(q) - 1 /\ Head(q) = q[1]
        /\ \A i \in 1..Len(Tail(q)) : Tail(q)[i] = q[i + 1]
        /\ Len(q) \in Nat \ {0}
    BY HeadTailProperties, EmptySeq, LenProperties
  <1>2. Tail(q) = <<>> => Len(q) = 1
    BY <1>1, EmptySeq
  <1>3. Tail(q) # <<>> => Len(Tail(q)) \in Nat \ {0}
    BY <1>1, EmptySeq
  <1> QED
    BY <1>1, <1>2, <1>3

\* What a step of the features or of the gates does.
LEMMA WorldDelivers ==
  ASSUME IInv, DeliveryInv,
         \/ \E r \in Submittable : Submit(r)
         \/ \E f \in Features, s \in Signals : Withdraw(f, s)
         \/ \E s \in Gated : MoveGate(s) \/ WatchGate(s)
  PROVE  DeliveryInv'
  <1>1. /\ chan \in Seq(Messages) /\ wants \in ClaimTable /\ asked \in Nat
        /\ gateStream \in [Gated -> Seq(BOOLEAN)] /\ gateSignal \in [Gated -> BOOLEAN]
        /\ wants' \in ClaimTable /\ asked' \in Nat
    <2>1. IInv'
      BY WorldInvariant
    <2> QED
      BY <2>1 DEF IInv, TypeOK, Messages, ClaimTable
  <1>2. ASSUME NEW m \in Messages, chan' = Append(chan, m), \A s : m \notin Turns(s),
               UNCHANGED <<loopVars, gateStream, gateSignal>>,
               \A s \in Signals : (\A f \in Features : ClaimsFollow(s, f)') /\ OrderIsKept(s)'
        PROVE  DeliveryInv'
    <2>1. \A s \in Gated : GateFollows(s)'
      BY <1>2, Unturned DEF DeliveryInv, loopVars
    <2> QED
      BY <1>2, <2>1 DEF DeliveryInv, loopVars
  <1>3. ASSUME NEW r \in Submittable, Submit(r) PROVE DeliveryInv'
    <2>1. /\ r \in Messages /\ r \in Request /\ r.signal \in Signals /\ r.feature \in Features
          /\ chan' = Append(chan, r) /\ UNCHANGED <<loopVars, gateStream, gateSignal>>
          /\ claims' = claims
      BY <1>3, MessageTypes DEF Submit, Messages, loopVars
    <2>2. \A s : r \notin Turns(s)
      BY <2>1, KindsDiffer DEF Turns
    <2>3. CASE Allowed(r)
      <3> DEFINE want == [priority |-> r.priority, value |-> r.value, seq |-> asked + 1]
      <3>1. /\ wants' = [wants EXCEPT ![r.signal][r.feature] = want] /\ asked' = asked + 1
            /\ want.priority = r.priority /\ want.value = r.value /\ want.seq = asked + 1
        BY <1>3, <2>3 DEF Submit
      <3>2. want # Unset
        BY <1>1, <2>1, MessageTypes, DomainAssumption DEF Claim
      <3> HIDE DEF want
      <3>3. /\ wants'[r.signal][r.feature] = want
            /\ \A g \in Features \ {r.feature} : wants'[r.signal][g] = wants[r.signal][g]
            /\ \A s \in Signals \ {r.signal} : wants'[s] = wants[s]
        BY <1>1, <2>1, <3>1 DEF ClaimTable
      <3>4. r \in Words(r.signal, r.feature)
        BY <2>1, <2>3 DEF Words
      <3>5. Says(r, wants'[r.signal][r.feature])
        BY <2>1, <3>1, <3>2, <3>3, KindsDiffer DEF Says, Same
      <3> DEFINE z == r.signal
                 f == r.feature
      <3>6. (\A g \in Features : ClaimsFollow(z, g)') /\ OrderIsKept(z)'
        <4>1. /\ z \in Signals /\ f \in Features /\ r \in Words(z, f)
              /\ \A g \in Features \ {f} : wants'[z][g] = wants[z][g]
              /\ Says(r, wants'[z][f])
              /\ wants'[z][f].seq = asked + 1 /\ asked' = asked + 1 /\ asked' >= asked
              /\ (\A g \in Features : ClaimsFollow(z, g)) /\ OrderIsKept(z)
          BY <1>1, <2>1, <3>1, <3>3, <3>4, <3>5 DEF DeliveryInv
        <4> HIDE DEF z, f
        <4> QED
          BY <1>1, <2>1, <4>1, HeardOf
      <3>7. ASSUME NEW s \in Signals \ {z}
            PROVE  (\A g \in Features : ClaimsFollow(s, g)') /\ OrderIsKept(s)'
        <4>1. \A g : r \notin Words(s, g)
          BY <3>4, WordsDiffer
        <4>2. wants'[s] = wants[s] /\ asked' >= asked
          BY <1>1, <3>1, <3>3
        <4>3. (\A g \in Features : ClaimsFollow(s, g)) /\ OrderIsKept(s)
          BY DEF DeliveryInv
        <4> QED
          BY <1>1, <2>1, <4>1, <4>2, <4>3, UnheardOf
      <3> QED
        BY <1>2, <2>1, <2>2, <3>6, <3>7
    <2>4. CASE ~Allowed(r)
      <3>1. wants' = wants /\ asked' = asked
        BY <1>3, <2>4 DEF Submit, historyVars
      <3>2. \A s, g : r \notin Words(s, g)
        BY <2>1, <2>4, KindsDiffer DEF Words
      <3>3. ASSUME NEW s \in Signals
            PROVE  (\A g \in Features : ClaimsFollow(s, g)') /\ OrderIsKept(s)'
        <4>1. (\A g \in Features : ClaimsFollow(s, g)) /\ OrderIsKept(s) /\ asked' >= asked
          BY <1>1, <3>1 DEF DeliveryInv
        <4> QED
          BY <1>1, <2>1, <3>1, <3>2, <4>1, UnheardOf
      <3> QED
        BY <1>2, <2>1, <2>2, <3>3
    <2> QED
      BY <2>3, <2>4
  <1>4. ASSUME NEW f \in Features, NEW z \in Signals, Withdraw(f, z) PROVE DeliveryInv'
    <2> DEFINE m == [tag |-> Release, feature |-> f, signal |-> z]
    <2>1. /\ m \in ReleaseMsg /\ m \in Messages /\ m \in Words(z, f)
          /\ chan' = Append(chan, m) /\ UNCHANGED <<loopVars, gateStream, gateSignal>>
          /\ claims' = claims /\ asked' = asked
          /\ wants' = [wants EXCEPT ![z][f] = Unset]
      BY <1>4 DEF Withdraw, Messages, ReleaseMsg, Words, loopVars
    <2> HIDE DEF m
    <2>2. \A s : m \notin Turns(s)
      BY <2>1, KindsDiffer DEF Turns
    <2>3. /\ wants'[z][f] = Unset
          /\ \A g \in Features \ {f} : wants'[z][g] = wants[z][g]
          /\ \A s \in Signals \ {z} : wants'[s] = wants[s]
      BY <1>1, <2>1 DEF ClaimTable
    <2>4. (\A g \in Features : ClaimsFollow(z, g)') /\ OrderIsKept(z)'
      <3>1. /\ Says(m, wants'[z][f]) /\ asked' >= asked
            /\ (\A g \in Features : ClaimsFollow(z, g)) /\ OrderIsKept(z)
        BY <1>1, <2>1, <2>3 DEF Says, DeliveryInv
      <3> QED
        BY <1>1, <2>1, <2>3, <3>1, HeardOf
    <2>5. ASSUME NEW s \in Signals \ {z}
          PROVE  (\A g \in Features : ClaimsFollow(s, g)') /\ OrderIsKept(s)'
      <3>1. \A g : m \notin Words(s, g)
        BY <2>1, WordsDiffer
      <3>2. (\A g \in Features : ClaimsFollow(s, g)) /\ OrderIsKept(s) /\ asked' >= asked
        BY <1>1, <2>1 DEF DeliveryInv
      <3> QED
        BY <1>1, <2>1, <2>3, <3>1, <3>2, UnheardOf
    <2> QED
      BY <1>2, <2>1, <2>2, <2>4, <2>5
  <1>5. ASSUME NEW z \in Gated, MoveGate(z) PROVE DeliveryInv'
    <2>1. PICK closed \in BOOLEAN :
            /\ gateSignal' = [gateSignal EXCEPT ![z] = closed]
            /\ gateStream' = [gateStream EXCEPT ![z] = Append(gateStream[z], closed)]
      BY <1>5 DEF MoveGate
    <2>2. UNCHANGED <<chan, claims, wants, asked, gatesClosed>>
      BY <1>5 DEF MoveGate, loopVars, historyVars
    <2>3. \A s \in Signals : (\A g \in Features : ClaimsFollow(s, g)') /\ OrderIsKept(s)'
      BY <2>2 DEF DeliveryInv, ClaimsFollow, OrderIsKept, Older, Silent, Latest, Holders
    <2>4. GateFollows(z)'
      <3>1. /\ gateStream'[z] = Append(gateStream[z], closed) /\ gateSignal'[z] = closed
            /\ gateStream[z] \in Seq(BOOLEAN)
        BY <1>1, <2>1
      <3>2. /\ gateStream'[z] # <<>>
            /\ gateStream'[z][Len(gateStream'[z])] = closed
        BY <3>1, AppendProperties
      <3> QED
        BY <3>1, <3>2 DEF GateFollows
    <2>5. ASSUME NEW s \in Gated \ {z} PROVE GateFollows(s)'
      <3>1. gateStream'[s] = gateStream[s] /\ gateSignal'[s] = gateSignal[s]
        BY <1>1, <2>1
      <3> QED
        BY <2>2, <3>1 DEF DeliveryInv, GateFollows, Silent, Latest
    <2> QED
      BY <2>2, <2>3, <2>4, <2>5 DEF DeliveryInv
  <1>6. ASSUME NEW z \in Gated, WatchGate(z) PROVE DeliveryInv'
    <2> DEFINE h == Head(gateStream[z])
               m == [tag |-> Gate, target |-> z, closed |-> h]
    <2>1. /\ gateStream[z] \in Seq(BOOLEAN) /\ gateStream[z] # <<>>
          /\ gateStream' = [gateStream EXCEPT ![z] = Tail(gateStream[z])]
          /\ UNCHANGED <<claims, wants, asked, gatesClosed, gateSignal>>
      BY <1>1, <1>6 DEF WatchGate, loopVars, historyVars
    <2>2. h \in BOOLEAN /\ chan' = Append(chan, m)
      BY <1>6, <2>1 DEF WatchGate
    <2>3. m \in GateMsg /\ m \in Messages /\ m \in Turns(z) /\ m.closed = h
      BY <2>2 DEF GateMsg, Messages, Turns
    <2>4. /\ Tail(gateStream[z]) # <<>> =>
              Tail(gateStream[z])[Len(Tail(gateStream[z]))] = gateSignal[z]
          /\ Tail(gateStream[z]) = <<>> => h = gateSignal[z]
      <3>1. gateStream[z][Len(gateStream[z])] = gateSignal[z]
        BY <2>1 DEF DeliveryInv, GateFollows
      <3> QED
        BY <2>1, <3>1, EndOfTail
    <2> HIDE DEF m, h
    <2>5. \A s, g : m \notin Words(s, g)
      BY <2>3, KindsDiffer DEF Words
    <2>6. \A s \in Signals : (\A g \in Features : ClaimsFollow(s, g)') /\ OrderIsKept(s)'
      <3> SUFFICES ASSUME NEW s \in Signals
                   PROVE  (\A g \in Features : ClaimsFollow(s, g)') /\ OrderIsKept(s)'
        OBVIOUS
      <3>1. (\A g \in Features : ClaimsFollow(s, g)) /\ OrderIsKept(s) /\ asked' >= asked
        BY <1>1, <2>1 DEF DeliveryInv
      <3> QED
        BY <1>1, <2>1, <2>2, <2>3, <2>5, <3>1, UnheardOf
    <2>7. GateFollows(z)'
      <3> DEFINE kind == Turns(z)
      <3>1. m \in kind
        BY <2>3
      <3> HIDE DEF kind
      <3>2. ~Silent(kind)' /\ \A i : Latest(i, kind)' => chan'[i] = m
        BY <1>1, <2>2, <2>3, <3>1, Sending
      <3>3. gateStream'[z] = Tail(gateStream[z])
        BY <1>1, <2>1
      <3> QED
        BY <2>1, <2>3, <2>4, <3>2, <3>3 DEF kind, GateFollows
    <2>8. ASSUME NEW s \in Gated \ {z} PROVE GateFollows(s)'
      <3>1. m \notin Turns(s)
        BY <2>3, WordsDiffer
      <3>2. gateStream'[s] = gateStream[s]
        BY <1>1, <2>1
      <3>3. GateFollows(s)
        BY DEF DeliveryInv
      <3> QED
        BY <2>1, <2>2, <2>3, <3>1, <3>2, <3>3, Unturned
    <2> QED
      BY <2>1, <2>6, <2>7, <2>8 DEF DeliveryInv
  <1> QED
    BY <1>3, <1>4, <1>5, <1>6

-----------------------------------------------------------------------------
(* The loop.                                                               *)

\* A message about a claim makes the claim what is wanted; the newest claim is the one of
\* the request that was sent last of those that have been handled.
LEMMA Handled ==
  ASSUME IInv, NEW s \in Signals, Receive, UNCHANGED historyVars,
         \A f \in Features :
            IF Head(chan) \in Words(s, f)
            THEN IF Head(chan) \in ReleaseMsg THEN claims'[s][f] = Unset
                 ELSE /\ claims'[s][f] # Unset /\ Same(claims'[s][f], Head(chan))
                      /\ claims'[s][f].seq = nextSeq + 1
            ELSE claims'[s][f] = claims[s][f],
         \A f \in Features : ClaimsFollow(s, f), OrderIsKept(s)
  PROVE  (\A f \in Features : ClaimsFollow(s, f)') /\ OrderIsKept(s)'
  <1> DEFINE h == Head(chan)
  <1>1. /\ chan \in Seq(Messages) /\ wants' = wants /\ asked' = asked
        /\ nextSeq \in Nat /\ claims \in ClaimTable
    BY DEF IInv, TypeOK, Messages, historyVars, ClaimTable
  <1>2. ASSUME NEW f
        PROVE  /\ Silent(Words(s, f))' =>
                     IF h \in Words(s, f) THEN Latest(1, Words(s, f)) ELSE Silent(Words(s, f))
               /\ \A i : Latest(i, Words(s, f))' =>
                     /\ Latest(i + 1, Words(s, f)) /\ chan'[i] = chan[i + 1]
                     /\ i \in Nat /\ 1 < i + 1
               /\ chan[1] = h
    <2> DEFINE kind == Words(s, f)
    <2> HIDE DEF kind
    <2>1. /\ Silent(kind)' => IF h \in kind THEN Latest(1, kind) ELSE Silent(kind)
          /\ \A i : Latest(i, kind)' =>
                Latest(i + 1, kind) /\ chan'[i] = chan[i + 1] /\ i \in Nat /\ 1 < i + 1
          /\ chan[1] = h
      BY <1>1, Receiving
    <2> QED
      BY <2>1 DEF kind
  <1> HIDE DEF h
  <1>3. ASSUME NEW f \in Features, Silent(Words(s, f))', wants[s][f] # Unset
        PROVE  /\ claims'[s][f] # Unset
               /\ IF h \in Words(s, f)
                  THEN Latest(1, Words(s, f)) /\ claims'[s][f].seq = nextSeq + 1
                  ELSE /\ Silent(Words(s, f)) /\ claims'[s][f].seq = claims[s][f].seq
                       /\ claims[s][f].seq \in Nat /\ claims[s][f].seq <= nextSeq
    <2>1. CASE h \in Words(s, f)
      <3>1. Latest(1, Words(s, f)) /\ Says(h, wants[s][f])
        BY <1>2, <1>3, <2>1 DEF ClaimsFollow
      <3>2. h \notin ReleaseMsg
        BY <1>3, <3>1 DEF Says
      <3> QED
        BY <2>1, <3>1, <3>2 DEF h
    <2>2. CASE h \notin Words(s, f)
      <3>1. Silent(Words(s, f)) /\ claims'[s][f] = claims[s][f]
        BY <1>2, <1>3, <2>2 DEF h
      <3>2. claims[s][f] # Unset
        BY <1>3, <3>1 DEF ClaimsFollow
      <3>3. claims[s][f].seq \in Nat /\ claims[s][f].seq <= nextSeq
        BY <1>1, <3>2, ClaimParts DEF IInv, ClaimsAreOrdered, Holders
      <3> QED
        BY <2>2, <3>1, <3>2, <3>3
    <2> QED
      BY <2>1, <2>2
  <1>4. ASSUME NEW f \in Features PROVE ClaimsFollow(s, f)'
    <2>1. ASSUME Silent(Words(s, f))'
          PROVE  /\ claims'[s][f] = Unset <=> wants[s][f] = Unset
                 /\ claims'[s][f] # Unset => Same(wants[s][f], claims'[s][f])
      <3>1. CASE h \in Words(s, f)
        <4>1. Says(h, wants[s][f])
          BY <1>2, <2>1, <3>1 DEF ClaimsFollow
        <4> QED
          BY <3>1, <4>1 DEF Says, Same, h
      <3>2. CASE h \notin Words(s, f)
        BY <1>2, <2>1, <3>2 DEF ClaimsFollow, h
      <3> QED
        BY <3>1, <3>2
    <2>2. \A i : Latest(i, Words(s, f))' => Says(chan'[i], wants[s][f])
      BY <1>2 DEF ClaimsFollow
    <2> QED
      BY <1>1, <2>1, <2>2 DEF ClaimsFollow, Same
  <1>5. ASSUME NEW f \in Features, NEW g \in Features, wants[s][f] # Unset,
               wants[s][g] # Unset, Older(s, f, g)'
        PROVE  Older(s, f, g)
    <2>1. ASSUME Silent(Words(s, f))', Silent(Words(s, g))',
                 claims'[s][f].seq < claims'[s][g].seq
          PROVE  Older(s, f, g)
      <3>1. CASE h \in Words(s, f)
        <4>1. claims'[s][f].seq = nextSeq + 1
          BY <1>3, <1>5, <2>1, <3>1
        <4>2. claims'[s][g].seq <= nextSeq + 1 /\ claims'[s][g].seq \in Nat
          BY <1>1, <1>3, <1>5, <2>1
        <4> QED
          BY <1>1, <2>1, <4>1, <4>2
      <3>2. CASE h \notin Words(s, f) /\ h \in Words(s, g)
        BY <1>3, <1>5, <2>1, <3>2 DEF Older
      <3>3. CASE h \notin Words(s, f) /\ h \notin Words(s, g)
        BY <1>3, <1>5, <2>1, <3>3 DEF Older
      <3> QED
        BY <3>1, <3>2, <3>3
    <2>2. ASSUME Silent(Words(s, f))', NEW j, Latest(j, Words(s, g))'
          PROVE  Older(s, f, g)
      BY <1>2, <2>2 DEF Older
    <2>3. ASSUME NEW i, NEW j, Latest(i, Words(s, f))', Latest(j, Words(s, g))', i < j
          PROVE  Older(s, f, g)
      <3>1. /\ Latest(i + 1, Words(s, f)) /\ Latest(j + 1, Words(s, g))
            /\ i \in Nat /\ j \in Nat
        BY <1>2, <2>3
      <3> QED
        BY <2>3, <3>1 DEF Older
    <2> QED
      BY <1>5, <2>1, <2>2, <2>3 DEF Older
  <1>6. OrderIsKept(s)'
    BY <1>1, <1>5 DEF OrderIsKept, Holders
  <1> QED
    BY <1>4, <1>6

\* A message about a gate makes the loop's view of it what the watcher has seen.
LEMMA Obeyed ==
  ASSUME IInv, NEW s \in Gated, Receive, UNCHANGED <<gateStream, gateSignal>>,
         gatesClosed'[s] = IF Head(chan) \in Turns(s) THEN Head(chan).closed
                           ELSE gatesClosed[s],
         GateFollows(s)
  PROVE  GateFollows(s)'
  <1>1. chan \in Seq(Messages)
    BY DEF IInv, TypeOK, Messages
  <1> DEFINE kind == Turns(s)
  <1> HIDE DEF kind
  <1>2. /\ Silent(kind)' => IF Head(chan) \in kind THEN Latest(1, kind) ELSE Silent(kind)
        /\ \A i : Latest(i, kind)' => Latest(i + 1, kind) /\ chan'[i] = chan[i + 1]
        /\ chan[1] = Head(chan)
    BY <1>1, Receiving
  <1> QED
    BY <1>2 DEF kind, GateFollows

\* What a step of the loop does.
LEMMA LoopDelivers ==
  ASSUME IInv, DeliveryInv, HandleMessage
  PROVE  DeliveryInv'
  <1> DEFINE h == Head(chan)
  <1>1. /\ Receive /\ UNCHANGED <<gateStream, gateSignal, wants, asked>>
        /\ UNCHANGED historyVars
    BY DEF HandleMessage, Reject, HandleRequest, HandleRelease, HandleGate, worldVars,
           historyVars
  <1>2. /\ claims \in ClaimTable /\ gatesClosed \in [Signals -> BOOLEAN] /\ nextSeq \in Nat
    BY DEF IInv, TypeOK, ClaimTable
  <1>3. \A s \in Signals, f \in Features :
            IF h \in Words(s, f)
            THEN IF h \in ReleaseMsg THEN claims'[s][f] = Unset
                 ELSE /\ claims'[s][f] # Unset /\ Same(claims'[s][f], h)
                      /\ claims'[s][f].seq = nextSeq + 1
            ELSE claims'[s][f] = claims[s][f]
    <2>1. CASE UNCHANGED claims /\ \A s, f : h \notin Words(s, f)
      BY <2>1
    <2>2. CASE HandleRequest
      <3> DEFINE c == [priority |-> h.priority, value |-> h.value, seq |-> nextSeq']
      <3>1. /\ h \in Request /\ Allowed(h) /\ h \notin ReleaseMsg
            /\ h.feature \in Features /\ h.signal \in Signals
            /\ h.priority \in Priorities /\ h.value \in Values
        BY <2>2, MessageTypes, KindsDiffer DEF HandleRequest
      <3>2. nextSeq' = nextSeq + 1
        BY <2>2 DEF HandleRequest
      <3>3. c # Unset /\ Same(c, h) /\ c.seq = nextSeq + 1
        BY <1>2, <3>1, <3>2, DomainAssumption DEF Claim, Same
      <3>4. claims' = [claims EXCEPT ![h.signal][h.feature] = c]
        BY <2>2 DEF HandleRequest
      <3>5. \A s, f : h \in Words(s, f) <=> (s = h.signal /\ f = h.feature)
        BY <3>1 DEF Words
      <3> HIDE DEF c, h
      <3> QED
        BY <1>2, <3>1, <3>3, <3>4, <3>5 DEF ClaimTable
    <2>3. CASE HandleRelease
      <3>1. /\ h \in ReleaseMsg /\ h.feature \in Features /\ h.signal \in Signals
            /\ claims' = [claims EXCEPT ![h.signal][h.feature] = Unset]
        BY <2>3, MessageTypes DEF HandleRelease
      <3>2. \A s, f : h \in Words(s, f) <=> (s = h.signal /\ f = h.feature)
        BY <3>1, KindsDiffer DEF Words
      <3> HIDE DEF h
      <3> QED
        BY <1>2, <3>1, <3>2 DEF ClaimTable
    <2>4. CASE Reject
      <3>1. h \in Request /\ ~Allowed(h) /\ h \notin ReleaseMsg /\ UNCHANGED claims
        BY <2>4, KindsDiffer DEF Reject, loopVars
      <3>2. \A s, f : h \notin Words(s, f)
        BY <3>1 DEF Words
      <3> QED
        BY <2>1, <3>1, <3>2
    <2>5. CASE HandleGate
      <3>1. h \in GateMsg /\ h \notin Request /\ h \notin ReleaseMsg /\ UNCHANGED claims
        BY <2>5, KindsDiffer DEF HandleGate
      <3>2. \A s, f : h \notin Words(s, f)
        BY <3>1 DEF Words
      <3> QED
        BY <2>1, <3>1, <3>2
    <2> QED
      BY <2>2, <2>3, <2>4, <2>5 DEF HandleMessage
  <1>4. \A s \in Signals :
            gatesClosed'[s] = IF h \in Turns(s) THEN h.closed ELSE gatesClosed[s]
    <2>1. CASE HandleGate
      <3>1. /\ h \in GateMsg /\ h.target \in Signals
            /\ gatesClosed' = [gatesClosed EXCEPT ![h.target] = h.closed]
        BY <2>1, MessageTypes DEF HandleGate
      <3>2. \A s : h \in Turns(s) <=> s = h.target
        BY <3>1 DEF Turns
      <3> HIDE DEF h
      <3> QED
        BY <1>2, <3>1, <3>2
    <2>2. CASE ~HandleGate
      <3>1. h \in Request \cup ReleaseMsg /\ UNCHANGED gatesClosed
        BY <2>2 DEF HandleMessage, Reject, HandleRequest, HandleRelease, loopVars
      <3> QED
        BY <3>1, KindsDiffer DEF Turns
    <2> QED
      BY <2>1, <2>2
  <1>5. \A s \in Signals : (\A f \in Features : ClaimsFollow(s, f)') /\ OrderIsKept(s)'
    <2> SUFFICES ASSUME NEW s \in Signals
                 PROVE  (\A f \in Features : ClaimsFollow(s, f)') /\ OrderIsKept(s)'
      OBVIOUS
    <2>1. (\A f \in Features : ClaimsFollow(s, f)) /\ OrderIsKept(s)
      BY DEF DeliveryInv
    <2> QED
      BY <1>1, <1>3, <2>1, Handled
  <1>6. \A s \in Gated : GateFollows(s)'
    BY <1>1, <1>4, Obeyed, DomainAssumption DEF DeliveryInv
  <1>7. \A s \in Signals \ Gated : ~gatesClosed'[s]
    <2>1. \A s : h \in Turns(s) => s \in Gated
      BY DEF Turns, GateMsg
    <2> QED
      BY <1>4, <2>1 DEF DeliveryInv
  <1> QED
    BY <1>5, <1>6, <1>7 DEF DeliveryInv

\* Nothing waits, and each claim is what its feature wants.
LEMMA SettledDelivers == IInv /\ DeliveryInv => DeliversWants
  <1> SUFFICES ASSUME IInv, DeliveryInv, Settled, NEW s \in Signals
               PROVE  \/ bus[s] = Wanted(s)
                      \/ bus[s] = Unset /\ Wanted(s) = Off[s]
                      \/ s \in Fallible /\ lastPublished[s] # Wanted(s)
    BY DEF DeliversWants
  <1>1. /\ claims \in ClaimTable /\ wants \in ClaimTable /\ nextSeq \in Nat
        /\ gatesClosed \in [Signals -> BOOLEAN] /\ gateSignal \in [Gated -> BOOLEAN]
        /\ Ordered(claims, s, nextSeq)
    BY DEF IInv, TypeOK, ClaimTable, Ordered, ClaimsAreOrdered
  <1>2. \A kind : Silent(kind)
    BY EmptySeq DEF Settled, Silent
  <1>3. gatesClosed[s] <=> (s \in Gated /\ gateSignal[s])
    <2>1. CASE s \in Gated
      <3>1. gateStream[s] = <<>> /\ GateFollows(s)
        BY <2>1 DEF Settled, DeliveryInv
      <3> QED
        BY <1>2, <2>1, <3>1 DEF GateFollows
    <2>2. CASE s \notin Gated
      BY <2>2 DEF DeliveryInv
    <2> QED
      BY <2>1, <2>2
  <1>4. \A f \in Features :
            /\ claims[s][f] = Unset <=> wants[s][f] = Unset
            /\ claims[s][f] # Unset => Same(wants[s][f], claims[s][f])
    BY <1>2 DEF DeliveryInv, ClaimsFollow
  <1>5. Holders(wants, s) = Holders(claims, s)
    BY <1>4 DEF Holders
  <1>6. Resolved(claims, gatesClosed, s) = Wanted(s)
    <2>1. CASE gatesClosed[s] \/ Holders(claims, s) = {}
      BY <1>3, <1>5, <2>1 DEF Resolved, Wanted
    <2>2. CASE ~gatesClosed[s] /\ Holders(claims, s) # {}
      <3> DEFINE w == Winner(claims, s)
                 H == Holders(wants, s)
      <3>1. /\ w \in Holders(claims, s)
            /\ \A g \in Holders(claims, s) : Outranks(claims[s][w], claims[s][g])
        BY <1>1, <2>2, WinnerExists
      <3>2. Resolved(claims, gatesClosed, s) = claims[s][w].value
        BY <2>2 DEF Resolved
      <3>3. Wanted(s) = wants[s][Foremost(s)].value
        BY <1>3, <1>5, <2>2 DEF Wanted
      <3> HIDE DEF w
      <3>4. /\ w \in H /\ H \subseteq Features
            /\ Same(wants[s][w], claims[s][w])
        BY <1>4, <1>5, <3>1 DEF Holders
      <3>5. ASSUME NEW g \in H
            PROVE  /\ wants[s][g].priority \in Nat /\ wants[s][g].seq \in Nat
                   /\ claims[s][g].priority = wants[s][g].priority
                   /\ claims[s][g].seq \in Nat
        <4>1. wants[s][g].priority \in Nat /\ wants[s][g].seq \in Nat
          BY <1>1, ClaimParts
        <4>2. g \in Holders(claims, s)
          BY <1>5
        <4>3. claims[s][g].seq \in Nat
          BY <1>1, <4>2, ClaimParts
        <4>4. claims[s][g].priority = wants[s][g].priority
          BY <1>4, <4>2 DEF Same, Holders
        <4> QED
          BY <4>1, <4>3, <4>4
      <3>6. ASSUME NEW g \in H \ {w} PROVE Precedes(wants[s][w], wants[s][g])
        <4>1. Outranks(claims[s][w], claims[s][g]) /\ claims[s][w].seq # claims[s][g].seq
          BY <1>1, <1>5, <3>1 DEF Ordered
        <4>2. CASE claims[s][w].priority > claims[s][g].priority
          BY <3>4, <3>5, <4>2 DEF Precedes
        <4>3. CASE claims[s][w].priority = claims[s][g].priority
          <5>1. claims[s][g].seq < claims[s][w].seq
            BY <3>4, <3>5, <4>1, <4>3 DEF Outranks
          <5>2. Older(s, g, w)
            BY <1>2, <5>1 DEF Older
          <5>3. wants[s][g].seq < wants[s][w].seq
            BY <3>4, <5>2 DEF DeliveryInv, OrderIsKept
          <5> QED
            BY <3>4, <3>5, <4>3, <5>3 DEF Precedes
        <4> QED
          BY <3>4, <3>5, <4>1, <4>2, <4>3 DEF Outranks
      <3>7. \A f \in H : (\A g \in H \ {f} : Precedes(wants[s][f], wants[s][g])) => f = w
        <4> SUFFICES ASSUME NEW f \in H \ {w}, Precedes(wants[s][f], wants[s][w])
                     PROVE  FALSE
          BY <3>4
        <4>1. Precedes(wants[s][w], wants[s][f])
          BY <3>6
        <4> QED
          BY <3>4, <3>5, <4>1 DEF Precedes
      <3>8. Foremost(s) = w
        <4> HIDE DEF H
        <4>1. /\ w \in H
              /\ \A g \in H \ {w} : Precedes(wants[s][w], wants[s][g])
          BY <3>4, <3>6
        <4>2. Foremost(s) = CHOOSE f \in H : \A g \in H \ {f} : Precedes(wants[s][f], wants[s][g])
          BY DEF Foremost, H
        <4> QED
          BY <3>7, <4>1, <4>2
      <3> QED
        BY <3>2, <3>3, <3>4, <3>8 DEF Same
    <2> QED
      BY <2>1, <2>2
  <1>7. CASE s \notin Fallible
    <2>1. CASE bus[s] = Unset
      <3>1. Holders(claims, s) = {} /\ ~gatesClosed[s]
        BY <1>7, <2>1 DEF IInv, BusIsResolved
      <3> QED
        BY <1>3, <1>5, <2>1, <3>1 DEF Wanted
    <2>2. CASE bus[s] # Unset
      BY <1>6, <1>7, <2>2 DEF IInv, BusIsResolved
    <2> QED
      BY <2>1, <2>2
  <1>8. CASE s \in Fallible
    BY <1>8 DEF IInv, CopyIsBus
  <1> QED
    BY <1>7, <1>8

\* When the channel and the gate subscriptions are drained, the bus shows what the features
\* asked for and the gates allow, whatever was rejected, overtaken or released meanwhile
\* (arbiter.rs).
THEOREM WantsAreDelivered == Spec => []DeliversWants
  <1>1. Init => DeliveryInv
    <2> SUFFICES ASSUME Init PROVE DeliveryInv
      OBVIOUS
    <2>1. \A kind : Silent(kind) /\ \A i : ~Latest(i, kind)
      BY EmptySeq DEF Init, Silent, Latest
    <2>2. \A s \in Signals, f \in Features : claims[s][f] = Unset /\ wants[s][f] = Unset
      BY DEF Init
    <2>3. \A s \in Signals : (\A f \in Features : ClaimsFollow(s, f)) /\ OrderIsKept(s)
      BY <2>1, <2>2 DEF ClaimsFollow, OrderIsKept, Holders
    <2>4. ASSUME NEW s \in Gated PROVE GateFollows(s)
      <3>1. /\ gateStream[s] = IF gateSignal[s] THEN <<TRUE>> ELSE <<>>
            /\ gateSignal[s] \in BOOLEAN /\ gatesClosed[s] = FALSE
        BY DomainAssumption DEF Init
      <3>2. <<TRUE>> # <<>> /\ Len(<<TRUE>>) = 1 /\ <<TRUE>>[1] = TRUE
        OBVIOUS
      <3>3. CASE gateSignal[s]
        <4>1. gateStream[s] = <<TRUE>> /\ gateSignal[s] = TRUE
          BY <3>1, <3>3
        <4> QED
          BY <3>2, <4>1 DEF GateFollows
      <3>4. CASE ~gateSignal[s]
        <4>1. gateStream[s] = <<>> /\ gateSignal[s] = FALSE
          BY <3>1, <3>4
        <4> QED
          BY <2>1, <3>1, <4>1 DEF GateFollows
      <3> QED
        BY <3>3, <3>4
    <2>5. \A s \in Signals \ Gated : ~gatesClosed[s]
      BY DEF Init
    <2> QED
      BY <2>3, <2>4, <2>5 DEF DeliveryInv
  <1>2. IInv /\ DeliveryInv /\ [Next]_vars => DeliveryInv'
    <2> SUFFICES ASSUME IInv, DeliveryInv, [Next]_vars PROVE DeliveryInv'
      OBVIOUS
    <2>1. CASE UNCHANGED vars
      <3>1. UNCHANGED <<chan, claims, wants, asked, gatesClosed, gateStream, gateSignal>>
        BY <2>1 DEF vars
      <3>2. \A kind : /\ Silent(kind)' <=> Silent(kind)
                     /\ \A i : Latest(i, kind)' <=> Latest(i, kind)
        BY <3>1 DEF Silent, Latest
      <3>3. \A s, f, g : Older(s, f, g)' => Older(s, f, g)
        BY <3>1, <3>2 DEF Older
      <3>4. \A s \in Signals : (\A f \in Features : ClaimsFollow(s, f)') /\ OrderIsKept(s)'
        BY <3>1, <3>2, <3>3 DEF DeliveryInv, ClaimsFollow, OrderIsKept, Holders
      <3>5. \A s \in Gated : GateFollows(s)'
        BY <3>1, <3>2 DEF DeliveryInv, GateFollows
      <3> QED
        BY <3>1, <3>4, <3>5 DEF DeliveryInv
    <2> QED
      BY <2>1, WorldDelivers, LoopDelivers DEF Next
  <1> QED
    BY <1>1, <1>2, Invariance, SettledDelivers, PTL DEF Spec
=============================================================================
