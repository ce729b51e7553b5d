--------------------------- MODULE Starting_proofs ---------------------------
(***************************************************************************)
(* Proofs about Starting, with KeySearch, for every set of keys, every     *)
(* coalescing window, all searches of other features, every duration of a  *)
(* tap and every budget.                                                   *)
(***************************************************************************)
EXTENDS Starting, SequenceTheorems, TLAPS

-----------------------------------------------------------------------------
(* Streams and the request channel.                                        *)

\* The value of a stream that is read last.
End(q) == q[Len(q)]

\* q has a value v that has not been read.
Has(q, v) == \E i \in DOMAIN q : q[i] = v

\* A value is read.
LEMMA Reading ==
  ASSUME NEW S, NEW q \in Seq(S), q # <<>>
  PROVE  /\ Head(q) \in S /\ Head(q) = q[1] /\ Tail(q) \in Seq(S)
         /\ Len(q) \in Nat \ {0} /\ Len(Tail(q)) = Len(q) - 1
         /\ Len(q) = 1 => Tail(q) = <<>>
         /\ IF Tail(q) = <<>> THEN End(q) = Head(q) ELSE End(Tail(q)) = End(q)
         /\ 1 \in DOMAIN q
         /\ \A i \in DOMAIN Tail(q) : i + 1 \in DOMAIN q /\ Tail(q)[i] = q[i + 1]
  <1>1. /\ Tail(q) \in Seq(S) /\ Len(Tail(q)) = Len(q) - 1 /\ Head(q) = q[1]
        /\ \A i \in 1..Len(Tail(q)) : Tail(q)[i] = q[i + 1]
        /\ Len(q) \in Nat \ {0}
        /\ DOMAIN q = 1..Len(q) /\ DOMAIN Tail(q) = 1..Len(Tail(q))
    BY HeadTailProperties, EmptySeq, LenProperties
  <1>2. Head(q) \in S
    BY <1>1
  <1>3. \A t \in Seq(S) : Len(t) \in Nat /\ (t = <<>> <=> Len(t) = 0)
    BY EmptySeq, LenProperties
  <1>4. Len(Tail(q)) \in Nat /\ (Tail(q) = <<>> <=> Len(Tail(q)) = 0)
    BY <1>1, <1>3
  <1>5. IF Tail(q) = <<>> THEN End(q) = Head(q) ELSE End(Tail(q)) = End(q)
    BY <1>1, <1>4 DEF End
  <1>6. Len(q) = 1 => Tail(q) = <<>>
    BY <1>1, <1>4
  <1>7. \A i \in DOMAIN Tail(q) : i + 1 \in DOMAIN q /\ Tail(q)[i] = q[i + 1]
    BY <1>1
  <1>8. 1 \in DOMAIN q
    BY <1>1
  <1> QED
    BY <1>1, <1>2, <1>5, <1>6, <1>7, <1>8

\* A value is sent.
LEMMA Sending ==
  ASSUME NEW S, NEW q \in Seq(S), NEW v \in S
  PROVE  /\ Append(q, v) \in Seq(S) /\ Append(q, v) # <<>> /\ End(Append(q, v)) = v
         /\ q = <<>> => Len(Append(q, v)) = 1 /\ Head(Append(q, v)) = v
         /\ \A i \in DOMAIN q : i \in DOMAIN Append(q, v) /\ Append(q, v)[i] = q[i]
         /\ \A i \in DOMAIN Append(q, v) : i \in DOMAIN q \/ i = Len(q) + 1
         /\ Append(q, v)[Len(q) + 1] = v
  <1>1. /\ Append(q, v) \in Seq(S) /\ Append(q, v) # <<>>
        /\ Len(Append(q, v)) = Len(q) + 1 /\ Len(q) \in Nat
        /\ DOMAIN q = 1..Len(q) /\ DOMAIN Append(q, v) = 1..(Len(q) + 1)
        /\ \A i \in 1..Len(q) : Append(q, v)[i] = q[i]
        /\ Append(q, v)[Len(q) + 1] = v
    BY AppendProperties, LenProperties
  <1>2. q = <<>> => Len(Append(q, v)) = 1 /\ Head(Append(q, v)) = v
    BY <1>1, HeadTailProperties, EmptySeq
  <1> QED
    BY <1>1, <1>2 DEF End

\* Sending a value leaves no other to be read.
LEMMA SentIsUnread ==
  ASSUME NEW S, NEW q \in Seq(S), NEW v \in S, NEW w, Has(Append(q, v), w)
  PROVE  w = v \/ Has(q, w)
  <1>1. /\ \A i \in DOMAIN q : Append(q, v)[i] = q[i]
        /\ \A i \in DOMAIN Append(q, v) : i \in DOMAIN q \/ i = Len(q) + 1
        /\ Append(q, v)[Len(q) + 1] = v
    BY Sending
  <1> QED
    BY <1>1 DEF Has

\* A search of the start control waits in the channel.
Waits(q) == \E i \in DOMAIN q : q[i].by = "start"

\* Only one does, and it is r.
Only(q, r) ==
    \A i, j \in DOMAIN q : q[i].by = "start" /\ q[j].by = "start" => i = j /\ q[i] = r

\* The search of another feature is requested.
LEMMA OtherAsks ==
  ASSUME NEW q \in Seq(Request), NEW r \in Request, r.by # "start", NEW own
  PROVE  /\ Waits(Append(q, r)) <=> Waits(q)
         /\ Only(q, own) => Only(Append(q, r), own)
  <1> DEFINE p == Append(q, r)
  <1>1. /\ \A i \in DOMAIN q : i \in DOMAIN p /\ p[i] = q[i]
        /\ \A i \in DOMAIN p : i \in DOMAIN q \/ i = Len(q) + 1
        /\ p[Len(q) + 1] = r
    BY Sending
  <1> HIDE DEF p
  <1>2. Waits(p) <=> Waits(q)
    BY <1>1 DEF Waits
  <1>3. Only(q, own) => Only(p, own)
    BY <1>1 DEF Only
  <1> QED
    BY <1>2, <1>3 DEF p

\* The start control's own search is requested.
LEMMA ControlAsks ==
  ASSUME NEW q \in Seq(Request), NEW r \in Request, ~Waits(q)
  PROVE  Only(Append(q, r), r)
  <1> DEFINE p == Append(q, r)
  <1>1. /\ \A i \in DOMAIN p : i \in DOMAIN q \/ i = Len(q) + 1
        /\ \A i \in DOMAIN q : p[i] = q[i]
        /\ p[Len(q) + 1] = r
    BY Sending
  <1> HIDE DEF p
  <1>2. Only(p, r)
    BY <1>1 DEF Only, Waits
  <1> QED
    BY <1>2 DEF p

\* A request is taken from the channel.
LEMMA Taking ==
  ASSUME NEW q \in Seq(Request), q # <<>>, NEW own, Only(q, own)
  PROVE  /\ Only(Tail(q), own)
         /\ Waits(Tail(q)) => Waits(q) /\ Head(q).by # "start"
         /\ Head(q).by = "start" => Waits(q) /\ Head(q) = own
  <1> DEFINE t == Tail(q)
  <1>1. /\ \A i \in DOMAIN t : i + 1 \in DOMAIN q /\ t[i] = q[i + 1]
        /\ Head(q) = q[1] /\ 1 \in DOMAIN q
    BY Reading
  <1>2. DOMAIN t \subseteq Nat \ {0}
    BY Reading, LenProperties
  <1> HIDE DEF t
  <1>3. \A i, j \in DOMAIN t : t[i].by = "start" /\ t[j].by = "start" => i = j /\ t[i] = own
    <2> SUFFICES ASSUME NEW i \in DOMAIN t, NEW j \in DOMAIN t,
                        t[i].by = "start", t[j].by = "start"
                 PROVE  i = j /\ t[i] = own
      OBVIOUS
    <2>1. i + 1 = j + 1 /\ q[i + 1] = own
      BY <1>1 DEF Only
    <2>2. i \in Nat /\ j \in Nat
      BY <1>2
    <2> QED
      BY <1>1, <2>1, <2>2
  <1>4. Waits(t) => Waits(q) /\ Head(q).by # "start"
    <2> SUFFICES ASSUME NEW i \in DOMAIN t, t[i].by = "start"
                 PROVE  Waits(q) /\ Head(q).by # "start"
      BY DEF Waits
    <2>1. i + 1 \in DOMAIN q /\ q[i + 1].by = "start" /\ i + 1 # 1
      BY <1>1, <1>2
    <2> QED
      BY <1>1, <2>1 DEF Waits, Only
  <1>5. Head(q).by = "start" => Waits(q) /\ Head(q) = own
    BY <1>1 DEF Waits, Only
  <1> QED
    BY <1>3, <1>4, <1>5 DEF t, Only

-----------------------------------------------------------------------------
(* The inductive invariant.                                                *)

\* Of the cylinder, of the power and of the transmission.
Positions == {"LOCK", "OFF", "ACC", "ON", "START"}
Powers == {"OFF", "ACC", "ON", "START"}
Gears == {"PARK", "DRIVE"}

\* The zone in which the key has to be.
Leg == IF source = "Peps" THEN "Cabin" ELSE "Cylinder"

\* The search that the control awaits.
Own == [by |-> "start", scan |-> [legs |-> {Leg}, mode |-> "Authenticated"], reuse |-> FALSE]

\* The types the proofs need; what a finished search left in the cache is of no account.
Typed ==
    /\ source \in {"Peps", "KeyCylinder"} /\ phase \in {"idle", "press", "turn"}
    /\ placed \in [Keys -> Zones] /\ zones \in [Keys -> Zones] /\ snapshot \in [Keys -> Zones]
    /\ zoneQ \in [Keys -> Seq(Zones)]
    /\ known \in [Keys -> SUBSET Zones]
    /\ searchQ \in Seq(Request) /\ search \in Request \cup {None}
    /\ power \in Powers /\ turnTo \in Positions
    /\ cylinderQ \in Seq(Positions) /\ ignitionQ \in Seq(Powers)
    /\ gear \in Gears /\ gearCache \in Gears
    /\ gearQ \in Seq(Gears) /\ selectQ \in Seq(Gears)

\* Buttons are pressed with one source of the key, cylinders turned with the other.
SourceFits ==
    /\ phase = "press" => source = "Peps"
    /\ phase = "turn" => source = "KeyCylinder"

\* The antennas fire for the start control.
Fires == search # None /\ search.by = "start"

\* The control has at most one search, and only while it awaits it.
OneSearch ==
    /\ phase = "idle" => answer = None /\ ~Fires /\ ~Waits(searchQ)
    /\ answer # None => ~Fires /\ ~Waits(searchQ)
    /\ Fires => search = Own /\ ~Waits(searchQ)
    /\ Only(searchQ, Own)

\* What the search may see of a key is known since it was requested, and so what it
\* answers is true of some time since then.
KeysAreKnown ==
    /\ phase # "idle" =>
        \A k \in Keys :
            /\ zones[k] \in known[k]
            /\ \A i \in DOMAIN zoneQ[k] : zoneQ[k][i] \in known[k]
    /\ Fires => \A k \in Keys : snapshot[k] \in known[k]
    /\ answer = {} => \A k \in paired : \E z \in known[k] : z # Leg
    /\ answer # None /\ answer # {} => KeyWasIn(Leg)

\* The invariant of the searches.
SearchInv == SourceFits /\ OneSearch /\ KeysAreKnown /\ paired \subseteq Keys

\* A session was proved, and is not searched for again.
SessionInv ==
    /\ session => source = "KeyCylinder" /\ proof
    /\ phase = "turn" => ~session

\* The lever is moved when the key rests and the key when the lever does, so that neither
\* meets the other's unread values.
Parked ==
    /\ LockedCarIsParked
    /\ IF gearQ = <<>> THEN gearCache = gear ELSE Len(gearQ) = 1 /\ Head(gearQ) = gear
    /\ cylinderQ # <<>> \/ phase = "turn" => selectQ = <<>> /\ gearQ = <<>>
    /\ selectQ # <<>> =>
        Len(selectQ) = 1 /\ source = "KeyCylinder" /\ ignitionQ = <<>> /\ gearQ = <<>>
    /\ IF ignitionQ = <<>> THEN ignitionLive = (power \in {"ON", "START"})
       ELSE End(ignitionQ) = power

-----------------------------------------------------------------------------
(* Types.                                                                  *)

\* What the control and the other features search for are requests.
LEMMA Requests ==
  /\ Own \in Request /\ Own.by = "start" /\ PreAuth \in Request /\ PreAuth.by # "start"
  /\ \A r \in OtherScans : r \in Request /\ r.by # "start"
  <1>1. Leg \in Antennas /\ "Cabin" \in Antennas
    BY DEF Leg, Antennas
  <1>2. ASSUME NEW a \in Antennas
        PROVE  [legs |-> {a}, mode |-> "Authenticated"] \in Scan
    BY DEF Scan
  <1>3. Own \in Request /\ Own.by = "start"
    BY <1>1, <1>2 DEF Own, Request
  <1>4. PreAuth \in Request /\ PreAuth.by # "start"
    BY <1>1, <1>2 DEF PreAuth, Request
  <1>5. \A r \in OtherScans : r \in Request /\ r.by # "start"
    BY StartingAssumption
  <1> QED
    BY <1>3, <1>4, <1>5

\* The search of the control's two branches.
LEMMA OwnSearch ==
  /\ source = "Peps" => (Authenticate("Cabin") <=> Submit(Own))
  /\ source = "KeyCylinder" => (Authenticate("Cylinder") <=> Submit(Own))
  BY DEF Authenticate, Own, Leg

\* A search covers the zone that the control awaits a key in.
LEMMA OwnCoverage == Coverage(Own.scan) = {Leg}
  <1>1. CoverageOf(Leg) = {Leg}
    BY DEF Leg, CoverageOf
  <1>2. Own.scan.legs = {Leg}
    BY DEF Own
  <1> QED
    BY <1>1, <1>2 DEF Coverage

\* Power goes from one position to another, and a change is sent to the transmission.
LEMMA Switching ==
  ASSUME Typed, NEW p \in Powers, Switch(p)
  PROVE  /\ power' \in Powers /\ ignitionQ' \in Seq(Powers)
         /\ power' = p
         /\ IF p = power THEN ignitionQ' = ignitionQ
            ELSE ignitionQ' # <<>> /\ End(ignitionQ') = p
  BY Sending DEF Switch, Typed

\* A press leads to a power position.
LEMMA PressPower == Typed => \A b \in BOOLEAN : AfterPress(b) \in Powers
  BY DEF Typed, AfterPress, CycleNext, Powers

\* A request is sent.
LEMMA Submitting ==
  ASSUME Typed, NEW r \in Request, Submit(r)
  PROVE  searchQ' \in Seq(Request) /\ known' \in [Keys -> SUBSET Zones]
  <1>1. searchQ' \in Seq(Request)
    BY Sending DEF Submit, Typed
  <1>2. ASSUME NEW k \in Keys PROVE Unfinished(k) \subseteq Zones
    <2>1. zoneQ[k] \in Seq(Zones) /\ zones[k] \in Zones
      BY DEF Typed
    <2>2. \A i \in DOMAIN zoneQ[k] : zoneQ[k][i] \in Zones
      BY <2>1, LenProperties
    <2> QED
      BY <2>1, <2>2 DEF Unfinished
  <1>3. known' \in [Keys -> SUBSET Zones]
    BY <1>2 DEF Submit, Typed
  <1> QED
    BY <1>1, <1>3

\* The control's steps.
LEMMA ControlTypes == Typed /\ SourceFits /\ Control => Typed'
  <1> SUFFICES ASSUME Typed, SourceFits, Control PROVE Typed'
    OBVIOUS
  <1> USE DEF keyVars, searchVars, streamVars, gearVars
  <1>1. CASE ReadBrake
    BY <1>1 DEF ReadBrake, Typed
  <1>2. CASE ReadGear
    <2>1. Head(gearQ) \in Gears /\ Tail(gearQ) \in Seq(Gears)
      BY <1>2, Reading DEF ReadGear, Typed
    <2> QED
      BY <1>2, <2>1 DEF ReadGear, Typed
  <1>3. CASE ReadBypass
    BY <1>3 DEF ReadBypass, Typed
  <1>4. CASE ReadNoPress
    BY <1>4 DEF ReadNoPress, NextPress, Typed
  <1>5. CASE PressWithBypass
    <2>1. AfterPress(brakeCache) \in Powers
      BY DEF Typed, AfterPress, CycleNext, Powers
    <2>2. power' \in Powers /\ ignitionQ' \in Seq(Powers)
      BY <1>5, <2>1, Switching DEF PressWithBypass
    <2> QED
      BY <1>5, <2>2 DEF PressWithBypass, NextPress, Typed
  <1>6. CASE PressAndSearch
    <2>1. Submit(Own)
      BY <1>6, OwnSearch DEF PressAndSearch, NextPress
    <2>2. searchQ' \in Seq(Request) /\ known' \in [Keys -> SUBSET Zones]
      BY <2>1, Requests, Submitting
    <2> QED
      BY <1>6, <2>2 DEF PressAndSearch, NextPress, Typed
  <1>7. CASE EndPress
    <2>1. AfterPress(braked) \in Powers
      BY DEF Typed, AfterPress, CycleNext, Powers
    <2>2. power' \in Powers /\ ignitionQ' \in Seq(Powers)
      BY <1>7, <2>1, Switching DEF EndPress, Typed
    <2>3. known' \in [Keys -> SUBSET Zones]
      BY <1>7 DEF EndPress
    <2> QED
      BY <1>7, <2>2, <2>3 DEF EndPress, Typed
  <1>8. CASE RefuseLock
    <2>1. Tail(cylinderQ) \in Seq(Positions) /\ "OFF" \in Positions
      BY <1>8, Reading DEF RefuseLock, NextTurn, Typed, Positions
    <2>2. cylinderQ' \in Seq(Positions)
      BY <1>8, <2>1, Sending DEF RefuseLock
    <2>3. power' \in Powers /\ ignitionQ' \in Seq(Powers)
      BY <1>8, Switching DEF RefuseLock, Powers
    <2> QED
      BY <1>8, <2>2, <2>3 DEF RefuseLock, NextTurn, Typed
  <1>9. CASE TurnToLock
    <2>1. cylinderQ' \in Seq(Positions)
      BY <1>9, Reading DEF TurnToLock, NextTurn, Typed
    <2>2. power' \in Powers /\ ignitionQ' \in Seq(Powers)
      BY <1>9, Switching DEF TurnToLock, Powers
    <2> QED
      BY <1>9, <2>1, <2>2 DEF TurnToLock, NextTurn, Typed
  <1>10. CASE Turn
    <2>1. Head(cylinderQ) \in Positions /\ cylinderQ' \in Seq(Positions)
      BY <1>10, Reading DEF Turn, NextTurn, Typed
    <2>2. ToPower(Head(cylinderQ)) \in Powers
      BY <2>1 DEF ToPower, Positions, Powers
    <2>3. power' \in Powers /\ ignitionQ' \in Seq(Powers)
      BY <1>10, <2>2, Switching DEF Turn
    <2> QED
      BY <1>10, <2>1, <2>3 DEF Turn, NextTurn, Typed
  <1>11. CASE TurnAndSearch
    <2>1. Head(cylinderQ) \in Positions /\ cylinderQ' \in Seq(Positions)
      BY <1>11, Reading DEF TurnAndSearch, NextTurn, Typed
    <2>2. Submit(Own)
      BY <1>11, OwnSearch DEF TurnAndSearch, NextTurn
    <2>3. searchQ' \in Seq(Request) /\ known' \in [Keys -> SUBSET Zones]
      BY <2>2, Requests, Submitting
    <2> QED
      BY <1>11, <2>1, <2>3 DEF TurnAndSearch, NextTurn, Typed
  <1>12. CASE EndTurn
    <2>1. ToPower(turnTo) \in Powers
      BY DEF Typed, ToPower, Positions, Powers
    <2>2. power' \in Powers /\ ignitionQ' \in Seq(Powers)
      BY <1>12, <2>1, Switching DEF EndTurn, Typed
    <2>3. known' \in [Keys -> SUBSET Zones] /\ turnTo' \in Positions
      BY <1>12 DEF EndTurn, Positions
    <2> QED
      BY <1>12, <2>2, <2>3 DEF EndTurn, Typed
  <1>13. CASE SubmitPreAuth
    <2>1. searchQ' \in Seq(Request) /\ known' \in [Keys -> SUBSET Zones]
      BY <1>13, Requests, Submitting DEF SubmitPreAuth
    <2> QED
      BY <1>13, <2>1 DEF SubmitPreAuth, Typed
  <1> QED
    BY <1>1, <1>2, <1>3, <1>4, <1>5, <1>6, <1>7, <1>8, <1>9, <1>10, <1>11, <1>12, <1>13
    DEF Control

\* The searches, the transmission and the driver.
Others ==
    \/ Searching
    \/ Transmission
    \/ TapPress
    \/ Tick
    \/ Driver

\* The others keep the types.
LEMMA OtherTypes == Typed /\ Others => Typed'
  <1> SUFFICES ASSUME Typed, Others PROVE Typed'
    OBVIOUS
  <1> USE DEF keyVars, searchVars, controlVars, streamVars, gearVars, driverVars
  <1>1. ASSUME NEW k \in Keys, SeeZone(k),
               UNCHANGED <<controlVars, streamVars, gearVars, ignitionQ, driverVars>>
        PROVE  Typed'
    <2>1. /\ zoneQ[k] \in Seq(Zones) /\ zoneQ[k] # <<>>
          /\ zones' = [zones EXCEPT ![k] = Head(zoneQ[k])]
          /\ zoneQ' = [zoneQ EXCEPT ![k] = Tail(zoneQ[k])]
      BY <1>1 DEF SeeZone, Typed
    <2>2. Head(zoneQ[k]) \in Zones /\ Tail(zoneQ[k]) \in Seq(Zones)
      BY <2>1, Reading
    <2>3. zones' \in [Keys -> Zones] /\ zoneQ' \in [Keys -> Seq(Zones)]
      BY <2>1, <2>2 DEF Typed
    <2> QED
      BY <1>1, <2>3 DEF SeeZone, Typed
  <1>2. ASSUME Coalesce \/ BeginSearch,
               UNCHANGED <<controlVars, streamVars, gearVars, ignitionQ, driverVars>>
        PROVE  Typed'
    <2>1. Head(searchQ) \in Request /\ Tail(searchQ) \in Seq(Request)
      BY <1>2, Reading DEF Coalesce, BeginSearch, Typed
    <2> QED
      BY <1>2, <2>1 DEF Coalesce, BeginSearch, Typed
  <1>3. ASSUME EndSearch, UNCHANGED <<controlVars, streamVars, gearVars, ignitionQ, driverVars>>
        PROVE  Typed'
    <2>1. snapshot' \in [Keys -> Zones]
      BY <1>3 DEF EndSearch, Zones
    <2> QED
      BY <1>3, <2>1 DEF EndSearch, Typed
  <1>4. CASE Transmission
    <2>1. /\ selectQ # <<>> => Head(selectQ) \in Gears /\ Tail(selectQ) \in Seq(Gears)
          /\ ignitionQ # <<>> => Tail(ignitionQ) \in Seq(Powers)
      BY Reading DEF Typed
    <2>2. \A g \in Gears : Append(gearQ, g) \in Seq(Gears)
      BY Sending DEF Typed
    <2>3. /\ selectQ' \in Seq(Gears) /\ ignitionQ' \in Seq(Powers)
          /\ gear' \in Gears /\ gearQ' \in Seq(Gears)
      BY <1>4, <2>1, <2>2 DEF Transmission, SeePedal, SeeIgnition, Shift, Typed
    <2> QED
      BY <1>4, <2>3 DEF Transmission, Typed
  <1>5. CASE TapPress \/ Tick \/ UseButton \/ UseBrake \/ Tap
    BY <1>5 DEF TapPress, Tick, SearchTick, UseButton, UseBrake, Tap, Typed
  <1>6. ASSUME NEW k \in Keys, NEW z \in Zones, MoveKey(k, z) PROVE Typed'
    <2>1. /\ placed' = [placed EXCEPT ![k] = z]
          /\ zoneQ' = [zoneQ EXCEPT ![k] = Append(zoneQ[k], z)]
          /\ \/ known' = known
             \/ known' = [known EXCEPT ![k] = known[k] \cup {z}]
      BY <1>6 DEF MoveKey
    <2>2. Append(zoneQ[k], z) \in Seq(Zones)
      BY Sending DEF Typed
    <2>3. placed' \in [Keys -> Zones] /\ zoneQ' \in [Keys -> Seq(Zones)]
      BY <2>1, <2>2 DEF Typed
    <2>4. known' \in [Keys -> SUBSET Zones]
      BY <2>1 DEF Typed
    <2> QED
      BY <1>6, <2>3, <2>4 DEF MoveKey, Typed
  <1>7. ASSUME NEW r \in OtherScans, AskSearch(r) PROVE Typed'
    <2>1. searchQ' \in Seq(Request) /\ known' \in [Keys -> SUBSET Zones]
      BY <1>7, Requests, Submitting DEF AskSearch
    <2> QED
      BY <1>7, <2>1 DEF AskSearch, Typed
  <1>8. ASSUME NEW pos \in Positions, TurnKey(pos) PROVE Typed'
    <2>1. cylinderQ' \in Seq(Positions)
      BY <1>8, Sending DEF TurnKey, Typed
    <2> QED
      BY <1>8, <2>1 DEF TurnKey, Typed
  <1>9. ASSUME NEW g \in Gears, MoveLever(g) PROVE Typed'
    <2>1. selectQ' \in Seq(Gears)
      BY <1>9, Sending DEF MoveLever, Typed
    <2> QED
      BY <1>9, <2>1 DEF MoveLever, Typed
  <1> QED
    BY <1>1, <1>2, <1>3, <1>4, <1>5, <1>6, <1>7, <1>8, <1>9
    DEF Others, Searching, Driver, Positions, Gears

-----------------------------------------------------------------------------
(* What a search finds.                                                    *)

\* No step of these concerns the search that the control awaits.
Aside ==
    UNCHANGED <<source, phase, zones, zoneQ, paired, searchQ, search, snapshot, answer, known>>

\* Such a step keeps the invariant of the searches.
LEMMA AsideKeeps == SearchInv /\ Aside => SearchInv'
  BY DEF SearchInv, Aside, SourceFits, OneSearch, KeysAreKnown, Own, Leg, Fires, Waits, Only,
         KeyWasIn

\* The control requests a search.
LEMMA OwnRequest ==
  ASSUME Typed, SearchInv, phase = "idle", Submit(Own),
         phase' = (IF source = "Peps" THEN "press" ELSE "turn"),
         UNCHANGED <<source, zones, zoneQ, paired, search, snapshot, answer>>
  PROVE  SearchInv'
  <1>1. /\ answer = None /\ ~Fires /\ ~Waits(searchQ)
        /\ searchQ' = Append(searchQ, Own) /\ Own' = Own /\ Leg' = Leg
        /\ known' = [k \in Keys |-> Unfinished(k)]
    BY Requests DEF SearchInv, OneSearch, Submit, Own, Leg
  <1>2. Only(searchQ', Own')
    BY <1>1, Requests, ControlAsks DEF Typed
  <1>3. ~Fires'
    BY <1>1 DEF Fires
  <1>4. OneSearch'
    BY <1>1, <1>2, <1>3 DEF OneSearch
  <1>5. KeysAreKnown'
    <2>1. \A k \in Keys :
            /\ zones'[k] \in known'[k]
            /\ \A i \in DOMAIN zoneQ'[k] : zoneQ'[k][i] \in known'[k]
      BY <1>1 DEF Unfinished
    <2>2. answer' = None /\ None # {}
      BY <1>1, SearchAssumption
    <2> QED
      BY <1>3, <2>1, <2>2 DEF KeysAreKnown
  <1>6. SourceFits'
    BY DEF SourceFits, Typed
  <1> QED
    BY <1>4, <1>5, <1>6 DEF SearchInv

\* Another feature requests one.
LEMMA OtherRequest ==
  ASSUME Typed, SearchInv, NEW r \in Request, r.by # "start", Submit(r),
         UNCHANGED <<source, phase, zones, zoneQ, paired, search, snapshot, answer>>
  PROVE  SearchInv'
  <1>1. searchQ' = Append(searchQ, r) /\ known' = known /\ Own' = Own /\ Leg' = Leg
    BY DEF Submit, Own, Leg
  <1>2. (Waits(searchQ') <=> Waits(searchQ)) /\ (Only(searchQ, Own) => Only(searchQ', Own))
    BY <1>1, OtherAsks DEF Typed
  <1>3. OneSearch'
    <2> HIDE DEF Own, Waits, Only
    <2>1. Waits(searchQ)' = Waits(searchQ') /\ Only(searchQ, Own)' = Only(searchQ', Own)
      BY <1>1 DEF Waits, Only
    <2>2. Fires' <=> Fires
      BY DEF Fires
    <2> QED
      BY <1>1, <1>2, <2>1, <2>2 DEF SearchInv, OneSearch
  <1>4. KeysAreKnown'
    BY <1>1 DEF SearchInv, KeysAreKnown, KeyWasIn, Fires
  <1> QED
    BY <1>3, <1>4 DEF SearchInv, SourceFits

\* The control has its answer.
LEMMA AnswerIsTaken ==
  ASSUME Typed, SearchInv, answer # None, answer' = None, phase' = "idle",
         UNCHANGED <<source, zones, zoneQ, paired, searchQ, search, snapshot>>
  PROVE  SearchInv'
  <1>1. ~Fires /\ ~Waits(searchQ) /\ Only(searchQ, Own)
    BY DEF SearchInv, OneSearch
  <1>2. ~Fires' /\ ~Waits(searchQ)' /\ Only(searchQ, Own)' /\ None # {}
    BY <1>1, SearchAssumption DEF Fires, Waits, Only, Own, Leg
  <1> QED
    BY <1>2 DEF SearchInv, SourceFits, OneSearch, KeysAreKnown

\* The arbiter serves the requests in their order.
LEMMA SearchIsServed ==
  ASSUME Typed, SearchInv, Coalesce \/ BeginSearch, UNCHANGED controlVars
  PROVE  SearchInv'
  <1>1. /\ searchQ \in Seq(Request) /\ searchQ # <<>> /\ search = None
        /\ searchQ' = Tail(searchQ)
        /\ Only(searchQ, Own) /\ Own' = Own /\ Leg' = Leg
        /\ UNCHANGED <<source, phase, zones, zoneQ, paired, known>>
    BY DEF Typed, SearchInv, OneSearch, Coalesce, BeginSearch, controlVars, keyVars, Own, Leg
  <1>2. /\ Only(searchQ', Own')
        /\ Waits(searchQ') => Waits(searchQ) /\ Head(searchQ).by # "start"
        /\ Head(searchQ).by = "start" => Waits(searchQ) /\ Head(searchQ) = Own
    BY <1>1, Taking
  <1>3. CASE Coalesce
    <2>1. Head(searchQ).by # "start"
      <3>1. Hits(Own) = {}
        BY DEF Hits, Own
      <3> QED
        BY <1>2, <1>3, <3>1 DEF Coalesce
    <2>2. answer' = answer /\ UNCHANGED <<search, snapshot>>
      BY <1>3, <2>1 DEF Coalesce, Reply
    <2>3. Fires' <=> Fires
      BY <2>2 DEF Fires
    <2>4. OneSearch'
      BY <1>1, <1>2, <2>2, <2>3 DEF SearchInv, OneSearch
    <2>5. KeysAreKnown'
      BY <1>1, <2>2, <2>3 DEF SearchInv, KeysAreKnown, KeyWasIn
    <2> QED
      BY <1>1, <2>4, <2>5 DEF SearchInv, SourceFits
  <1>4. CASE BeginSearch
    <2>1. search' = Head(searchQ) /\ snapshot' = zones /\ answer' = answer
      BY <1>4 DEF BeginSearch
    <2>2. Fires' => Head(searchQ).by = "start"
      BY <2>1 DEF Fires
    <2>3. Waits(searchQ) => phase # "idle" /\ answer = None
      BY DEF SearchInv, OneSearch
    <2>4. OneSearch'
      BY <1>1, <1>2, <2>1, <2>2, <2>3 DEF SearchInv, OneSearch
    <2>5. Fires' => \A k \in Keys : snapshot'[k] \in known'[k]
      BY <1>1, <1>2, <2>1, <2>2, <2>3 DEF SearchInv, KeysAreKnown
    <2>6. KeysAreKnown'
      BY <1>1, <2>1, <2>5 DEF SearchInv, KeysAreKnown, KeyWasIn
    <2> QED
      BY <1>1, <2>4, <2>6 DEF SearchInv, SourceFits
  <1> QED
    BY <1>3, <1>4

\* The antennas have fired: the keys that were found were in the zone when they began to.
LEMMA SearchEnds ==
  ASSUME Typed, SearchInv, EndSearch, UNCHANGED controlVars
  PROVE  SearchInv'
  <1>1. /\ UNCHANGED <<source, phase, zones, zoneQ, paired, searchQ, known>>
        /\ search' = None /\ Own' = Own /\ Leg' = Leg
        /\ answer' = IF Fires THEN Found(search.scan) ELSE answer
    BY DEF EndSearch, Reply, controlVars, keyVars, Fires, Own, Leg
  <1>2. ~Fires'
    BY <1>1 DEF Fires
  <1>3. OneSearch'
    <2>1. Waits(searchQ)' = Waits(searchQ) /\ Only(searchQ, Own)' = Only(searchQ, Own)
      BY <1>1 DEF Waits, Only
    <2>2. Fires => phase # "idle" /\ ~Waits(searchQ)
      BY DEF SearchInv, OneSearch
    <2> QED
      BY <1>1, <1>2, <2>1, <2>2 DEF SearchInv, OneSearch
  <1>4. KeysAreKnown'
    <2>1. CASE ~Fires
      BY <1>1, <1>2, <2>1 DEF SearchInv, KeysAreKnown, KeyWasIn
    <2>2. CASE Fires
      <3>1. answer' = {k \in Keys : snapshot[k] = Leg /\ k \in paired}
        <4>1. search.scan = Own.scan /\ Own.scan.mode = "Authenticated"
          BY <2>2 DEF SearchInv, OneSearch, Own
        <4>2. answer' = Found(Own.scan)
          BY <1>1, <2>2, <4>1
        <4> QED
          BY <4>1, <4>2, OwnCoverage DEF Found
      <3>2. \A k \in Keys : snapshot[k] \in known[k]
        BY <2>2 DEF SearchInv, KeysAreKnown
      <3>3. answer' = {} => \A k \in paired : \E z \in known[k] : z # Leg
        BY <3>1, <3>2 DEF SearchInv
      <3>4. answer' # {} => \E k \in paired : Leg \in known[k]
        BY <3>1, <3>2
      <3> QED
        BY <1>1, <1>2, <3>3, <3>4 DEF SearchInv, KeysAreKnown, KeyWasIn
    <2> QED
      BY <2>1, <2>2
  <1> QED
    BY <1>1, <1>3, <1>4 DEF SearchInv, SourceFits

\* A key is put somewhere, and later seen there.
LEMMA KeysMove ==
  ASSUME Typed, SearchInv, NEW k \in Keys, NEW z \in Zones,
         (SeeZone(k) /\ UNCHANGED controlVars) \/ MoveKey(k, z)
  PROVE  SearchInv'
  <1>1. /\ UNCHANGED <<source, phase, paired, searchQ, search, snapshot, answer>>
        /\ Own' = Own /\ Leg' = Leg
    BY DEF SeeZone, MoveKey, controlVars, Own, Leg
  <1>2. OneSearch'
    BY <1>1 DEF SearchInv, OneSearch, Fires, Waits, Only
  <1>3. \A j \in Keys : known[j] \subseteq known'[j]
    <2>1. known' = known \/ known' = [known EXCEPT ![k] = known[k] \cup {z}]
      BY DEF SeeZone, MoveKey
    <2> QED
      BY <2>1 DEF Typed
  <1>4. ASSUME phase # "idle", NEW j \in Keys
        PROVE  /\ zones'[j] \in known'[j]
               /\ \A i \in DOMAIN zoneQ'[j] : zoneQ'[j][i] \in known'[j]
    <2>1. /\ zones[j] \in known[j]
          /\ \A i \in DOMAIN zoneQ[j] : zoneQ[j][i] \in known[j]
          /\ zoneQ[j] \in Seq(Zones)
      BY <1>4 DEF SearchInv, KeysAreKnown, Typed
    <2>2. CASE j # k
      <3>1. zones'[j] = zones[j] /\ zoneQ'[j] = zoneQ[j]
        BY <2>2 DEF SeeZone, MoveKey, Typed
      <3> QED
        BY <1>3, <2>1, <3>1
    <2>3. CASE j = k /\ SeeZone(k)
      <3>1. /\ zoneQ[j] # <<>> /\ known' = known
            /\ zones'[j] = Head(zoneQ[j]) /\ zoneQ'[j] = Tail(zoneQ[j])
        BY <2>3 DEF SeeZone, Typed
      <3>2. /\ Head(zoneQ[j]) = zoneQ[j][1] /\ 1 \in DOMAIN zoneQ[j]
            /\ \A i \in DOMAIN Tail(zoneQ[j]) :
                  i + 1 \in DOMAIN zoneQ[j] /\ Tail(zoneQ[j])[i] = zoneQ[j][i + 1]
        BY <2>1, <3>1, Reading
      <3> QED
        BY <2>1, <3>1, <3>2
    <2>4. CASE j = k /\ MoveKey(k, z)
      <3>1. zones'[j] = zones[j] /\ zoneQ'[j] = Append(zoneQ[j], z) /\ z \in known'[j]
        BY <1>4, <2>4 DEF MoveKey, Typed
      <3>2. /\ \A i \in DOMAIN Append(zoneQ[j], z) : i \in DOMAIN zoneQ[j] \/ i = Len(zoneQ[j]) + 1
            /\ \A i \in DOMAIN zoneQ[j] : Append(zoneQ[j], z)[i] = zoneQ[j][i]
            /\ Append(zoneQ[j], z)[Len(zoneQ[j]) + 1] = z
        BY <2>1, Sending
      <3> QED
        BY <1>3, <2>1, <3>1, <3>2
    <2> QED
      BY <2>2, <2>3, <2>4
  <1>5. Fires' => \A j \in Keys : snapshot'[j] \in known'[j]
    BY <1>1, <1>3 DEF SearchInv, KeysAreKnown, Fires
  <1>6. /\ answer' = {} => \A j \in paired' : \E y \in known'[j] : y # Leg'
        /\ answer' # None /\ answer' # {} => \E j \in paired' : Leg' \in known'[j]
    BY <1>1, <1>3 DEF SearchInv, KeysAreKnown, KeyWasIn
  <1> QED
    BY <1>1, <1>2, <1>4, <1>5, <1>6 DEF SearchInv, SourceFits, KeysAreKnown, KeyWasIn

\* The control awaits at most one search, which reports what was so since it was requested.
LEMMA SearchIsSound == Typed /\ SearchInv /\ [Next]_vars => SearchInv'
  <1> SUFFICES ASSUME Typed, SearchInv, [Next]_vars PROVE SearchInv'
    OBVIOUS
  <1>2. CASE PressAndSearch \/ TurnAndSearch
    BY <1>2, OwnRequest, OwnSearch
    DEF PressAndSearch, TurnAndSearch, NextPress, NextTurn, keyVars
  <1>3. CASE SubmitPreAuth
    BY <1>3, OtherRequest, Requests DEF SubmitPreAuth, keyVars
  <1>4. ASSUME NEW r \in OtherScans, AskSearch(r) PROVE SearchInv'
    BY <1>4, OtherRequest, Requests DEF AskSearch, keyVars, controlVars
  <1>5. CASE EndPress \/ EndTurn
    BY <1>5, AnswerIsTaken DEF EndPress, EndTurn, keyVars
  <1>6. CASE Searching
    <2>1. UNCHANGED controlVars
      BY <1>6 DEF Searching
    <2>2. CASE Coalesce \/ BeginSearch
      BY <2>1, <2>2, SearchIsServed
    <2>3. CASE EndSearch
      BY <2>1, <2>3, SearchEnds
    <2>4. ASSUME NEW k \in Keys, SeeZone(k) PROVE SearchInv'
      <3>1. "Out" \in Zones
        BY DEF Zones
      <3> QED
        BY <2>1, <2>4, <3>1, KeysMove
    <2> QED
      BY <1>6, <2>2, <2>3, <2>4 DEF Searching
  <1>7. ASSUME NEW k \in Keys, NEW z \in Zones, MoveKey(k, z) PROVE SearchInv'
    BY <1>7, KeysMove
  <1>8. CASE \/ ReadBrake \/ ReadGear \/ ReadBypass \/ ReadNoPress \/ PressWithBypass
             \/ RefuseLock \/ TurnToLock \/ Turn
    <2>1. Aside
      BY <1>8 DEF Aside, ReadBrake, ReadGear, ReadBypass, ReadNoPress, PressWithBypass,
                  RefuseLock, TurnToLock, Turn, NextPress, NextTurn, keyVars, searchVars
    <2> QED
      BY <2>1, AsideKeeps
  <1>9. CASE Transmission \/ TapPress \/ Tick \/ UNCHANGED vars
    <2>1. Aside
      BY <1>9 DEF Aside, Transmission, TapPress, Tick, SearchTick, vars, keyVars, searchVars,
                  controlVars
    <2> QED
      BY <2>1, AsideKeeps
  <1>10. ASSUME NEW pos, NEW g, UseButton \/ UseBrake \/ TurnKey(pos) \/ MoveLever(g) \/ Tap
         PROVE  SearchInv'
    <2>1. Aside
      BY <1>10 DEF Aside, UseButton, UseBrake, TurnKey, MoveLever, Tap, keyVars, searchVars,
                   controlVars
    <2> QED
      BY <2>1, AsideKeeps
  <1> QED
    BY <1>2, <1>3, <1>4, <1>5, <1>6, <1>7, <1>8, <1>9, <1>10 DEF Next, Control, Driver

-----------------------------------------------------------------------------
(* The inductive invariant holds.                                          *)

\* The parts of the invariant about power, the session and the gear are disturbed only by
\* the control, the transmission, the key and the lever.
Elsewhere ==
    UNCHANGED <<source, phase, power, session, proof, gear, gearCache, gearQ, cylinderQ,
                selectQ, ignitionQ, ignitionLive>>

\* A session that is there was proved.
LEMMA SessionIsProved ==
  ASSUME Typed, SearchInv, SessionInv, [Next]_vars
  PROVE  SessionInv'
  <1>1. CASE PressWithBypass \/ PressAndSearch \/ EndPress
    BY <1>1 DEF SessionInv, SearchInv, SourceFits, PressWithBypass, PressAndSearch, EndPress,
                NextPress
  <1>2. CASE RefuseLock \/ TurnToLock \/ Turn \/ TurnAndSearch
    BY <1>2 DEF SessionInv, RefuseLock, TurnToLock, Turn, TurnAndSearch, NextTurn
  <1>3. CASE EndTurn
    BY <1>3 DEF SessionInv, SearchInv, SourceFits, KeysAreKnown, Leg, EndTurn
  <1>4. CASE UNCHANGED <<source, phase, session, proof>>
    BY <1>4 DEF SessionInv
  <1>5. CASE ReadBrake \/ ReadGear \/ ReadBypass \/ ReadNoPress \/ SubmitPreAuth
    <2>1. UNCHANGED <<source, phase, session, proof>>
      BY <1>5 DEF ReadBrake, ReadGear, ReadBypass, ReadNoPress, SubmitPreAuth, NextPress
    <2> QED
      BY <2>1, <1>4
  <1>6. CASE Searching \/ Transmission \/ TapPress \/ Tick \/ Driver \/ UNCHANGED vars
    <2>1. UNCHANGED controlVars
      BY <1>6 DEF Searching, Transmission, TapPress, Tick, Driver, MoveKey, AskSearch,
                  UseButton, UseBrake, TurnKey, MoveLever, Tap, vars
    <2> QED
      BY <2>1, <1>4 DEF controlVars
  <1> QED
    BY <1>1, <1>2, <1>3, <1>5, <1>6 DEF Next, Control

\* The lock is refused out of PARK, and PARK is not left with the ignition off.
LEMMA ParkedStays ==
  ASSUME Typed, SourceFits, SessionInv, Parked, [Next]_vars
  PROVE  Parked'
  <1> USE DEF Parked, LockedCarIsParked
  <1>1. CASE ReadGear
    <2>1. Tail(gearQ) = <<>> /\ gearQ # <<>> /\ gearQ' = Tail(gearQ) /\ gearCache' = gear
      BY <1>1, Reading DEF ReadGear, Typed
    <2>2. /\ UNCHANGED <<source, phase, power, session, gear, cylinderQ, selectQ, ignitionQ>>
          /\ ignitionLive' = ignitionLive
      BY <1>1 DEF ReadGear, gearVars
    <2> QED
      BY <2>1, <2>2 DEF End
  <1>2. CASE PressWithBypass \/ EndPress
    <2>1. source = "Peps" /\ UNCHANGED <<source, session, gear, gearCache, gearQ, cylinderQ,
                                         selectQ, ignitionLive>>
      BY <1>2 DEF PressWithBypass, EndPress, NextPress, SourceFits, gearVars, streamVars
    <2>2. phase # "turn" /\ phase' = "idle"
      BY <1>2 DEF PressWithBypass, EndPress, NextPress
    <2>3. \/ power' = power /\ ignitionQ' = ignitionQ
          \/ ignitionQ' # <<>> /\ End(ignitionQ') = power'
      <3>1. AfterPress(brakeCache) \in Powers /\ AfterPress(braked) \in Powers
        BY DEF Typed, AfterPress, CycleNext, Powers
      <3> QED
        BY <1>2, <3>1, Switching DEF PressWithBypass, EndPress
    <2> QED
      BY <2>1, <2>2, <2>3 DEF End
  <1>3. CASE RefuseLock \/ TurnToLock \/ Turn \/ EndTurn
    <2>1. /\ cylinderQ # <<>> \/ phase = "turn"
          /\ source = "KeyCylinder" /\ phase' = "idle"
          /\ UNCHANGED <<source, gear, gearCache, gearQ, selectQ, ignitionLive>>
      BY <1>3 DEF RefuseLock, TurnToLock, Turn, EndTurn, NextTurn, SourceFits, gearVars, streamVars
    <2>2. selectQ = <<>> /\ gearQ = <<>> /\ gearCache = gear
      BY <2>1
    <2>3. /\ \/ power' = power /\ ignitionQ' = ignitionQ
             \/ ignitionQ' # <<>> /\ End(ignitionQ') = power'
          /\ session' \/ power' = "OFF" \/ (power' = power /\ session' = session)
      <3>1. CASE RefuseLock \/ TurnToLock
        BY <3>1, Switching DEF RefuseLock, TurnToLock, Powers
      <3>2. CASE Turn
        <4>1. ToPower(Head(cylinderQ)) \in Powers
          BY <3>2, Reading DEF Turn, NextTurn, Typed, ToPower, Positions, Powers
        <4> QED
          BY <3>2, <4>1, Switching DEF Turn, ToPower
      <3>3. CASE EndTurn
        <4>1. ToPower(turnTo) \in Powers
          BY DEF Typed, ToPower, Positions, Powers
        <4> QED
          BY <3>3, <4>1, Switching DEF EndTurn
      <3> QED
        BY <1>3, <3>1, <3>2, <3>3
    <2>4. ~session' => gear' = "PARK"
      BY <1>3, <2>1, <2>2 DEF RefuseLock, TurnToLock, Turn, EndTurn
    <2> QED
      BY <2>1, <2>2, <2>3, <2>4 DEF End
  <1>4. CASE PressAndSearch \/ TurnAndSearch
    BY <1>4 DEF PressAndSearch, TurnAndSearch, NextPress, NextTurn, gearVars, End
  <1>5. CASE Transmission
    <2>1. /\ UNCHANGED <<source, phase, power, session, gearCache, cylinderQ>>
      BY <1>5 DEF Transmission, controlVars
    <2>2. CASE SeePedal
      BY <2>1, <2>2 DEF SeePedal, End
    <2>3. CASE SeeIgnition
      <3>1. /\ ignitionQ # <<>> /\ ignitionQ' = Tail(ignitionQ)
            /\ ignitionLive' = (Head(ignitionQ) \in {"ON", "START"})
            /\ UNCHANGED <<gear, selectQ, gearQ>>
        BY <2>3 DEF SeeIgnition
      <3>2. IF ignitionQ' = <<>> THEN Head(ignitionQ) = power ELSE End(ignitionQ') = power
        BY <3>1, Reading DEF Typed
      <3> QED
        BY <2>1, <3>1, <3>2 DEF End
    <2>4. CASE Shift
      <3>1. /\ selectQ # <<>> /\ Len(selectQ) = 1 /\ source = "KeyCylinder"
            /\ ignitionQ = <<>> /\ gearQ = <<>> /\ cylinderQ = <<>> /\ phase # "turn"
            /\ ignitionLive = (power \in {"ON", "START"})
        BY <2>4 DEF Shift
      <3>2. selectQ' = <<>> /\ Head(selectQ) \in Gears
        BY <2>4, <3>1, Reading DEF Shift, Typed
      <3>3. UNCHANGED <<ignitionQ, ignitionLive>>
        BY <2>4 DEF Shift
      <3>4. CASE gear' = gear /\ gearQ' = gearQ
        BY <2>1, <3>1, <3>2, <3>3, <3>4
      <3>5. CASE ~(Head(selectQ) = gear \/ Blocked(Head(selectQ)))
        <4>1. gear' = Head(selectQ) /\ gearQ' = Append(gearQ, gear')
          BY <2>4, <3>5 DEF Shift
        <4>2. gearQ' # <<>> /\ Len(gearQ') = 1 /\ Head(gearQ') = gear'
          BY <3>1, <3>2, <4>1, Sending DEF Typed
        <4>3. session
          <5>1. gear # "PARK" \/ power # "OFF"
            BY <3>1, <3>2, <3>5 DEF Blocked, Typed, Gears
          <5> QED
            BY <3>1, <5>1
        <4> QED
          BY <2>1, <3>1, <3>2, <3>3, <4>2, <4>3
      <3> QED
        BY <2>4, <3>4, <3>5 DEF Shift
    <2> QED
      BY <1>5, <2>2, <2>3, <2>4 DEF Transmission
  <1>6. ASSUME NEW pos \in Positions, TurnKey(pos) PROVE Parked'
    <2>1. /\ source = "KeyCylinder" /\ Calm
          /\ UNCHANGED <<source, phase, power, session, gear, gearCache, gearQ, selectQ,
                         ignitionQ, ignitionLive>>
      BY <1>6 DEF TurnKey, controlVars, gearVars
    <2>2. selectQ = <<>> /\ gearQ = <<>>
      BY <2>1 DEF Calm, ControlCalm, SourceFits, Typed
    <2> QED
      BY <2>1, <2>2 DEF End
  <1>7. ASSUME NEW g \in Gears, MoveLever(g) PROVE Parked'
    <2>1. /\ source = "KeyCylinder" /\ phase = "idle" /\ selectQ = <<>> /\ ignitionQ = <<>>
          /\ gearQ = <<>> /\ cylinderQ = <<>> /\ selectQ' = Append(selectQ, g)
          /\ UNCHANGED <<source, phase, power, session, gear, gearCache, gearQ, cylinderQ,
                         ignitionQ, ignitionLive>>
      BY <1>7 DEF MoveLever, Calm, ControlCalm, controlVars, streamVars
    <2>2. Len(selectQ') = 1
      BY <2>1, Sending DEF Typed
    <2> QED
      BY <2>1, <2>2
  <1>8. CASE Elsewhere
    BY <1>8 DEF Elsewhere, End
  <1>9. CASE \/ ReadBrake \/ ReadBypass \/ ReadNoPress \/ SubmitPreAuth \/ Searching
             \/ TapPress \/ Tick \/ UNCHANGED vars
    <2>1. Elsewhere
      BY <1>9 DEF Elsewhere, ReadBrake, ReadBypass, ReadNoPress, SubmitPreAuth, Searching,
                  TapPress, Tick, NextPress, vars, controlVars, streamVars, gearVars
    <2> QED
      BY <2>1, <1>8
  <1>10. ASSUME NEW k, NEW z, NEW r,
                MoveKey(k, z) \/ AskSearch(r) \/ UseButton \/ UseBrake \/ Tap
         PROVE  Parked'
    <2>1. Elsewhere
      BY <1>10 DEF Elsewhere, MoveKey, AskSearch, UseButton, UseBrake, Tap, controlVars,
                   streamVars, gearVars
    <2> QED
      BY <2>1, <1>8
  <1> QED
    BY <1>1, <1>2, <1>3, <1>4, <1>5, <1>6, <1>7, <1>9, <1>10
    DEF Next, Control, Driver, Positions, Gears

\* The inductive invariant.
IInv == Typed /\ SearchInv /\ SessionInv /\ Parked

\* Every step keeps the invariant.
LEMMA IInvHolds == Spec => []IInv
  <1>1. Init => IInv
    <2> SUFFICES ASSUME Init PROVE IInv
      OBVIOUS
    <2>1. Typed
      <3>1. /\ source \in Sources /\ source \in {"Peps", "KeyCylinder"}
            /\ Places[source] \subseteq Zones
        BY StartingAssumption DEF Init
      <3>2. placed \in [Keys -> Zones] /\ zones = placed
        BY <3>1 DEF Init
      <3>3. /\ snapshot \in [Keys -> Zones] /\ known \in [Keys -> SUBSET Zones]
            /\ zoneQ \in [Keys -> Seq(Zones)]
        BY EmptySeq DEF Init, Zones
      <3>4. \A S : <<>> \in Seq(S)
        BY EmptySeq
      <3> QED
        BY <3>1, <3>2, <3>3, <3>4 DEF Init, Typed, Powers, Positions, Gears
    <2>2. SearchInv
      <3>1. \A r : ~Waits(<<>>) /\ Only(<<>>, r)
        BY EmptySeq DEF Waits, Only
      <3>2. ~Waits(searchQ) /\ Only(searchQ, Own)
        BY <3>1 DEF Init
      <3>3. None # {}
        BY SearchAssumption
      <3> QED
        BY <3>2, <3>3 DEF Init, SearchInv, SourceFits, OneSearch, KeysAreKnown, Fires
    <2>3. SessionInv
      BY DEF Init, SessionInv
    <2>4. Parked
      <3>1. ignitionLive = (power \in {"ON", "START"})
        <4>1. (power \in {"ON", "START"}) = FALSE
          <5>1. ~(power \in {"ON", "START"})
            BY DEF Init
          <5> QED
            BY <5>1
        <4>2. ignitionLive = FALSE
          BY DEF Init
        <4> QED
          BY <4>1, <4>2
      <3> QED
        BY <3>1 DEF Init, Parked, LockedCarIsParked
    <2> QED
      BY <2>1, <2>2, <2>3, <2>4 DEF IInv
  <1>2. IInv /\ [Next]_vars => IInv'
    <2> SUFFICES ASSUME IInv, [Next]_vars PROVE IInv'
      OBVIOUS
    <2>1. Typed'
      <3>1. CASE UNCHANGED vars
        BY <3>1 DEF IInv, Typed, vars, keyVars, searchVars, controlVars, streamVars, gearVars
      <3> QED
        BY <3>1, ControlTypes, OtherTypes DEF IInv, SearchInv, Next, Others
    <2> QED
      BY <2>1, SearchIsSound, SessionIsProved, ParkedStays DEF IInv, SearchInv
  <1> QED
    BY <1>1, <1>2, PTL DEF Spec

-----------------------------------------------------------------------------
(* Theorems.                                                               *)

\* A car with an ignition cylinder that has no authenticated session is off and in PARK.
THEOREM LockedIsParked == Spec => []LockedCarIsParked
  <1>1. IInv => LockedCarIsParked
    BY DEF IInv, Parked
  <1> QED
    BY <1>1, IInvHolds, PTL

\* A search of the start control fails only if no paired key stayed in the zone from the
\* request to the answer, whatever other features searched for meanwhile.
THEOREM NoKeyMissed == Spec => NoKeyIsOverlooked
  <1>1. IInv /\ [Next]_vars =>
          [phase # "idle" /\ immobilizer' = "FAILED" /\ immobilizer # "FAILED" =>
              \A k \in paired : known[k] # {IF phase = "press" THEN "Cabin" ELSE "Cylinder"}]_vars
    <2> SUFFICES ASSUME IInv, [Next]_vars, phase # "idle",
                        immobilizer' = "FAILED", immobilizer # "FAILED"
                 PROVE  \A k \in paired :
                            known[k] # {IF phase = "press" THEN "Cabin" ELSE "Cylinder"}
      OBVIOUS
    <2>1. EndPress \/ EndTurn
      BY DEF Next, vars, Control, ReadBrake, ReadGear, ReadBypass, NextPress, ReadNoPress,
             PressWithBypass, PressAndSearch, NextTurn, RefuseLock, TurnToLock, Turn,
             TurnAndSearch, SubmitPreAuth, Searching, Transmission, TapPress, Tick, Driver,
             MoveKey, AskSearch, UseButton, UseBrake, TurnKey, MoveLever, Tap, controlVars
    <2>2. answer = {}
      BY <2>1 DEF EndPress, EndTurn
    <2>3. \A k \in paired : \E z \in known[k] : z # Leg
      BY <2>2 DEF IInv, SearchInv, KeysAreKnown
    <2>4. Leg = IF phase = "press" THEN "Cabin" ELSE "Cylinder"
      BY DEF IInv, SearchInv, SourceFits, Typed, Leg
    <2> QED
      BY <2>3, <2>4
  <1> QED
    BY <1>1, IInvHolds, PTL DEF Spec, NoKeyIsOverlooked

-----------------------------------------------------------------------------
(* Taps.                                                                   *)

\* No search lasts until a tap that was made meanwhile is over: while the control awaits
\* one, the task of a tap whose bypass it has still to read runs.
SearchesAreShort == phase = "press" /\ Has(bypassQ, TRUE) => taps # {} \/ tapping

\* A bypass that is read or will be is that of a recent tap, and its end is read at last.
TapInv ==
    source = "Peps" =>
        /\ bypass \in BOOLEAN /\ bypassQ \in Seq(BOOLEAN)
        /\ phase = "press" => ~bypass
        /\ taps = {} /\ ~tapping => IF bypassQ = <<>> THEN ~bypass ELSE ~End(bypassQ)
        /\ bypass \/ Has(bypassQ, TRUE) => TapIsRecent

\* The clock ends taps.
LEMMA TapsEnd ==
  ASSUME Typed, SearchInv, TapInv, SearchesAreShort, Tick
  PROVE  TapInv'
  <1> SUFFICES ASSUME source = "Peps" PROVE TapInv'
    BY DEF TapInv, Tick, controlVars
  <1> DEFINE over == Aged(BypassTicks)
  <1>1. /\ UNCHANGED <<source, phase, bypass, tapping>>
        /\ bypassQ' = IF over THEN Append(bypassQ, FALSE) ELSE bypassQ
        /\ taps' = TapTick \ {BypassTicks} /\ lapsed' = over
        /\ ~tapping /\ (phase = "idle" => bypassQ = <<>>)
    BY DEF Tick, TapsAge, Quiet, controlVars
  <1>2. taps # {} => taps' # {} \/ over
    BY <1>1 DEF TapTick, Aged
  <1>3. taps = {} => ~over
    BY DEF TapTick, Aged
  <1>4. /\ bypass \in BOOLEAN /\ bypassQ \in Seq(BOOLEAN)
        /\ phase = "press" => ~bypass
        /\ taps = {} => IF bypassQ = <<>> THEN ~bypass ELSE ~End(bypassQ)
    BY <1>1 DEF TapInv
  <1>5. phase \in {"idle", "press"}
    BY DEF Typed, SearchInv, SourceFits
  <1> HIDE DEF over
  <1>6. /\ bypassQ' \in Seq(BOOLEAN)
        /\ over => bypassQ' # <<>> /\ ~End(bypassQ')
        /\ Has(bypassQ', TRUE) => Has(bypassQ, TRUE)
    <2>1. CASE over
      <3>1. bypassQ' = Append(bypassQ, FALSE)
        BY <1>1, <2>1
      <3>2. bypassQ \in Seq(BOOLEAN) /\ FALSE \in BOOLEAN
        BY <1>4
      <3>3. /\ Append(bypassQ, FALSE) \in Seq(BOOLEAN) /\ Append(bypassQ, FALSE) # <<>>
            /\ End(Append(bypassQ, FALSE)) = FALSE
        <4>1. ASSUME NEW v \in BOOLEAN
              PROVE  /\ Append(bypassQ, v) \in Seq(BOOLEAN) /\ Append(bypassQ, v) # <<>>
                     /\ End(Append(bypassQ, v)) = v
          BY <3>2, Sending
        <4> QED
          BY <4>1, Zenon
      <3>4. Has(Append(bypassQ, FALSE), TRUE) => Has(bypassQ, TRUE)
        <4> SUFFICES ASSUME Has(Append(bypassQ, FALSE), TRUE) PROVE Has(bypassQ, TRUE)
          OBVIOUS
        <4>1. TRUE = FALSE \/ Has(bypassQ, TRUE)
          BY <3>2, SentIsUnread, Zenon
        <4> QED
          BY <4>1
      <3> QED
        BY <3>1, <3>3, <3>4
    <2> QED
      BY <1>1, <1>4, <2>1
  <1>7. taps' = {} => IF bypassQ' = <<>> THEN ~bypass ELSE ~End(bypassQ')
    BY <1>1, <1>2, <1>4, <1>6
  <1>8. bypass \/ Has(bypassQ', TRUE) => taps' # {} \/ over
    <2>1. CASE phase = "idle"
      <3>1. ~Has(bypassQ, TRUE)
        BY <1>1, <2>1, EmptySeq DEF Has
      <3> QED
        BY <1>1, <1>2, <1>4, <1>6, <2>1, <3>1
    <2>2. CASE phase = "press"
      BY <1>1, <1>2, <1>4, <1>6, <2>2 DEF SearchesAreShort
    <2> QED
      BY <1>5, <2>1, <2>2
  <1> QED
    BY <1>1, <1>4, <1>6, <1>7, <1>8 DEF TapInv, TapIsRecent

\* Every step keeps the invariant of the taps, if searches are short.
LEMMA TapsAreFollowed ==
  ASSUME Typed, SearchInv, TapInv, SearchesAreShort, [Next]_vars
  PROVE  TapInv'
  <1>1. CASE ReadBypass
    <2> SUFFICES ASSUME source = "Peps" PROVE TapInv'
      BY <1>1 DEF TapInv, ReadBypass
    <2>1. /\ bypassQ # <<>> /\ bypassQ' = Tail(bypassQ) /\ bypass' = Head(bypassQ)
          /\ phase = "idle" /\ UNCHANGED <<source, phase, taps, tapping, lapsed>>
      BY <1>1 DEF ReadBypass, tapVars
    <2>2. bypassQ \in Seq(BOOLEAN)
      BY DEF TapInv
    <2>3. /\ Head(bypassQ) \in BOOLEAN /\ Tail(bypassQ) \in Seq(BOOLEAN)
          /\ IF Tail(bypassQ) = <<>> THEN End(bypassQ) = Head(bypassQ)
             ELSE End(Tail(bypassQ)) = End(bypassQ)
          /\ 1 \in DOMAIN bypassQ /\ Head(bypassQ) = bypassQ[1]
          /\ \A i \in DOMAIN Tail(bypassQ) :
                i + 1 \in DOMAIN bypassQ /\ Tail(bypassQ)[i] = bypassQ[i + 1]
      BY <2>1, <2>2, Reading
    <2>4. Head(bypassQ) \/ Has(Tail(bypassQ), TRUE) => Has(bypassQ, TRUE)
      BY <2>3 DEF Has
    <2> QED
      BY <2>1, <2>3, <2>4 DEF TapInv, TapIsRecent
  <1>2. CASE Tap
    <2>1. /\ bypassQ' = Append(bypassQ, TRUE) /\ tapping' = TRUE
          /\ UNCHANGED <<source, phase, bypass, taps, lapsed>> /\ source = "Peps"
      BY <1>2 DEF Tap, controlVars
    <2>2. bypassQ' \in Seq(BOOLEAN)
      BY <2>1, Sending DEF TapInv
    <2> QED
      BY <2>1, <2>2 DEF TapInv, TapIsRecent
  <1>3. CASE TapPress
    BY <1>3 DEF TapPress, TapInv, TapIsRecent, controlVars
  <1>4. CASE Tick
    BY <1>4, TapsEnd
  <1>5. CASE PressAndSearch
    BY <1>5 DEF PressAndSearch, NextPress, TapInv, TapIsRecent, tapVars
  <1>6. CASE TurnAndSearch \/ RefuseLock \/ TurnToLock \/ Turn
    BY <1>6 DEF TurnAndSearch, RefuseLock, TurnToLock, Turn, NextTurn, TapInv
  <1>7. CASE EndPress \/ EndTurn
    BY <1>7 DEF EndPress, EndTurn, TapInv, TapIsRecent, tapVars, streamVars
  <1>8. CASE UNCHANGED <<source, phase, bypass, bypassQ, taps, tapping, lapsed>>
    BY <1>8 DEF TapInv, TapIsRecent
  <1>9. CASE ReadBrake \/ ReadGear \/ ReadNoPress \/ PressWithBypass \/ SubmitPreAuth
    <2>1. UNCHANGED <<source, phase, bypass, bypassQ, taps, tapping, lapsed>>
      BY <1>9 DEF ReadBrake, ReadGear, ReadNoPress, PressWithBypass, SubmitPreAuth, NextPress,
                  tapVars, streamVars
    <2> QED
      BY <2>1, <1>8
  <1>10. CASE Searching \/ Transmission \/ UNCHANGED vars
    <2>1. UNCHANGED <<source, phase, bypass, bypassQ, taps, tapping, lapsed>>
      BY <1>10 DEF Searching, Transmission, vars, controlVars, streamVars, tapVars
    <2> QED
      BY <2>1, <1>8
  <1>11. CASE Driver
    <2>1. CASE \E r \in OtherScans : AskSearch(r)
      <3>1. UNCHANGED <<source, phase, bypass, bypassQ, taps, tapping, lapsed>>
        BY <2>1 DEF AskSearch, controlVars, streamVars, tapVars
      <3> QED
        BY <3>1, <1>8
    <2>2. CASE \E k \in Keys, z \in Zones : MoveKey(k, z)
      <3>1. UNCHANGED <<source, phase, bypass, bypassQ, taps, tapping, lapsed>>
        BY <2>2 DEF MoveKey, controlVars, streamVars, tapVars
      <3> QED
        BY <3>1, <1>8
    <2>3. CASE \/ UseButton
               \/ UseBrake
               \/ \E pos \in Positions : TurnKey(pos)
               \/ \E g \in Gears : MoveLever(g)
      <3>1. UNCHANGED <<source, phase, bypass, bypassQ, taps, tapping, lapsed>>
        BY <2>3 DEF UseButton, UseBrake, TurnKey, MoveLever, controlVars, tapVars, streamVars
      <3> QED
        BY <3>1, <1>8
    <2> QED
      BY <1>2, <1>11, <2>1, <2>2, <2>3 DEF Driver, Positions, Gears
  <1> QED
    BY <1>1, <1>2, <1>3, <1>4, <1>5, <1>6, <1>7, <1>9, <1>10, <1>11 DEF Next, Control

\* Where no search lasts until a tap that was made meanwhile is over, the car leaves OFF only
\* if a paired key was in the zone since the search for it was requested, or in a session
\* that began so, or while a tap's bypass runs or has just ended.
THEOREM PowerIsProved == Spec /\ []SearchesAreShort => NoPowerWithoutKey
  <1>1. Init => TapInv
    <2> SUFFICES ASSUME Init PROVE TapInv
      OBVIOUS
    <2>1. <<>> \in Seq(BOOLEAN) /\ ~Has(<<>>, TRUE)
      BY EmptySeq DEF Has
    <2>2. /\ bypass = FALSE /\ bypassQ = <<>> /\ phase = "idle"
      BY DEF Init
    <2> QED
      BY <2>1, <2>2 DEF TapInv
  <1>2. IInv /\ TapInv /\ SearchesAreShort /\ [Next]_vars => TapInv'
    BY TapsAreFollowed DEF IInv
  <1>3. IInv /\ TapInv /\ [Next]_vars => [power = "OFF" /\ power' # "OFF" => proof']_vars
    <2> SUFFICES ASSUME IInv, TapInv, [Next]_vars, power = "OFF", power' # "OFF"
                 PROVE  proof'
      OBVIOUS
    <2>1. PressWithBypass \/ EndPress \/ RefuseLock \/ TurnToLock \/ Turn \/ EndTurn
      BY DEF Next, vars, Control, ReadBrake, ReadGear, ReadBypass, NextPress, ReadNoPress,
             PressAndSearch, NextTurn, TurnAndSearch, SubmitPreAuth, Searching, Transmission,
             TapPress, Tick, Driver, MoveKey, AskSearch, UseButton, UseBrake, TurnKey,
             MoveLever, Tap, controlVars
    <2>2. CASE PressWithBypass
      BY <2>2 DEF PressWithBypass, NextPress, TapInv
    <2>3. CASE EndPress \/ EndTurn
      <3>1. answer # None /\ answer # {} /\ KeyWasIn(Leg)
        BY <2>3 DEF EndPress, EndTurn, IInv, SearchInv, KeysAreKnown
      <3>2. EndPress => Leg = "Cabin"
        BY DEF EndPress, IInv, SearchInv, SourceFits, Leg
      <3>3. EndTurn => Leg = "Cylinder"
        BY DEF EndTurn, IInv, SearchInv, SourceFits, Leg
      <3> QED
        BY <2>3, <3>1, <3>2, <3>3 DEF EndPress, EndTurn
    <2>4. CASE RefuseLock \/ TurnToLock
      BY <2>4 DEF RefuseLock, TurnToLock, Switch
    <2>5. CASE Turn
      BY <2>5 DEF Turn, Switch, ToPower, IInv, SessionInv
    <2> QED
      BY <2>1, <2>2, <2>3, <2>4, <2>5
  <1> QED
    BY <1>1, <1>2, <1>3, IInvHolds, PTL DEF Spec, NoPowerWithoutKey
=============================================================================
