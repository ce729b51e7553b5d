--------------------------- MODULE Features_proofs ---------------------------
(***************************************************************************)
(* Proofs about Features, for every team.  Two views of a step carry them. *)
(* By Local, a task changes its own variables alone, asks for searches and *)
(* takes answers of its own and orders under its own name: with it what is *)
(* known of one task and of the searches is kept by all the others.  By    *)
(* Mute, a step leaves some of the signals that only tasks publish, the    *)
(* claims on them and the queues of those who hear them as they are: with  *)
(* it what is known of one publisher and its hearers is kept by the rest.  *)
(* Each property then has an invariant about the one to three tasks that   *)
(* it names, and one lemma for each of their steps: here those about       *)
(* searches and lamps, in FeatureTasks_proofs the others.                  *)
(***************************************************************************)
EXTENDS Features, FiniteSetTheorems, FunctionTheorems, TLAPS

-----------------------------------------------------------------------------
(* Sequences.                                                              *)

\* s is a sequence, of whatever.
IsSeq(s) == \E X : s \in Seq(X)

\* A function on the first numbers is a sequence.
LEMMA FunctionIsSeq ==
  ASSUME NEW n \in Nat, NEW f, f = [i \in 1..n |-> f[i]]
  PROVE  IsSeq(f)
<1> DEFINE X == {f[i] : i \in 1..n}
<1>1. f \in [1..n -> X]
  OBVIOUS
<1>2. f \in Seq(X)
  BY <1>1
<1> QED
  BY <1>2 DEF IsSeq

\* What IsSeq says of the places of a sequence.
LEMMA SeqPlaces ==
  ASSUME NEW s, IsSeq(s)
  PROVE  Len(s) \in Nat /\ DOMAIN s = 1..Len(s)
<1>1. PICK X : s \in Seq(X)
  BY DEF IsSeq
<1> QED
  BY <1>1

\* The empty sequence.
LEMMA NothingIsSeq == IsSeq(<<>>)
<1>1. <<>> \in Seq({})
  OBVIOUS
<1> QED
  BY <1>1 DEF IsSeq

\* Append adds one place at the end.
LEMMA AppendPlaces ==
  ASSUME NEW s, NEW e, IsSeq(s)
  PROVE  /\ IsSeq(Append(s, e))
         /\ Len(Append(s, e)) = Len(s) + 1
         /\ \A i \in DOMAIN s : Append(s, e)[i] = s[i]
         /\ Append(s, e)[Len(s) + 1] = e
<1>1. PICK X : s \in Seq(X)
  BY DEF IsSeq
<1>2. DEFINE Y == X \cup {e}
<1>3. s \in Seq(Y) /\ e \in Y
  BY <1>1
<1>4. Append(s, e) \in Seq(Y)
  BY <1>3
<1> QED
  BY <1>3, <1>4 DEF IsSeq

\* Tail drops the first place.
LEMMA TailPlaces ==
  ASSUME NEW s, IsSeq(s), s # <<>>
  PROVE  /\ IsSeq(Tail(s))
         /\ Len(Tail(s)) = Len(s) - 1
         /\ Len(s) > 0
         /\ \A i \in DOMAIN Tail(s) : i + 1 \in DOMAIN s /\ Tail(s)[i] = s[i + 1]
<1>1. PICK X : s \in Seq(X)
  BY DEF IsSeq
<1>2. Tail(s) \in Seq(X) /\ Len(s) > 0
  BY <1>1
<1> QED
  BY <1>1, <1>2 DEF IsSeq

\* RemoveAt drops place i, the later ones move up.
LEMMA RemovedPlaces ==
  ASSUME NEW s, IsSeq(s), NEW i \in DOMAIN s
  PROVE  /\ IsSeq(RemoveAt(s, i))
         /\ Len(RemoveAt(s, i)) = Len(s) - 1
         /\ \A j \in 1..(Len(s) - 1) :
                RemoveAt(s, i)[j] = IF j < i THEN s[j] ELSE s[j + 1]
<1>1. PICK X : s \in Seq(X)
  BY DEF IsSeq
<1>2. i \in 1..Len(s)
  BY <1>1
<1> DEFINE a == SubSeq(s, 1, i - 1)
           b == SubSeq(s, i + 1, Len(s))
<1>3. a \in Seq(X) /\ Len(a) = i - 1 /\ \A j \in 1..(i - 1) : a[j] = s[j]
  BY <1>1, <1>2
<1>4. b \in Seq(X) /\ Len(b) = Len(s) - i /\ \A j \in 1..(Len(s) - i) : b[j] = s[i + j]
  BY <1>1, <1>2
<1> HIDE DEF a, b
<1>5. a \o b \in Seq(X) /\ Len(a \o b) = Len(s) - 1
  BY <1>1, <1>2, <1>3, <1>4
<1>6. \A j \in 1..(Len(s) - 1) : (a \o b)[j] = IF j < i THEN s[j] ELSE s[j + 1]
  <2> SUFFICES ASSUME NEW j \in 1..(Len(s) - 1)
               PROVE  (a \o b)[j] = IF j < i THEN s[j] ELSE s[j + 1]
    OBVIOUS
  <2>1. CASE j < i
    BY <1>1, <1>2, <1>3, <1>4, <2>1
  <2>2. CASE ~(j < i)
    <3>1. j - (i - 1) \in 1..(Len(s) - i) /\ i + (j - (i - 1)) = j + 1
      BY <1>1, <1>2, <2>2
    <3>2. (a \o b)[j] = b[j - (i - 1)]
      BY <1>1, <1>2, <1>3, <1>4, <2>2
    <3> QED
      BY <3>1, <3>2, <1>4, <2>2
  <2> QED
    BY <2>1, <2>2
<1>7. RemoveAt(s, i) = a \o b
  BY DEF RemoveAt, a, b
<1> QED
  BY <1>5, <1>6, <1>7 DEF IsSeq

-----------------------------------------------------------------------------
(* The world as every step keeps it.                                       *)

\* The fields of the world.
WorldFields ==
  {"team", "budget", "orders", "stage", "searches", "snapshot", "recent", "placed", "observed",
   "known", "sent", "heard", "claims", "saved"}

\* The fields of a search.
SearchFields == {"by", "legs", "found", "age"}

\* The histories, one of each asking task that runs.
SinceShape ==
  /\ DOMAIN world.known = DOMAIN mem \cap Askers
  /\ \A t \in DOMAIN world.known : DOMAIN world.known[t] = Keys

\* The searches are of these tasks, and only the warning awaits more than one.
SearchShape ==
  /\ IsSeq(world.searches)
  /\ \A i \in DOMAIN world.searches :
        /\ DOMAIN world.searches[i] = SearchFields
        /\ world.searches[i].by \in DOMAIN world.known
  /\ \A i, j \in DOMAIN world.searches :
        world.searches[i].by = world.searches[j].by /\ i # j => world.searches[i].by = "lost"

\* The form of the world.
Shape ==
  /\ DOMAIN world = WorldFields
  /\ world.team \in DOMAIN Teams
  /\ DOMAIN world.saved = {"roof", "folded", "intent", "hood"}
  /\ DOMAIN world.placed = Keys
  /\ IsSeq(world.orders)
  /\ SinceShape
  /\ SearchShape

-----------------------------------------------------------------------------
(* What a step may do to the searches and to the orders.                   *)

\* Nothing but their age and the last result changes.
SameSearches ==
  /\ world'.searches = world.searches
  /\ world'.known = world.known
  /\ world'.snapshot = world.snapshot
  /\ world'.recent = world.recent
  /\ world'.placed = world.placed

\* Task t asks for a search with these legs.
Asks(t, legs) ==
  /\ t \in Askers \cap DOMAIN mem
  /\ t = "lost" \/ \A i \in DOMAIN world.searches : world.searches[i].by # t
  /\ world'.searches =
        Append(world.searches, [by |-> t, legs |-> legs, found |-> None, age |-> 0])
  /\ world'.known =
        [world.known EXCEPT ![t] =
            [k \in Keys |-> {world.placed[k]} \cup (IF t = "lost" THEN @[k] ELSE {})]]
  /\ world'.snapshot = world.snapshot
  /\ world'.recent = world.recent
  /\ world'.placed = world.placed

\* Task t takes an answer of its own.
Takes(t) ==
  /\ \E i \in Answers(t) : world'.searches = RemoveAt(world.searches, i)
  /\ world'.known = world.known
  /\ world'.snapshot = world.snapshot
  /\ world'.recent = world.recent
  /\ world'.placed = world.placed

\* The orders stay or grow by one of who.
OrdersAs(who) ==
  \/ world'.orders = world.orders
  \/ \E c : world'.orders = Append(world.orders, [by |-> who, command |-> c])

\* A fob is pressed.
Pressed == \E f \in Fobs, r \in Team.radio : Radio(f, r[1], r[2])

\* The rest of the world that a property below is about.
SameRest ==
  /\ DOMAIN world' = WorldFields
  /\ world'.team = world.team
  /\ DOMAIN world'.saved = {"roof", "folded", "intent", "hood"}
  /\ world'.saved.roof = world.saved.roof
  /\ world'.heard = world.heard
  /\ world'.sent = world.sent \/ Pressed

\* The ways in which a task's step changes the world.
LEMMA WorldForms ==
  ASSUME Shape
  PROVE  /\ UNCHANGED world => SameSearches /\ SameRest /\ \A who : OrdersAs(who)
         /\ \A t, legs :
              Ask(t, legs) /\ t \in Askers \cap DOMAIN mem /\ (t = "lost" \/ t \notin Waiting)
                => Asks(t, legs) /\ SameRest /\ \A who : OrdersAs(who)
         /\ \A who, c : Order(who, c) => SameSearches /\ SameRest /\ OrdersAs(who)
         /\ \A who, c : world' = Ordered(world, who, c)
                => SameSearches /\ SameRest /\ OrdersAs(who)
         /\ \A t : \A i \in Answers(t) : world' = Taken(world, i)
                => Takes(t) /\ SameRest /\ \A who : OrdersAs(who)
         /\ \A t, who, c : \A i \in Answers(t) : world' = Ordered(Taken(world, i), who, c)
                => Takes(t) /\ SameRest /\ OrdersAs(who)
<1> USE DEF Shape, WorldFields, SameRest
<1>1. UNCHANGED world => SameSearches /\ SameRest /\ \A who : OrdersAs(who)
  BY DEF SameSearches, OrdersAs
<1>2. ASSUME NEW t \in Askers \cap DOMAIN mem, NEW legs, Ask(t, legs),
             t = "lost" \/ t \notin Waiting
      PROVE  Asks(t, legs) /\ SameRest /\ \A who : OrdersAs(who)
  <2>1. t = "lost" \/ \A i \in DOMAIN world.searches : world.searches[i].by # t
    BY <1>2 DEF Waiting
  <2>2. world' = Asked(world, t, legs)
    BY <1>2 DEF Ask
  <2>3. /\ world'.snapshot = world.snapshot
        /\ world'.recent = world.recent
        /\ world'.placed = world.placed
        /\ world'.orders = world.orders
        /\ world'.saved = world.saved
        /\ world'.heard = world.heard
        /\ world'.sent = world.sent
        /\ world'.team = world.team
        /\ DOMAIN world' = WorldFields
    BY <2>2 DEF Asked
  <2>4. world'.searches =
            Append(world.searches, [by |-> t, legs |-> legs, found |-> None, age |-> 0])
    BY <2>2 DEF Asked
  <2>5. world'.known =
            [world.known EXCEPT ![t] =
                [k \in Keys |-> {world.placed[k]} \cup (IF t = "lost" THEN @[k] ELSE {})]]
    BY <2>2 DEF Asked
  <2> QED
    BY <2>1, <2>3, <2>4, <2>5 DEF Asks, OrdersAs
<1>3. \A who, c : world' = Ordered(world, who, c) => SameSearches /\ SameRest /\ OrdersAs(who)
  BY DEF Ordered, SameSearches, OrdersAs
<1>4. \A who, c : Order(who, c) => SameSearches /\ SameRest /\ OrdersAs(who)
  BY <1>3 DEF Order
<1>5. \A t : \A i \in Answers(t) : world' = Taken(world, i)
                => Takes(t) /\ SameRest /\ \A who : OrdersAs(who)
  BY DEF Taken, Takes, OrdersAs
<1>6. ASSUME NEW t, NEW who, NEW c, NEW i \in Answers(t), world' = Ordered(Taken(world, i), who, c)
      PROVE  Takes(t) /\ SameRest /\ OrdersAs(who)
  BY <1>6 DEF Taken, Ordered, Takes, OrdersAs
<1> QED
  BY <1>1, <1>2, <1>3, <1>4, <1>5, <1>6

-----------------------------------------------------------------------------
(* A step of a task changes that task's variables alone, asks or takes for *)
(* itself, and orders under a name of its own.                             *)

\* Of the tasks' variables only those of t change.
Only(t) ==
  /\ DOMAIN mem' = DOMAIN mem
  /\ \A u \in DOMAIN mem \ {t} : mem'[u] = mem[u]

\* The two requestors that a property below is about.
Watched == {"WalkAwayLock", "PassiveEntry"}

\* The world changes as a step of t changes it.
WorldLocal(t) ==
  /\ SameRest
  /\ SameSearches \/ (\E legs : Asks(t, legs)) \/ Takes(t)
  /\ \E who : who \notin Watched /\ OrdersAs(who)

\* The orders a step that is nobody's leaves.
OrdersLocal ==
  \/ world'.orders = world.orders
  \/ world.orders # <<>> /\ world'.orders = Tail(world.orders)
  \/ \E who : who \notin Watched /\ OrdersAs(who)

\* Both: the step is t's and nobody watches it.
Local(t) == Only(t) /\ WorldLocal(t)

\* How a task goes on.
LEMMA StepForms ==
  /\ \A t, m, news : Act(t, m, news) => Only(t)
  /\ \A t, s, m, news : React(t, s, m, news) => Only(t)
  /\ \A t, m, news, rs : ActClaiming(t, m, news, rs) => Only(t)
  /\ \A t, s, m, news, rs : ReactClaiming(t, s, m, news, rs) => Only(t)
  /\ \A t, s : Keeps(t, s) => Only(t) /\ UNCHANGED world
  /\ \A t, s : Passes(t, s) => Only(t) /\ UNCHANGED world
  /\ \A t : UNCHANGED mem => Only(t)
  BY DEF Only, Act, React, ActClaiming, ReactClaiming, Keeps, Passes

\* Who reads runs and does not wait.
LEMMA Readers ==
  /\ \A t, s : Reads(t, s) => t \in DOMAIN mem /\ t \notin Waiting
  /\ \A t, order, s : ReadsInTurn(t, order, s) => t \in DOMAIN mem /\ t \notin Waiting
  /\ \A t, s : Has(t, s) => t \in DOMAIN mem
  /\ \A t, n : Due(t, n) => t \in DOMAIN mem
  BY DEF Reads, ReadsInTurn, Has, Due, Runs

\* What it does to the world then.
LEMMA LocalForms ==
  ASSUME Shape
  PROVE  /\ UNCHANGED world => \A t : WorldLocal(t)
         /\ \A t, legs :
              Ask(t, legs) /\ t \in Askers \cap DOMAIN mem /\ (t = "lost" \/ t \notin Waiting)
                => WorldLocal(t)
         /\ \A who, c, t : Order(who, c) /\ who \notin Watched => WorldLocal(t)
         /\ \A t : \A i \in Answers(t) : world' = Taken(world, i) => WorldLocal(t)
         /\ \A t, who, c : \A i \in Answers(t) :
                world' = Ordered(Taken(world, i), who, c) /\ who \notin Watched => WorldLocal(t)
<1>1. "" \notin Watched
  BY DEF Watched
<1> QED
  BY WorldForms, <1>1 DEF WorldLocal

\* Requests change the claims.
LEMMA ClaimingIsLocal ==
  ASSUME Shape
  PROVE  /\ \A t, m, news, rs : ActClaiming(t, m, news, rs) => Local(t)
         /\ \A t, s, m, news, rs : ReactClaiming(t, s, m, news, rs) => Local(t)
<1>1. \A queues, news, rs, t : Requesting(queues, news, rs) => WorldLocal(t)
  BY DEF Requesting, WorldLocal, SameSearches, SameRest, OrdersAs, Shape, WorldFields, Watched
<1> QED
  BY <1>1, StepForms DEF ActClaiming, ReactClaiming, Local

-----------------------------------------------------------------------------
(* The tasks that search for keys.                                         *)

\* SmartUnlock.
LEMMA SmartIsLocal == ASSUME Shape, Smart PROVE Local("smart")
  BY StepForms, Readers, LocalForms
  DEF Local, Watched, Askers, Smart, SmartKeeps, SmartEvent, SmartDecides, Resumes

\* The trunk's pop.
LEMMA PopIsLocal == ASSUME Shape, Pop PROVE Local("pop")
  BY StepForms, Readers, LocalForms
  DEF Local, Watched, Askers, Pop, PopKeeps, PopTrunk, PopEvent, PopDecides, Resumes

\* The keypad.
LEMMA PadIsLocal == ASSUME Shape, Pad PROVE Local("pad")
<1>1. ASSUME NEW s \in Pads, PadHears(s) PROVE Local("pad")
  BY <1>1, StepForms, LocalForms DEF Local, PadHears
<1>2. CASE PadHeld
  BY <1>2, StepForms, Readers, LocalForms DEF Local, Askers, PadHeld
<1>3. ASSUME NEW i \in Answers("pad"), PadDecides(i) PROVE Local("pad")
  BY <1>3, StepForms, LocalForms DEF Local, Watched, PadDecides
<1> QED
  BY <1>1, <1>2, <1>3 DEF Pad

\* The start button.
LEMMA ButtonIsLocal == ASSUME Shape, Button PROVE Local("button")
  BY StepForms, Readers, LocalForms
  DEF Local, Watched, Askers, Button, ButtonKeeps, ButtonPress, ButtonDecides, Resumes

\* The lost-key warning.
LEMMA LostIsLocal == ASSUME Shape, Lost PROVE Local("lost")
  BY StepForms, Readers, LocalForms
  DEF Local, Watched, Askers, Lost, LostHearsPower, LostHearsOpening, LostScan, LostPeriod,
      LostMisses, LostResult, LostExpires, Runs

-----------------------------------------------------------------------------
(* The other tasks of the lock features.                                   *)

\* The keys' plant.
LEMMA PepsIsLocal == ASSUME Shape, PepsStep PROVE Local("peps")
  BY StepForms, LocalForms
  DEF Local, PepsStep, PepsHearsZone, PepsHearsButton, PepsHearsChallenge

\* SlamLock.
LEMMA SlamIsLocal == ASSUME Shape, Slam PROVE Local("slam")
<1>1. ASSUME NEW s, NEW c, Inverts(s, c) PROVE Local("slam")
  BY <1>1, StepForms, LocalForms DEF Local, Inverts
<1>2. ASSUME NEW s, SlamKeeps(s) PROVE Local("slam")
  BY <1>2, StepForms, LocalForms DEF Local, SlamKeeps
<1>3. ASSUME NEW side, SlamHearsLock(side) PROVE Local("slam")
  BY <1>1, <1>3, StepForms, LocalForms DEF Local, SlamHearsLock
<1>4. CASE SlamHearsEvent
  BY <1>1, <1>4, StepForms, LocalForms DEF Local, SlamHearsEvent
<1>5. CASE SlamUnlocks
  BY <1>5, StepForms, LocalForms DEF Local, Watched, SlamUnlocks
<1> QED
  BY <1>2, <1>3, <1>4, <1>5 DEF Slam

\* The trim buttons.
LEMMA TrimIsLocal == ASSUME Shape, Trim PROVE Local("trim")
  BY StepForms, LocalForms
  DEF Local, Watched, Trim, TrimKeeps, TrimHearsLock, TrimHearsUnlock, Dispatches

\* The NFC readers.
LEMMA NfcIsLocal == ASSUME Shape, Nfc PROVE Local("nfc")
  BY StepForms, LocalForms
  DEF Local, Watched, Nfc, NfcKeeps, NfcHears, NfcLetsGo, NfcEndsBypass, Taps

\* The double-lock release.
LEMMA ReleaseIsLocal == ASSUME Shape, ReleaseHears PROVE Local("release")
  BY StepForms, LocalForms DEF Local, ReleaseHears

\* The authenticator.
LEMMA AuthIsLocal == ASSUME Shape, AuthHears PROVE Local("auth")
  BY StepForms, LocalForms DEF Local, AuthHears

\* The trunk.
LEMMA TrunkIsLocal == ASSUME Shape, NEW s, MoveTrunk(s) PROVE Local("trunk")
  BY StepForms, LocalForms DEF Local, MoveTrunk

-----------------------------------------------------------------------------
(* The lights.                                                             *)

\* The indicators' relay.
LEMMA RelayIsLocal ==
  ASSUME Shape, NEW side, RelayHears(side) \/ RelayHearsDefect(side) \/ RelayTicks(side)
  PROVE  Local("relay")
  BY StepForms, LocalForms DEF Local, RelayHears, RelayHearsDefect, RelayTicks

\* The turn indicators.
LEMMA TurnIsLocal ==
  ASSUME Shape, NEW side, TurnHearsStalk \/ TurnHearsPower \/ TurnHearsLamp(side)
  PROVE  Local("turn")
  BY ClaimingIsLocal DEF TurnHearsStalk, TurnHearsPower, TurnHearsLamp

\* The hazard warning.
LEMMA HazardIsLocal == ASSUME Shape, HazardHears PROVE Local("hazard")
  BY ClaimingIsLocal DEF HazardHears

\* LockFeedback.
LEMMA FlashIsLocal ==
  ASSUME Shape, NEW s, NEW i,
         FlashHearsFeedback \/ FlashHearsTrunk \/ FlashKeeps(s) \/ FlashPlays \/ FlashSilences(i)
  PROVE  Local("flash")
  BY ClaimingIsLocal, StepForms, LocalForms
  DEF Local, FlashHearsFeedback, FlashHearsTrunk, FlashKeeps, FlashPlays, FlashSilences

\* Welcome.
LEMMA WelcomeIsLocal == ASSUME Shape, Welcome PROVE Local("welcome")
<1>1. ASSUME NEW k, WelcomeHearsZone(k) PROVE Local("welcome")
  BY <1>1, ClaimingIsLocal DEF WelcomeHearsZone
<1>2. CASE WelcomeHearsPower
  BY <1>2, ClaimingIsLocal DEF WelcomeHearsPower
<1>3. CASE WelcomeHearsDoor
  BY <1>3, ClaimingIsLocal DEF WelcomeHearsDoor
<1>4. CASE WelcomeExpires
  BY <1>4, ClaimingIsLocal DEF WelcomeExpires
<1>5. CASE WelcomePolls
  BY <1>5, StepForms, Readers, LocalForms DEF Local, Askers, WelcomePolls
<1>6. CASE WelcomeCounts
  BY <1>6, StepForms, LocalForms DEF Local, WelcomeCounts
<1> QED
  BY <1>1, <1>2, <1>3, <1>4, <1>5, <1>6 DEF Welcome

\* Farewell.
LEMMA FarewellIsLocal == ASSUME Shape, Farewell PROVE Local("farewell")
  BY ClaimingIsLocal
  DEF Farewell, FarewellHearsPower, FarewellHearsLock, FarewellHearsDoor, FarewellExpires

\* FollowMeHome.
LEMMA HomeIsLocal == ASSUME Shape, Home PROVE Local("home")
  BY ClaimingIsLocal, StepForms, LocalForms
  DEF Local, Home, HomeHearsPower, HomeHearsDoor, HomeExpires

\* The dome light.
LEMMA DomeIsLocal == ASSUME Shape, NEW s, DomeStarts \/ DomeHears(s) PROVE Local("dome")
  BY ClaimingIsLocal DEF DomeStarts, DomeHears

\* The high-beam assistant.
LEMMA AssistIsLocal == ASSUME Shape, NEW s, AssistHears(s) PROVE Local("assist")
  BY ClaimingIsLocal DEF AssistHears

\* The beams.
LEMMA BeamsIsLocal == ASSUME Shape, NEW s, BeamsHear(s) PROVE Local("beams")
  BY ClaimingIsLocal DEF BeamsHear

\* The automatic beams.
LEMMA AutoBeamIsLocal == ASSUME Shape, AutoBeamHears PROVE Local("autoBeam")
  BY ClaimingIsLocal DEF AutoBeamHears, ClaimsWhile

\* The horn.
LEMMA HonkIsLocal == ASSUME Shape, HonkHears PROVE Local("honk")
  BY ClaimingIsLocal DEF HonkHears, ClaimsWhile

\* The fog lamps.
LEMMA FogIsLocal == ASSUME Shape, NEW s, FogHears(s) PROVE Local("fog")
  BY StepForms, LocalForms DEF Local, FogHears

\* The rear lamps.
LEMMA RearLampsIsLocal == ASSUME Shape, NEW s, RearLampsHear(s) PROVE Local("rearLamps")
  BY StepForms, LocalForms DEF Local, RearLampsHear

\* The accessory power.
LEMMA AccessoryIsLocal ==
  ASSUME Shape, NEW s, AccessoryHears(s) \/ AccessoryExpires PROVE Local("accessory")
  BY StepForms, LocalForms DEF Local, AccessoryHears, AccessoryExpires

\* The tasks that only copy what they hear.
LEMMA CopiesIsLocal ==
  ASSUME Shape
  PROVE  /\ Sounder => Local("sounder")
         /\ Led => Local("led")
         /\ DayNight => Local("dayNight")
         /\ Brake => Local("brake")
  BY SMTT(30), StepForms, LocalForms DEF Local, Copies, Sounder, Led, DayNight, Brake

-----------------------------------------------------------------------------
(* What opens and moves.                                                   *)

\* PowerWindow.
LEMMA WindowIsLocal ==
  ASSUME Shape, NEW src,
         \/ WindowFindsStuck
         \/ WindowHearsDetent(src)
         \/ WindowHearsPosition
         \/ WindowHearsChildLock
         \/ WindowHearsPower
  PROVE  Local("window")
  BY ClaimingIsLocal, StepForms, LocalForms
  DEF Local, WindowGoesOn, WindowFindsStuck, WindowHearsDetent, WindowHearsPosition,
      WindowHearsChildLock, WindowHearsPower

\* The window's plant.
LEMMA GlassIsLocal == ASSUME Shape, GlassHears \/ GlassMoves PROVE Local("glass")
  BY StepForms, LocalForms DEF Local, GlassHears, GlassMoves

\* The roof's switch.
LEMMA RoofSwitchIsLocal ==
  ASSUME Shape, NEW p, RoofSwitchHears \/ RoofSwitchSees(p) PROVE Local("roofSwitch")
  BY StepForms, LocalForms DEF Local, RoofSwitchHears, RoofSwitchSees, RoofSwitchGoesOn

\* A file is written, but for the roof's.
LEMMA SavingIsLocal ==
  ASSUME Shape, NEW v,
         \/ world' = [world EXCEPT !.saved.intent = v]
         \/ world' = [world EXCEPT !.saved.folded = v]
         \/ world' = [world EXCEPT !.saved.hood = v]
  PROVE  \A t : WorldLocal(t)
  BY DEF WorldLocal, SameSearches, SameRest, OrdersAs, Shape, WorldFields, Watched

\* The folding of the mirrors.
LEMMA FoldIsLocal ==
  ASSUME Shape, NEW side, FoldHearsSwitch \/ FoldHearsLock \/ FoldSees(side) PROVE Local("fold")
<1>1. ASSUME NEW s, NEW m, NEW target, Folds(s, m, target) PROVE Local("fold")
  BY <1>1, StepForms, SavingIsLocal DEF Local, Folds
<1> QED
  BY <1>1, StepForms, LocalForms DEF Local, FoldHearsSwitch, FoldHearsLock, FoldSees

\* The mirrors' plant.
LEMMA MirrorsIsLocal ==
  ASSUME Shape, NEW side, MirrorHears(side) \/ MirrorSettles(side) PROVE Local("mirrors")
  BY StepForms, LocalForms, SavingIsLocal DEF Local, MirrorHears, MirrorSettles

\* The mirrors' adjustment.
LEMMA AdjustIsLocal == ASSUME Shape, NEW s, AdjustHears(s) PROVE Local("adjust")
  BY StepForms, LocalForms DEF Local, AdjustHears

\* The plant of the adjustment.
LEMMA AimIsLocal == ASSUME Shape, NEW side, AimHears(side) \/ AimMoves PROVE Local("aim")
  BY StepForms, LocalForms DEF Local, AimHears, AimMoves

\* A door's handles.
LEMMA DoorIsLocal ==
  ASSUME Shape, NEW s,
         \/ DoorHearsLock \/ DoorKeeps(s) \/ DoorSeesOpen \/ DoorHearsInside
         \/ DoorHearsOutside \/ DoorHearsSoldier \/ DoorHearsClose
  PROVE  Local("door")
  BY StepForms, LocalForms
  DEF Local, DoorGoesOn, DoorHearsLock, DoorKeeps, DoorSeesOpen, DoorHearsInside,
      DoorHearsOutside, DoorHearsSoldier, DoorHearsClose

\* The locks' plant.
LEMMA LocksIsLocal == ASSUME Shape, NEW s, LocksHearCommand \/ LocksSee(s) PROVE Local("locks")
  BY StepForms, LocalForms DEF Local, LocksHearCommand, LocksSee

\* The child lock.
LEMMA ChildPowerIsLocal == ASSUME Shape, ChildPowerHears PROVE Local("childPower")
  BY StepForms, LocalForms DEF Local, ChildPowerHears

\* The hood.
LEMMA HoodIsLocal == ASSUME Shape, NEW s, HoodHears(s) \/ HoodForgetsPull PROVE Local("hood")
<1>1. ASSUME NEW latch, HoodMoves(s, latch) PROVE Local("hood")
  BY <1>1, StepForms, SavingIsLocal DEF Local, HoodMoves
<1> QED
  BY <1>1, StepForms, LocalForms DEF Local, HoodHears, HoodForgetsPull

-----------------------------------------------------------------------------
(* The tasks that a property below is about.                               *)

\* WalkAwayLock asks about the interior, and orders when it has its answer.
LEMMA WalkForms ==
  ASSUME Shape, Walk
  PROVE  /\ Only("walk")
         /\ SameRest
         /\ \/ SameSearches /\ world'.orders = world.orders
            \/ Asks("walk", InteriorLegs) /\ world'.orders = world.orders
            \/ \E i \in Answers("walk") :
                  /\ Takes("walk")
                  /\ OrdersAs("WalkAwayLock")
                  /\ world'.orders = world.orders \/ world.searches[i].found = <<>>
<1>1. CASE WalkHearsOpening
  BY <1>1, StepForms, WorldForms DEF WalkHearsOpening, OrdersAs, Keeps
<1>2. ASSUME NEW k \in Keys, WalkHearsKey(k)
      PROVE  /\ Only("walk")
             /\ SameRest
             /\ \/ SameSearches /\ world'.orders = world.orders
                \/ Asks("walk", InteriorLegs) /\ world'.orders = world.orders
  <2>1. Only("walk") /\ "walk" \in Askers \cap DOMAIN mem /\ "walk" \notin Waiting
    BY <1>2, StepForms, Readers DEF WalkHearsKey, Askers
  <2>2. CASE UNCHANGED world
    BY <2>1, <2>2, WorldForms
  <2>3. CASE Ask("walk", InteriorLegs)
    <3>1. world'.orders = world.orders
      BY <2>3 DEF Ask, Asked, Shape, WorldFields
    <3> QED
      BY <2>1, <2>3, <3>1, WorldForms
  <2> QED
    BY <1>2, <2>2, <2>3 DEF WalkHearsKey
<1>3. ASSUME NEW i \in Answers("walk"), WalkDecides(i)
      PROVE  /\ Only("walk")
             /\ SameRest
             /\ Takes("walk")
             /\ OrdersAs("WalkAwayLock")
             /\ world'.orders = world.orders \/ world.searches[i].found = <<>>
  <2>1. Only("walk")
    BY <1>3, StepForms DEF WalkDecides
  <2>2. CASE world.searches[i].found # <<>>
    <3>1. world' = Taken(world, i)
      BY <1>3, <2>2 DEF WalkDecides
    <3>2. world'.orders = world.orders
      BY <3>1 DEF Taken, Shape, WorldFields
    <3> QED
      BY <2>1, <3>1, <3>2, WorldForms
  <2>3. CASE world.searches[i].found = <<>>
    <3>1. world' = Ordered(Taken(world, i), "WalkAwayLock", "LockAll")
      BY <1>3, <2>3 DEF WalkDecides
    <3> QED
      BY <2>1, <2>3, <3>1, WorldForms
  <2> QED
    BY <2>2, <2>3
<1> QED
  BY <1>1, <1>2, <1>3 DEF Walk

\* PassiveEntry orders with its own name only.
LEMMA PassiveForms ==
  ASSUME Shape, PassiveStep
  PROVE  /\ Only("passive")
         /\ SameRest
         /\ SameSearches \/ (\E legs : Asks("passive", legs)) \/ Takes("passive")
         /\ OrdersAs("PassiveEntry")
<1>1. ASSUME NEW d, PassiveHearsHandle(d)
      PROVE  /\ Only("passive")
             /\ SameRest
             /\ SameSearches \/ (\E legs : Asks("passive", legs))
             /\ OrdersAs("PassiveEntry")
  <2>1. Only("passive") /\ "passive" \in Askers \cap DOMAIN mem /\ "passive" \notin Waiting
    BY <1>1, StepForms, Readers DEF PassiveHearsHandle, PassiveReads, Askers
  <2> QED
    BY <1>1, <2>1, WorldForms DEF PassiveHearsHandle
<1>2. ASSUME NEW k, PassiveHearsZone(k)
      PROVE  Only("passive") /\ UNCHANGED world
  BY <1>2, StepForms DEF PassiveHearsZone
<1>3. ASSUME PassiveHearsStatus \/ PassiveGivesUp \/ PassiveForgets
      PROVE  Only("passive") /\ UNCHANGED world
  BY <1>3, StepForms DEF PassiveHearsStatus, PassiveGivesUp, PassiveForgets
<1>4. ASSUME NEW k, PassiveUnlocks(k)
      PROVE  Only("passive") /\ SameSearches /\ SameRest /\ OrdersAs("PassiveEntry")
  BY <1>4, StepForms, WorldForms DEF PassiveUnlocks
<1>5. ASSUME NEW i \in Answers("passive"), PassiveChallenges(i)
      PROVE  Only("passive") /\ Takes("passive") /\ SameRest /\ OrdersAs("PassiveEntry")
  BY <1>5, StepForms, WorldForms DEF PassiveChallenges
<1> QED
  BY <1>1, <1>2, <1>3, <1>4, <1>5, WorldForms DEF PassiveStep

\* Rke keeps what it has heard.
LEMMA RkeForms ==
  ASSUME Shape, RkeStep
  PROVE  /\ Only("rke")
         /\ DOMAIN world' = WorldFields
         /\ world'.team = world.team
         /\ world'.saved = world.saved
         /\ world'.sent = world.sent
         /\ SameSearches
         /\ OrdersAs("KeyfobRke")
<1>1. ASSUME NEW f, RkeHears(f)
      PROVE  /\ Only("rke")
             /\ \E w : /\ \E c : w = [world EXCEPT !.heard[f] = c]
                       /\ world' = w \/ \E o : world' = Ordered(w, "KeyfobRke", o)
  BY <1>1, StepForms DEF RkeHears
<1>2. ASSUME RkeExpires PROVE Only("rke") /\ UNCHANGED world
  BY <1>2, StepForms DEF RkeExpires
<1>3. ASSUME NEW f, NEW c, NEW w, w = [world EXCEPT !.heard[f] = c],
             world' = w \/ \E o : world' = Ordered(w, "KeyfobRke", o)
      PROVE  /\ DOMAIN world' = WorldFields
             /\ world'.team = world.team
             /\ world'.saved = world.saved
             /\ world'.sent = world.sent
             /\ SameSearches
             /\ OrdersAs("KeyfobRke")
  BY <1>3 DEF Ordered, SameSearches, OrdersAs, Shape, WorldFields
<1>4. UNCHANGED world
      => /\ DOMAIN world' = WorldFields
         /\ world'.team = world.team
         /\ world'.saved = world.saved
         /\ world'.sent = world.sent
         /\ SameSearches
         /\ OrdersAs("KeyfobRke")
  BY DEF SameSearches, OrdersAs, Shape
<1> QED
  BY <1>1, <1>2, <1>3, <1>4 DEF RkeStep

\* The roof writes its file.
LEMMA RoofForms ==
  ASSUME Shape, NEW p, RoofMoves \/ RoofHears(p)
  PROVE  /\ Only("roof")
         /\ DOMAIN world' = WorldFields
         /\ world'.team = world.team
         /\ world'.heard = world.heard
         /\ world'.sent = world.sent
         /\ DOMAIN world'.saved = DOMAIN world.saved
         /\ SameSearches
         /\ world'.orders = world.orders
<1>1. Only("roof") /\ (UNCHANGED world \/ \E m : world' = SavesRoof(m))
  BY StepForms DEF RoofMoves, RoofHears
<1> QED
  BY <1>1 DEF SavesRoof, SameSearches, Shape, WorldFields

-----------------------------------------------------------------------------
(* What happens around the tasks.                                          *)

\* The searches are served.
SearchServed == BeginSearch \/ EndSearch \/ Coalesce

\* A key moves.
KeyMoves == \E m \in Team.moves : MoveKey(m[1], m[2])

\* Service and movement leave the rest of the world.
LEMMA ServedForms ==
  ASSUME Shape, SearchServed \/ KeyMoves
  PROVE  UNCHANGED mem /\ SameRest /\ world'.orders = world.orders
  BY DEF SearchServed, KeyMoves, BeginSearch, EndSearch, Coalesce, MoveKey, SameRest, Shape,
         WorldFields

\* What else happens around a team.
LEMMA AroundForms ==
  ASSUME Shape, PublishOrder \/ EntryHappens
  PROVE  KeyMoves \/ (UNCHANGED mem /\ SameRest /\ SameSearches /\ OrdersLocal)
<1> USE DEF Shape, WorldFields, SameRest, SameSearches
<1>1. CASE PublishOrder
  BY Zenon, <1>1 DEF PublishOrder, OrdersLocal
<1>2. ASSUME NEW s, NEW v, Happens(s, v)
      PROVE  UNCHANGED mem /\ SameRest /\ SameSearches /\ world'.orders = world.orders
  BY <1>2 DEF Happens
<1>3. ASSUME NEW o \in Team.orders, OrderElsewhere(o[1], o[2])
      PROVE  UNCHANGED mem /\ SameRest /\ SameSearches /\ OrdersLocal
  <2>1. o[1] \notin Watched
    BY TeamsAssumption DEF Watched, Team
  <2>2. UNCHANGED mem /\ SameRest /\ SameSearches /\ OrdersAs(o[1])
    BY <1>3 DEF OrderElsewhere, Ordered, OrdersAs
  <2> QED
    BY <2>1, <2>2 DEF OrdersLocal
<1>4. CASE Poll
  BY <1>4 DEF Poll, OrdersLocal
<1>5. ASSUME NEW f \in Fobs, NEW r \in Team.radio, Radio(f, r[1], r[2])
      PROVE  UNCHANGED mem /\ SameRest /\ SameSearches /\ world'.orders = world.orders
  <2>1. Pressed
    BY <1>5 DEF Pressed
  <2> QED
    BY <1>5, <2>1 DEF Radio
<1>6. ASSUME NEW f, RadioRepeats(f)
      PROVE  UNCHANGED mem /\ SameRest /\ SameSearches /\ world'.orders = world.orders
  BY <1>6 DEF RadioRepeats
<1> QED
  BY <1>1, <1>2, <1>3, <1>4, <1>5, <1>6 DEF EntryHappens, KeyMoves, OrdersLocal

\* Time makes the searches older and what has just been found old.
LEMMA TimeForms ==
  ASSUME Shape, TimePasses
  PROVE  /\ DOMAIN mem' = DOMAIN mem
         /\ \A t \in DOMAIN mem : mem'[t] = [mem[t] EXCEPT !.timer = Passed(@)]
         /\ SameRest
         /\ world'.orders = world.orders
         /\ world'.searches = Aged(world.searches)
         /\ world'.known = world.known
         /\ world'.snapshot = world.snapshot
         /\ world'.placed = world.placed
         /\ world'.recent = None
<1>1. mem' = [t \in DOMAIN mem |-> [mem[t] EXCEPT !.timer = Passed(@)]]
  BY DEF TimePasses, Tick
<1>2. world' = [world EXCEPT !.searches = Aged(@), !.recent = None]
  BY DEF TimePasses
<1>3. /\ SameRest
      /\ world'.orders = world.orders
      /\ world'.known = world.known
      /\ world'.snapshot = world.snapshot
      /\ world'.placed = world.placed
      /\ world'.recent = None
  BY <1>2 DEF SameRest, Shape, WorldFields
<1>4. world'.searches = Aged(world.searches)
  BY <1>2 DEF Shape, WorldFields
<1>5. /\ DOMAIN mem' = DOMAIN mem
      /\ \A t \in DOMAIN mem : mem'[t] = [mem[t] EXCEPT !.timer = Passed(@)]
  BY <1>1
<1> QED
  BY <1>3, <1>4, <1>5

\* A restart leaves the world but for the claims.
LEMMA RebootForms ==
  ASSUME Shape, Reboots
  PROVE  /\ DOMAIN mem' = DOMAIN mem
         /\ DOMAIN mem \subseteq ComfortTasks
         /\ SameRest
         /\ SameSearches
         /\ world'.orders = world.orders
<1>1. /\ DOMAIN mem \subseteq ComfortTasks
      /\ world' = [world EXCEPT !.budget = @ - 1, !.claims = [s \in Claimable |-> <<>>]]
  BY DEF Reboots
<1>2. \E b : mem' = [t \in DOMAIN mem |-> ComfortTask(t, b, world.saved).mem]
  BY Zenon DEF Reboots
<1>3. DOMAIN mem' = DOMAIN mem
  BY <1>2
<1>4. SameRest /\ SameSearches /\ world'.orders = world.orders
  BY <1>1 DEF SameRest, SameSearches, Shape, WorldFields
<1> QED
  BY <1>1, <1>3, <1>4

-----------------------------------------------------------------------------
(* The steps, by what they may touch.                                      *)

\* The indicators' relay.
RelayStep == \E side \in Sides : RelayHears(side) \/ RelayHearsDefect(side) \/ RelayTicks(side)

\* LockFeedback.
FlashStep ==
  \/ FlashHearsFeedback \/ FlashHearsTrunk \/ FlashPlays
  \/ \E s \in {"locked", "open"} : FlashKeeps(s)
  \/ Runs("flash") /\ \E i \in DOMAIN mem["flash"].sounds : FlashSilences(i)

\* PowerWindow.
WindowStep ==
  \/ WindowFindsStuck
  \/ \E src \in Sources : WindowHearsDetent(src)
  \/ WindowHearsPosition
  \/ WindowHearsChildLock
  \/ WindowHearsPower

\* The roof's switch.
RoofSwitchStep == RoofSwitchHears \/ \E p \in Panels : RoofSwitchSees(p)

\* The roof's plant.
MotorsStep == RoofMoves \/ \E p \in Panels : RoofHears(p)

\* A step of the handle plant of the rear door, and one of its lock.
DoorStep ==
  \/ DoorHearsLock \/ (\E s \in {"double", "child"} : DoorKeeps(s)) \/ DoorSeesOpen
  \/ DoorHearsInside \/ DoorHearsOutside \/ DoorHearsSoldier \/ DoorHearsClose

LocksStep == LocksHearCommand \/ \E s \in {"isLocked", "double"} : LocksSee(s)

\* The other tasks; of these only the last property below is about two, the plants of the
\* rear door.
Others ==
  {"smart", "pop", "pad", "button", "slam", "trim", "nfc", "release", "auth", "trunk",
   "turn", "hazard", "welcome", "farewell", "home", "dome", "assist", "beams",
   "autoBeam", "honk", "fog", "rearLamps", "accessory", "sounder", "led", "dayNight", "brake",
   "glass", "fold", "mirrors", "adjust", "aim", "door", "locks", "childPower", "hood"}

\* A step of one of them.
OthersStep ==
  \/ \E t \in Others \ {"door", "locks"} : Local(t)
  \/ DoorStep /\ Local("door")
  \/ LocksStep /\ Local("locks")

\* Every step of the lock features is of one of these forms.
LEMMA EntryCases ==
  ASSUME Shape, EntryTasksStep
  PROVE  \/ OthersStep
         \/ Walk \/ Lost \/ PepsStep \/ PassiveStep \/ RkeStep
         \/ PublishOrder \/ SearchServed
<1> USE DEF OthersStep, Others
<1>1. ASSUME KeyFeaturesStep PROVE OthersStep \/ Walk \/ Lost
  BY <1>1, SmartIsLocal, PopIsLocal, PadIsLocal, ButtonIsLocal DEF KeyFeaturesStep
<1>2. ASSUME CabinLocksStep PROVE OthersStep
  BY <1>2, SlamIsLocal, TrimIsLocal, NfcIsLocal, ReleaseIsLocal, AuthIsLocal DEF CabinLocksStep
<1>3. ASSUME NEW s, MoveTrunk(s) PROVE OthersStep
  BY <1>3, TrunkIsLocal
<1> HIDE DEF OthersStep, Others
<1> QED
  BY <1>1, <1>2, <1>3 DEF EntryTasksStep, SearchServed

\* So is every step of the other features.
LEMMA ComfortCases ==
  ASSUME Shape, ComfortTasksStep
  PROVE  OthersStep \/ FlashStep \/ RelayStep \/ WindowStep \/ RoofSwitchStep \/ MotorsStep
<1> USE DEF OthersStep, Others
<1>1. ASSUME LampsStep PROVE OthersStep \/ FlashStep \/ RelayStep
  BY <1>1, TurnIsLocal, HazardIsLocal DEF LampsStep, FlashStep, RelayStep
<1>2. ASSUME CourtesyStep PROVE OthersStep
  BY <1>2, WelcomeIsLocal, FarewellIsLocal, HomeIsLocal, DomeIsLocal, AssistIsLocal, BeamsIsLocal,
     AutoBeamIsLocal, HonkIsLocal, FogIsLocal, RearLampsIsLocal, AccessoryIsLocal, CopiesIsLocal
  DEF CourtesyStep
<1>3. ASSUME ClosuresStep PROVE OthersStep \/ WindowStep \/ RoofSwitchStep \/ MotorsStep
  BY <1>3, GlassIsLocal, FoldIsLocal, MirrorsIsLocal, AdjustIsLocal, AimIsLocal
  DEF ClosuresStep, Windows, Sunroof, Mirrors, WindowStep, RoofSwitchStep, MotorsStep
<1>4. ASSUME DoorsStep PROVE OthersStep
  <2>1. DoorStep => Local("door")
    BY DoorIsLocal DEF DoorStep
  <2>2. LocksStep => Local("locks")
    BY LocksIsLocal DEF LocksStep
  <2>3. \/ DoorStep \/ LocksStep \/ ChildPowerHears
        \/ (\E s \in {"hoodPull", "hoodOpen", "hoodClose"} : HoodHears(s)) \/ HoodForgetsPull
    BY <1>4 DEF DoorsStep, DoorStep, LocksStep
  <2> QED
    BY <2>1, <2>2, <2>3, ChildPowerIsLocal, HoodIsLocal
<1> HIDE DEF OthersStep, Others
<1> QED
  BY <1>1, <1>2, <1>3, <1>4 DEF ComfortTasksStep

\* So is every step.
LEMMA StepCases ==
  ASSUME Shape, Next
  PROVE  \/ OthersStep
         \/ Walk \/ Lost \/ PepsStep \/ PassiveStep \/ RkeStep
         \/ FlashStep \/ RelayStep \/ WindowStep \/ RoofSwitchStep \/ MotorsStep
         \/ SearchServed
         \/ PublishOrder \/ EntryHappens
         \/ Reboots
         \/ TimePasses
  BY EntryCases, ComfortCases DEF Next

\* Of a step of a task only its own variables can be told.
LEMMA OnlyForms ==
  ASSUME Shape
  PROVE  /\ OthersStep => \E t \in Others : Only(t)
         /\ Walk => Only("walk")
         /\ Lost => Only("lost")
         /\ PassiveStep => Only("passive")
         /\ RkeStep => Only("rke")
         /\ PepsStep => Only("peps")
         /\ FlashStep => Only("flash")
         /\ RelayStep => Only("relay")
         /\ WindowStep => Only("window")
         /\ RoofSwitchStep => Only("roofSwitch")
         /\ MotorsStep => Only("roof")
         /\ SearchServed \/ PublishOrder \/ EntryHappens => UNCHANGED mem
<1>1. SearchServed \/ PublishOrder \/ EntryHappens => UNCHANGED mem
  BY ServedForms, AroundForms
<1>2. MotorsStep => Only("roof")
  BY RoofForms DEF MotorsStep
<1>3. OthersStep => \E t \in Others : Only(t)
  BY DEF OthersStep, Others, Local
<1> QED
  BY <1>1, <1>2, <1>3, WalkForms, LostIsLocal, PepsIsLocal, PassiveForms, RkeForms, FlashIsLocal,
     RelayIsLocal, WindowIsLocal, RoofSwitchIsLocal
  DEF Local, FlashStep, RelayStep, WindowStep, RoofSwitchStep

\* What a step does to the world, whoever's it is.
LEMMA WorldSteps ==
  ASSUME Shape, Next
  PROVE  /\ DOMAIN mem' = DOMAIN mem
         /\ DOMAIN world' = WorldFields
         /\ world'.team = world.team
         /\ DOMAIN world'.saved = {"roof", "folded", "intent", "hood"}
         /\ world'.saved.roof = world.saved.roof \/ MotorsStep
         /\ world'.heard = world.heard \/ RkeStep
         /\ world'.sent = world.sent \/ Pressed
         /\ \/ SameSearches
            \/ \E t, legs : Asks(t, legs) /\ (t = "walk" => legs = InteriorLegs)
            \/ \E t : Takes(t)
            \/ SearchServed \/ KeyMoves \/ TimePasses
         /\ OrdersLocal \/ OrdersAs("WalkAwayLock") \/ OrdersAs("PassiveEntry")
<1> DEFINE Goal ==
       /\ DOMAIN mem' = DOMAIN mem
       /\ DOMAIN world' = WorldFields
       /\ world'.team = world.team
       /\ DOMAIN world'.saved = {"roof", "folded", "intent", "hood"}
       /\ world'.saved.roof = world.saved.roof \/ MotorsStep
       /\ world'.heard = world.heard \/ RkeStep
       /\ world'.sent = world.sent \/ Pressed
       /\ \/ SameSearches
          \/ \E t, legs : Asks(t, legs) /\ (t = "walk" => legs = InteriorLegs)
          \/ \E t : Takes(t)
          \/ SearchServed \/ KeyMoves \/ TimePasses
       /\ OrdersLocal \/ OrdersAs("WalkAwayLock") \/ OrdersAs("PassiveEntry")
<1>1. ASSUME NEW t, t # "walk", Local(t) PROVE Goal
  BY <1>1 DEF Local, WorldLocal, Only, SameRest, OrdersLocal
<1>2. CASE Walk
  BY <1>2, WalkForms DEF Only, SameRest, OrdersAs
<1>3. CASE PassiveStep
  BY <1>3, PassiveForms DEF Only, SameRest
<1>4. CASE RkeStep
  <2>1. "KeyfobRke" \notin Watched
    BY DEF Watched
  <2> QED
    BY <1>4, <2>1, RkeForms DEF Only, OrdersLocal, Shape
<1>5. CASE MotorsStep
  BY <1>5, RoofForms DEF MotorsStep, Only, OrdersLocal, Shape
<1>6. CASE SearchServed \/ KeyMoves
  BY <1>6, ServedForms DEF SameRest, OrdersLocal
<1>7. CASE PublishOrder \/ EntryHappens
  BY <1>6, <1>7, AroundForms DEF SameRest
<1>8. CASE Reboots
  BY <1>8, RebootForms DEF SameRest, OrdersLocal
<1>9. CASE TimePasses
  BY <1>9, TimeForms DEF SameRest, OrdersLocal
<1>10. CASE OthersStep
  BY <1>1, <1>10 DEF OthersStep, Others
<1>11. CASE Lost \/ PepsStep \/ FlashStep \/ RelayStep \/ WindowStep \/ RoofSwitchStep
  BY SMTT(30), <1>1, <1>11, LostIsLocal, PepsIsLocal, FlashIsLocal, RelayIsLocal, WindowIsLocal,
     RoofSwitchIsLocal
  DEF FlashStep, RelayStep, WindowStep, RoofSwitchStep
<1> QED
  BY StepCases, <1>2, <1>3, <1>4, <1>5, <1>6, <1>7, <1>8, <1>9, <1>10, <1>11

\* What a search numbered i finds of the keys when they were looked at.
FoundNow(i) ==
  LET seen == {k \in Paired : world.snapshot[k] \in Coverage(world.searches[i].legs)}
  IN  [k \in seen |-> world.snapshot[k]]

\* The end of a search gives the answer and remembers it.
LEMMA EndForms ==
  ASSUME Shape, EndSearch
  PROVE  /\ world.snapshot # None
         /\ \E i \in NextSearch :
               /\ world'.searches = [world.searches EXCEPT ![i].found = FoundNow(i)]
               /\ world'.snapshot = None
               /\ world'.recent = [legs |-> world.searches[i].legs, found |-> FoundNow(i),
                                   at |-> world.snapshot]
               /\ world'.known = world.known
               /\ world'.placed = world.placed
<1>1. PICK i \in NextSearch :
         \E after : world' = [world EXCEPT !.searches[i].found = FoundNow(i), !.observed = after,
                              !.snapshot = None,
                              !.recent = [legs |-> world.searches[i].legs, found |-> FoundNow(i),
                                          at |-> world.snapshot]]
  BY Zenon DEF EndSearch, FoundNow
<1> DEFINE found == FoundNow(i)
           recent == [legs |-> world.searches[i].legs, found |-> found,
                      at |-> world.snapshot]
<1>2. PICK after : world' = [world EXCEPT !.searches[i].found = found, !.observed = after,
                                          !.snapshot = None, !.recent = recent]
  BY <1>1
<1> HIDE DEF found, recent
<1>3. /\ world'.searches = [world.searches EXCEPT ![i].found = found]
      /\ world'.snapshot = None
      /\ world'.recent = recent
      /\ world'.known = world.known
      /\ world'.placed = world.placed
  BY SMTT(30), <1>2 DEF Shape, WorldFields
<1> QED
  BY <1>3 DEF EndSearch, found, recent

\* A search that coalesces takes the last answer.
LEMMA CoalesceForms ==
  ASSUME Shape, Coalesce
  PROVE  /\ world.recent # None
         /\ \E i \in NextSearch :
               /\ world.searches[i].by \in {"passive", "welcome"}
               /\ world.searches[i].legs = world.recent.legs
               /\ world'.searches = [world.searches EXCEPT ![i].found = world.recent.found]
               /\ world'.known =
                     [world.known EXCEPT ![world.searches[i].by] =
                         [k \in Keys |-> @[k] \cup {world.recent.at[k]}]]
               /\ world'.snapshot = world.snapshot
               /\ world'.recent = world.recent
               /\ world'.placed = world.placed
<1>1. world.recent # None
  BY DEF Coalesce
<1>2. PICK i \in NextSearch :
         /\ world.searches[i].by \in {"passive", "welcome"}
         /\ world.searches[i].legs = world.recent.legs
         /\ world' = [world EXCEPT
                !.searches[i].found = world.recent.found,
                !.known[world.searches[i].by] =
                    [k \in Keys |-> @[k] \cup {world.recent.at[k]}]]
  BY Zenon DEF Coalesce
<1>3. /\ world'.searches = [world.searches EXCEPT ![i].found = world.recent.found]
      /\ world'.snapshot = world.snapshot
      /\ world'.recent = world.recent
      /\ world'.placed = world.placed
  BY <1>2 DEF Shape, WorldFields
<1>4. world'.known =
         [world.known EXCEPT ![world.searches[i].by] =
             [k \in Keys |-> @[k] \cup {world.recent.at[k]}]]
  BY <1>2 DEF Shape, WorldFields
<1> QED
  BY <1>1, <1>2, <1>3, <1>4

\* An answer is put into a search.
LEMMA FoundPlaces ==
  ASSUME SearchShape, NEW i \in DOMAIN world.searches, NEW found, NEW s,
         s = [world.searches EXCEPT ![i].found = found]
  PROVE  /\ IsSeq(s)
         /\ DOMAIN s = DOMAIN world.searches
         /\ \A j \in DOMAIN world.searches :
               /\ DOMAIN s[j] = SearchFields
               /\ s[j].by = world.searches[j].by
               /\ s[j].legs = world.searches[j].legs
               /\ s[j].found = IF j = i THEN found ELSE world.searches[j].found
<1>1. /\ Len(world.searches) \in Nat
      /\ DOMAIN world.searches = 1..Len(world.searches)
  BY SeqPlaces DEF SearchShape
<1>2. \A j \in DOMAIN world.searches : DOMAIN world.searches[j] = SearchFields
  BY DEF SearchShape
<1>3. /\ DOMAIN s = DOMAIN world.searches
      /\ \A j \in DOMAIN world.searches :
            s[j] = IF j = i THEN [world.searches[j] EXCEPT !.found = found]
                   ELSE world.searches[j]
  OBVIOUS
<1>4. \A j \in DOMAIN world.searches :
         /\ DOMAIN s[j] = SearchFields
         /\ s[j].by = world.searches[j].by
         /\ s[j].legs = world.searches[j].legs
         /\ s[j].found = IF j = i THEN found ELSE world.searches[j].found
  BY <1>2, <1>3 DEF SearchFields
<1>5. s = [j \in 1..Len(world.searches) |-> s[j]]
  BY <1>1
<1> QED
  BY <1>1, <1>3, <1>4, <1>5, FunctionIsSeq

\* The form of the world is kept.
LEMMA ShapeKept == ASSUME Shape, [Next]_vars PROVE Shape'
<1>1. CASE UNCHANGED vars
  BY <1>1 DEF vars, Shape, SinceShape, SearchShape
<1> SUFFICES ASSUME Next PROVE Shape'
  BY <1>1
<1>2. /\ DOMAIN mem' = DOMAIN mem
      /\ DOMAIN world' = WorldFields
      /\ world'.team = world.team
      /\ DOMAIN world'.saved = {"roof", "folded", "intent", "hood"}
  BY WorldSteps
<1>3. IsSeq(world'.orders)
  <2>1. IsSeq(world.orders)
    BY DEF Shape
  <2>2. ASSUME NEW who, OrdersAs(who) PROVE IsSeq(world'.orders)
    <3>1. ASSUME NEW o, world'.orders = Append(world.orders, o) PROVE IsSeq(world'.orders)
      <4>1. IsSeq(Append(world.orders, o))
        BY <2>1, AppendPlaces
      <4> QED
        BY <3>1, <4>1
    <3> QED
      BY <2>1, <2>2, <3>1 DEF OrdersAs
  <2> QED
    BY <2>1, <2>2, WorldSteps, TailPlaces DEF OrdersLocal
<1> DEFINE Kept == DOMAIN world'.placed = Keys /\ SinceShape' /\ SearchShape'
<1>4. ASSUME SameSearches PROVE Kept
  BY <1>2, <1>4 DEF SameSearches, Shape, SinceShape, SearchShape
<1>5. ASSUME NEW t, NEW legs, Asks(t, legs) PROVE Kept
  <2> DEFINE new == [by |-> t, legs |-> legs, found |-> None, age |-> 0]
             n   == Len(world.searches)
  <2>1. t \in DOMAIN world.known
    BY <1>5 DEF Asks, Shape, SinceShape
  <2>2. SinceShape' /\ DOMAIN world'.known = DOMAIN world.known
    BY <1>2, <1>5 DEF Asks, Shape, SinceShape
  <2>3. n \in Nat /\ DOMAIN world.searches = 1..n
    BY SeqPlaces DEF Shape, SearchShape
  <2>4. /\ world'.searches = Append(world.searches, new)
        /\ IsSeq(world'.searches) /\ Len(world'.searches) = n + 1
        /\ \A i \in 1..n : world'.searches[i] = world.searches[i]
        /\ world'.searches[n + 1] = new
    BY <1>5, <2>3, AppendPlaces DEF Asks, Shape, SearchShape
  <2>5. DOMAIN world'.searches = 1..(n + 1)
    BY <2>4, SeqPlaces
  <2>6. DOMAIN new = SearchFields /\ new.by = t
    BY DEF SearchFields
  <2> HIDE DEF new, n
  <2>7. SearchShape'
    <3>1. \A i \in DOMAIN world'.searches :
             /\ DOMAIN world'.searches[i] = SearchFields
             /\ world'.searches[i].by \in DOMAIN world'.known
      BY <2>1, <2>2, <2>3, <2>4, <2>5, <2>6 DEF Shape, SearchShape
    <3>2. t = "lost" \/ \A i \in DOMAIN world.searches : world.searches[i].by # t
      BY <1>5 DEF Asks
    <3>3. \A i, j \in DOMAIN world'.searches :
             world'.searches[i].by = world'.searches[j].by /\ i # j
             => world'.searches[i].by = "lost"
      <4> SUFFICES ASSUME NEW i \in DOMAIN world'.searches, NEW j \in DOMAIN world'.searches, i # j,
                          world'.searches[i].by = world'.searches[j].by
                   PROVE  world'.searches[i].by = "lost"
        OBVIOUS
      <4>1. CASE i \in 1..n /\ j \in 1..n
        BY <2>3, <2>4, <4>1 DEF Shape, SearchShape
      <4>2. CASE i = n + 1 /\ j \in 1..n
        BY <2>3, <2>4, <2>6, <3>2, <4>2
      <4>3. CASE j = n + 1 /\ i \in 1..n
        BY <2>3, <2>4, <2>6, <3>2, <4>3
      <4> QED
        BY <2>3, <2>5, <4>1, <4>2, <4>3
    <3> QED
      BY <2>4, <3>1, <3>3 DEF SearchShape
  <2>8. DOMAIN world'.placed = Keys
    BY <1>5 DEF Asks, Shape
  <2> QED
    BY <2>2, <2>7, <2>8
<1>6. ASSUME NEW t, Takes(t) PROVE Kept
  <2>1. PICK i \in DOMAIN world.searches : world'.searches = RemoveAt(world.searches, i)
    BY <1>6 DEF Takes, Answers
  <2>2. /\ Len(world.searches) \in Nat
        /\ DOMAIN world.searches = 1..Len(world.searches)
    BY SeqPlaces DEF Shape, SearchShape
  <2>3. /\ IsSeq(world'.searches)
        /\ Len(world'.searches) = Len(world.searches) - 1
        /\ \A j \in 1..(Len(world.searches) - 1) :
              world'.searches[j] = IF j < i THEN world.searches[j] ELSE world.searches[j + 1]
    BY <2>1, RemovedPlaces DEF Shape, SearchShape
  <2>4. DOMAIN world'.searches = 1..(Len(world.searches) - 1)
    BY <2>3, SeqPlaces
  <2>5. SinceShape' /\ DOMAIN world'.placed = Keys /\ world'.known = world.known
    BY <1>2, <1>6 DEF Takes, Shape, SinceShape
  <2>6. \A j \in DOMAIN world'.searches : \E m \in DOMAIN world.searches :
            /\ world'.searches[j] = world.searches[m]
            /\ m = IF j < i THEN j ELSE j + 1
    BY <2>2, <2>3, <2>4
  <2>7. \A j \in DOMAIN world'.searches :
            /\ DOMAIN world'.searches[j] = SearchFields
            /\ world'.searches[j].by \in DOMAIN world'.known
    BY <2>5, <2>6 DEF Shape, SearchShape
  <2>8. ASSUME NEW j \in DOMAIN world'.searches, NEW l \in DOMAIN world'.searches, j # l,
               world'.searches[j].by = world'.searches[l].by
        PROVE  world'.searches[j].by = "lost"
    <3>1. PICK a \in DOMAIN world.searches :
             world'.searches[j] = world.searches[a] /\ a = IF j < i THEN j ELSE j + 1
      BY <2>6
    <3>2. PICK b \in DOMAIN world.searches :
             world'.searches[l] = world.searches[b] /\ b = IF l < i THEN l ELSE l + 1
      BY <2>6
    <3>3. a # b
      <4>1. j \in Int /\ l \in Int /\ i \in Int
        BY <2>2, <2>4
      <4> QED
        BY <2>8, <3>1, <3>2, <4>1
    <3>4. world.searches[a].by = world.searches[b].by
      BY <2>8, <3>1, <3>2
    <3>5. world.searches[a].by = "lost"
      BY <3>3, <3>4 DEF Shape, SearchShape
    <3> QED
      BY <3>1, <3>5
  <2> QED
    BY <2>3, <2>5, <2>7, <2>8 DEF SearchShape
<1>7. ASSUME KeyMoves PROVE Kept
  <2>1. PICK k, z : MoveKey(k, z)
    BY <1>7 DEF KeyMoves
  <2>2. /\ world'.placed = [world.placed EXCEPT ![k] = z]
        /\ world'.known = SeenAt(world.known, k, z)
        /\ world'.searches = world.searches
    BY <2>1 DEF MoveKey, Shape, WorldFields
  <2>3. /\ DOMAIN world'.known = DOMAIN world.known
        /\ \A t \in DOMAIN world.known : DOMAIN world'.known[t] = DOMAIN world.known[t]
    BY <2>2 DEF SeenAt
  <2>4. SinceShape' /\ DOMAIN world'.placed = Keys
    BY <1>2, <2>2, <2>3 DEF Shape, SinceShape
  <2> QED
    BY <2>2, <2>3, <2>4 DEF Shape, SearchShape
<1>8. ASSUME TimePasses PROVE Kept
  <2>1. /\ world'.searches = Aged(world.searches)
        /\ world'.known = world.known
        /\ world'.placed = world.placed
    BY <1>8, TimeForms
  <2>2. /\ Len(world.searches) \in Nat
        /\ DOMAIN world.searches = 1..Len(world.searches)
    BY SeqPlaces DEF Shape, SearchShape
  <2>3. /\ DOMAIN world'.searches = DOMAIN world.searches
        /\ \A i \in DOMAIN world.searches :
              /\ DOMAIN world'.searches[i] = DOMAIN world.searches[i]
              /\ DOMAIN world.searches[i] = SearchFields
                    => world'.searches[i].by = world.searches[i].by
    BY <2>1 DEF Aged, SearchFields
  <2>4. IsSeq(world'.searches)
    <3>1. world'.searches = [i \in 1..Len(world.searches) |-> world'.searches[i]]
      BY <2>1, <2>2 DEF Aged
    <3> QED
      BY <2>2, <3>1, FunctionIsSeq
  <2>5. SinceShape' /\ DOMAIN world'.placed = Keys
    BY <1>2, <2>1 DEF Shape, SinceShape
  <2>6. \A i \in DOMAIN world'.searches :
            /\ DOMAIN world'.searches[i] = SearchFields
            /\ world'.searches[i].by = world.searches[i].by
            /\ i \in DOMAIN world.searches
    BY <2>3 DEF Shape, SearchShape
  <2> QED
    BY <2>1, <2>4, <2>5, <2>6 DEF Shape, SearchShape
<1>9. ASSUME SearchServed PROVE Kept
  <2>1. CASE BeginSearch
    <3>1. /\ world'.searches = world.searches
          /\ world'.known = world.known
          /\ world'.placed = world.placed
      BY <2>1 DEF BeginSearch, Shape, WorldFields
    <3> QED
      BY <1>2, <3>1 DEF Shape, SinceShape, SearchShape
  <2>2. ASSUME NEW i \in DOMAIN world.searches, NEW found,
               world'.searches = [world.searches EXCEPT ![i].found = found]
        PROVE  /\ IsSeq(world'.searches)
               /\ DOMAIN world'.searches = DOMAIN world.searches
               /\ \A j \in DOMAIN world.searches :
                     /\ DOMAIN world'.searches[j] = SearchFields
                     /\ world'.searches[j].by = world.searches[j].by
    BY <2>2, FoundPlaces DEF Shape
  <2>3. ASSUME NEW i \in DOMAIN world.searches, NEW found,
               world'.searches = [world.searches EXCEPT ![i].found = found],
               SinceShape', DOMAIN world'.known = DOMAIN world.known,
               DOMAIN world'.placed = Keys
        PROVE  Kept
    <3>1. SearchShape'
      BY <2>2, <2>3 DEF Shape, SearchShape
    <3> QED
      BY <2>3, <3>1
  <2>4. CASE EndSearch
    <3>1. PICK i \in NextSearch :
             /\ world'.searches = [world.searches EXCEPT ![i].found = FoundNow(i)]
             /\ world'.known = world.known
             /\ world'.placed = world.placed
      BY <2>4, EndForms
    <3> HIDE DEF FoundNow
    <3>2. i \in DOMAIN world.searches
      BY DEF NextSearch, Unanswered
    <3> QED
      BY <1>2, <2>3, <3>1, <3>2 DEF Shape, SinceShape
  <2>5. CASE Coalesce
    <3>1. PICK i \in NextSearch :
             /\ world'.searches = [world.searches EXCEPT ![i].found = world.recent.found]
             /\ world'.known =
                   [world.known EXCEPT ![world.searches[i].by] =
                       [k \in Keys |-> @[k] \cup {world.recent.at[k]}]]
             /\ world'.placed = world.placed
      BY <2>5, CoalesceForms
    <3>2. i \in DOMAIN world.searches
      BY DEF NextSearch, Unanswered
    <3>3. SinceShape' /\ DOMAIN world'.known = DOMAIN world.known
      BY <1>2, <3>1 DEF Shape, SinceShape
    <3>4. DOMAIN world'.placed = Keys
      BY <3>1 DEF Shape
    <3> QED
      BY <2>3, <3>1, <3>2, <3>3, <3>4
  <2> QED
    BY <1>9, <2>1, <2>4, <2>5 DEF SearchServed
<1> QED
  BY <1>2, <1>3, <1>4, <1>5, <1>6, <1>7, <1>8, <1>9, WorldSteps DEF Shape

-----------------------------------------------------------------------------
(* How a behaviour starts.                                                 *)

\* What the world holds at first.
LEMMA InitForms ==
  ASSUME Init
  PROVE  \E name \in DOMAIN Teams :
            /\ DOMAIN world = WorldFields
            /\ world.team = name
            /\ world.orders = <<>> /\ world.searches = <<>>
            /\ world.snapshot = None /\ world.recent = None
            /\ world.placed = Teams[name].placed
            /\ world.known = [t \in Teams[name].tasks \cap Askers |-> [k \in Keys |-> {}]]
            /\ world.heard = [f \in Fobs |-> <<>>]
            /\ world.sent = [f \in Fobs |-> 0]
            /\ world.claims = [s \in Claimable |-> <<>>]
            /\ world.saved = FactoryState
            /\ bus = Over(Teams[name].bus, Over(EntryBus, ComfortBus))
            /\ DOMAIN mem = Teams[name].tasks
            /\ \A t \in DOMAIN mem : mem[t] = Task(t, bus, world).mem
            /\ unread = [t \in DOMAIN mem |-> [s \in Task(t, bus, world).follows |-> <<>>]]
<1>1. PICK name \in DOMAIN Teams :
         /\ world = World(name)
         /\ bus = Over(Teams[name].bus, Over(EntryBus, ComfortBus))
         /\ mem = [t \in Teams[name].tasks |-> Task(t, bus, world).mem]
         /\ unread = [t \in Teams[name].tasks |-> [s \in Task(t, bus, world).follows |-> <<>>]]
  BY Zenon DEF Init
<1> DEFINE old == EntryWorld(name)
           new == [claims |-> [s \in Claimable |-> <<>>], saved |-> FactoryState]
<1>2. world = Over(old, new)
  BY <1>1 DEF World
<1>3. /\ DOMAIN new = {"claims", "saved"}
      /\ new.claims = [s \in Claimable |-> <<>>] /\ new.saved = FactoryState
  OBVIOUS
<1>4. /\ DOMAIN old = WorldFields \ {"claims", "saved"}
      /\ old.team = name
      /\ old.orders = <<>> /\ old.searches = <<>>
      /\ old.snapshot = None /\ old.recent = None
      /\ old.placed = Teams[name].placed
      /\ old.known = [t \in Teams[name].tasks \cap Askers |-> [k \in Keys |-> {}]]
      /\ old.heard = [f \in Fobs |-> <<>>]
      /\ old.sent = [f \in Fobs |-> 0]
  BY DEF EntryWorld, WorldFields
<1> HIDE DEF old, new
<1>5. /\ DOMAIN world = DOMAIN old \cup DOMAIN new
      /\ \A x \in DOMAIN old : world[x] = old[x]
      /\ \A x \in DOMAIN new \ DOMAIN old : world[x] = new[x]
  BY <1>2 DEF Over
<1>6. /\ DOMAIN world = WorldFields
      /\ world.team = name
      /\ world.orders = <<>> /\ world.searches = <<>>
      /\ world.snapshot = None /\ world.recent = None
      /\ world.placed = Teams[name].placed
      /\ world.known = [t \in Teams[name].tasks \cap Askers |-> [k \in Keys |-> {}]]
      /\ world.heard = [f \in Fobs |-> <<>>]
      /\ world.sent = [f \in Fobs |-> 0]
      /\ world.claims = [s \in Claimable |-> <<>>]
      /\ world.saved = FactoryState
  BY <1>3, <1>4, <1>5 DEF WorldFields
<1>7. DOMAIN mem = Teams[name].tasks
  BY <1>1
<1>8. \A t \in DOMAIN mem : mem[t] = Task(t, bus, world).mem
  BY <1>1
<1>9. unread = [t \in DOMAIN mem |-> [s \in Task(t, bus, world).follows |-> <<>>]]
  BY <1>1, <1>7, Zenon
<1> QED
  BY <1>1, <1>6, <1>7, <1>8, <1>9

\* The world starts in its form.
LEMMA ShapeInit == Init => Shape
<1> SUFFICES ASSUME Init PROVE Shape
  OBVIOUS
<1>1. PICK name \in DOMAIN Teams :
         /\ DOMAIN world = WorldFields
         /\ world.team = name
         /\ world.orders = <<>> /\ world.searches = <<>>
         /\ world.placed = Teams[name].placed
         /\ world.known = [t \in Teams[name].tasks \cap Askers |-> [k \in Keys |-> {}]]
         /\ world.saved = FactoryState
         /\ DOMAIN mem = Teams[name].tasks
  BY InitForms
<1>2. DOMAIN world.searches = {} /\ IsSeq(world.searches) /\ IsSeq(world.orders)
  <2>1. DOMAIN world.searches = 1..Len(world.searches) /\ Len(world.searches) = 0
    BY <1>1, NothingIsSeq, SeqPlaces
  <2> QED
    BY <1>1, <2>1, NothingIsSeq
<1>3. DOMAIN world.saved = {"roof", "folded", "intent", "hood"}
  BY <1>1 DEF FactoryState
<1>4. DOMAIN world.placed = Keys
  BY <1>1, TeamsAssumption
<1>5. SinceShape
  BY <1>1 DEF SinceShape
<1> QED
  BY <1>1, <1>2, <1>3, <1>4, <1>5 DEF Shape, SearchShape

\* The form of the world holds always.
LEMMA AlwaysShape == Spec => []Shape
<1>1. Shape /\ [Next]_vars => Shape'
  BY ShapeKept
<1> QED
  BY ShapeInit, <1>1, PTL DEF Spec

-----------------------------------------------------------------------------
(* What an answer says of where the keys have been.                        *)

\* An answer names where its keys are known to have been, and a key that it does not
\* name is known to have been where the search did not look.
FoundSound(legs, found, known) ==
  \A k \in Paired : IF k \in DOMAIN found THEN found[k] \in known[k]
                    ELSE \E z \in known[k] : z \notin Coverage(legs)

\* Every search: its history has the place of each key, its answer is sound.
SearchesSound ==
  \A i \in DOMAIN world.searches :
    LET s == world.searches[i] IN
    /\ \A k \in Keys : world.placed[k] \in world.known[s.by][k]
    /\ s.found # None => FoundSound(s.legs, s.found, world.known[s.by])
    /\ s.by = "walk" => s.legs = InteriorLegs

\* The places that have been copied are in the history of the search they are for.
SnapshotSound ==
  world.snapshot # None =>
    /\ Unanswered # {}
    /\ \A i \in NextSearch : \A k \in Keys :
          world.snapshot[k] \in world.known[world.searches[i].by][k]

\* The last answer was sound when it was given.
RecentSound ==
  world.recent # None =>
    FoundSound(world.recent.legs, world.recent.found, [k \in Keys |-> {world.recent.at[k]}])

\* All three.
SearchInv == SearchesSound /\ SnapshotSound /\ RecentSound

\* A sound answer stays so when more is known of the keys.
LEMMA SoundStays ==
  ASSUME NEW legs, NEW found, NEW old, NEW new, FoundSound(legs, found, old),
         \A k \in Keys : old[k] \subseteq new[k]
  PROVE  FoundSound(legs, found, new)
  BY LockWorldAssumption DEF FoundSound

\* What a search finds of keys that are where its history says is sound.
LEMMA FoundIsSound ==
  ASSUME NEW i, NEW known, \A k \in Keys : world.snapshot[k] \in known[k]
  PROVE  FoundSound(world.searches[i].legs, FoundNow(i), known)
  BY LockWorldAssumption DEF FoundSound, FoundNow

\* Nothing searched, nothing claimed of it.
LEMMA SearchInit == Init => SearchInv
<1> SUFFICES ASSUME Init PROVE SearchInv
  OBVIOUS
<1>1. world.searches = <<>> /\ world.snapshot = None /\ world.recent = None
  BY InitForms
<1>2. DOMAIN world.searches = {}
  <2>1. DOMAIN world.searches = 1..Len(world.searches) /\ Len(world.searches) = 0
    BY <1>1, NothingIsSeq, SeqPlaces
  <2> QED
    BY <2>1
<1> QED
  BY <1>1, <1>2 DEF SearchInv, SearchesSound, SnapshotSound, RecentSound

\* Steps that leave the searches.
LEMMA SameSearchesKeep ==
  ASSUME Shape, SearchInv, SameSearches
  PROVE  SearchInv'
  BY DEF SameSearches, SearchInv, SearchesSound, SnapshotSound, RecentSound, Unanswered,
         NextSearch

\* The last search is asked for.
LEMMA AsksKeeps ==
  ASSUME Shape, SearchInv, NEW t, NEW legs, Asks(t, legs), t = "walk" => legs = InteriorLegs
  PROVE  SearchInv'
<1> DEFINE new == [by |-> t, legs |-> legs, found |-> None, age |-> 0]
           n   == Len(world.searches)
<1>1. n \in Nat /\ DOMAIN world.searches = 1..n
  BY SeqPlaces DEF Shape, SearchShape
<1>2. /\ world'.searches = Append(world.searches, new)
      /\ IsSeq(world'.searches) /\ Len(world'.searches) = n + 1
      /\ \A i \in 1..n : world'.searches[i] = world.searches[i]
      /\ world'.searches[n + 1] = new
  BY <1>1, AppendPlaces DEF Asks, Shape, SearchShape
<1>3. DOMAIN world'.searches = 1..(n + 1)
  BY <1>2, SeqPlaces
<1>4. new.by = t /\ new.legs = legs /\ new.found = None
  OBVIOUS
<1> HIDE DEF new, n
<1>5. t \in DOMAIN world.known /\ DOMAIN world.placed = Keys
  BY DEF Asks, Shape, SinceShape
<1>6. /\ world'.placed = world.placed
      /\ world'.snapshot = world.snapshot
      /\ world'.recent = world.recent
      /\ world'.known =
            [world.known EXCEPT ![t] =
                [k \in Keys |-> {world.placed[k]} \cup (IF t = "lost" THEN @[k] ELSE {})]]
  BY DEF Asks
<1>7. \A k \in Keys : world'.placed[k] \in world'.known[t][k]
  BY <1>5, <1>6
<1>8. ASSUME NEW i \in 1..n
      PROVE  /\ world'.searches[i] = world.searches[i]
             /\ \A k \in Keys : world.known[world.searches[i].by][k]
                                  \subseteq world'.known[world.searches[i].by][k]
  <2>1. world.searches[i].by = t => t = "lost"
    BY <1>1, <1>8 DEF Asks
  <2>2. world.searches[i].by \in DOMAIN world.known
    BY <1>1, <1>8 DEF Shape, SearchShape
  <2>3. CASE world.searches[i].by = t
    <3>1. \A k \in Keys : world'.known[t][k] = {world.placed[k]} \cup world.known[t][k]
      BY <1>5, <1>6, <2>1, <2>3
    <3> QED
      BY <1>2, <2>3, <3>1
  <2>4. CASE world.searches[i].by # t
    BY <1>2, <1>6, <2>2, <2>4
  <2> QED
    BY <2>3, <2>4
<1>9. SearchesSound'
  <2> SUFFICES ASSUME NEW i \in DOMAIN world'.searches
               PROVE  LET s == world'.searches[i] IN
                      /\ \A k \in Keys : world'.placed[k] \in world'.known[s.by][k]
                      /\ s.found # None => FoundSound(s.legs, s.found, world'.known[s.by])
                      /\ s.by = "walk" => s.legs = InteriorLegs
    BY DEF SearchesSound
  <2>1. CASE i = n + 1
    BY <1>2, <1>4, <1>7, <2>1
  <2>2. CASE i \in 1..n
    <3>1. LET s == world.searches[i] IN
            /\ \A k \in Keys : world.placed[k] \in world.known[s.by][k]
            /\ s.found # None => FoundSound(s.legs, s.found, world.known[s.by])
            /\ s.by = "walk" => s.legs = InteriorLegs
      BY <1>1, <2>2 DEF SearchInv, SearchesSound
    <3> QED
      BY <1>6, <1>8, <2>2, <3>1, SoundStays
  <2> QED
    BY <1>1, <1>3, <2>1, <2>2
<1>10. SnapshotSound'
  <2> SUFFICES ASSUME world'.snapshot # None PROVE SnapshotSound'
    BY DEF SnapshotSound
  <2>1. PICK j \in 1..n : j \in Unanswered
    BY <1>1, <1>6 DEF SearchInv, SnapshotSound, Unanswered
  <2>2. Unanswered' = Unanswered \cup {n + 1}
    BY <1>1, <1>2, <1>3, <1>4 DEF Unanswered
  <2>3. NextSearch' \subseteq NextSearch
    <3> SUFFICES ASSUME NEW i \in NextSearch' PROVE i \in NextSearch
      OBVIOUS
    <3>1. i \in Unanswered' /\ \A l \in Unanswered' : i <= l
      BY DEF NextSearch
    <3>2. i <= j /\ i # n + 1
      BY <1>1, <2>1, <2>2, <3>1
    <3> QED
      BY <2>2, <3>1, <3>2 DEF NextSearch
  <2>4. \A i \in NextSearch : i \in 1..n
    BY <1>1 DEF NextSearch, Unanswered
  <2>5. \A i \in NextSearch : \A k \in Keys :
           world.snapshot[k] \in world.known[world.searches[i].by][k]
    BY <1>6 DEF SearchInv, SnapshotSound
  <2> QED
    BY <1>6, <1>8, <2>1, <2>2, <2>3, <2>4, <2>5 DEF SnapshotSound
<1>11. RecentSound'
  BY <1>6 DEF SearchInv, RecentSound
<1> QED
  BY <1>9, <1>10, <1>11 DEF SearchInv

\* An answer is taken: the searches behind it move up.
LEMMA TakesKeeps ==
  ASSUME Shape, SearchInv, NEW t, Takes(t)
  PROVE  SearchInv'
<1> DEFINE n == Len(world.searches)
<1>1. n \in Nat /\ DOMAIN world.searches = 1..n
  BY SeqPlaces DEF Shape, SearchShape
<1>2. PICK i \in 1..n : i \in Answers(t) /\ world'.searches = RemoveAt(world.searches, i)
  BY <1>1 DEF Takes, Answers
<1>3. /\ IsSeq(world'.searches)
      /\ Len(world'.searches) = n - 1
      /\ \A j \in 1..(n - 1) :
            world'.searches[j] = IF j < i THEN world.searches[j] ELSE world.searches[j + 1]
  <2>1. IsSeq(world.searches) /\ i \in DOMAIN world.searches
    BY <1>1, <1>2 DEF Shape, SearchShape
  <2> DEFINE s == RemoveAt(world.searches, i)
  <2>2. /\ IsSeq(s)
        /\ Len(s) = n - 1
        /\ \A j \in 1..(n - 1) :
              s[j] = IF j < i THEN world.searches[j] ELSE world.searches[j + 1]
    BY <2>1, RemovedPlaces
  <2>3. world'.searches = s
    BY <1>2
  <2> HIDE DEF s
  <2> QED
    BY <2>2, <2>3
<1>4. DOMAIN world'.searches = 1..(n - 1)
  BY <1>3, SeqPlaces
<1>5. /\ world'.known = world.known /\ world'.snapshot = world.snapshot
      /\ world'.recent = world.recent /\ world'.placed = world.placed
  BY DEF Takes
<1> DEFINE Old(j) == IF j < i THEN j ELSE j + 1
           New(j) == IF j < i THEN j ELSE j - 1
<1> HIDE DEF n
<1>6. \A j \in 1..(n - 1) : Old(j) \in 1..n /\ world'.searches[j] = world.searches[Old(j)]
  BY <1>1, <1>2, <1>3
<1>7. SearchesSound'
  <2> SUFFICES ASSUME NEW j \in DOMAIN world'.searches
               PROVE  LET s == world'.searches[j] IN
                      /\ \A k \in Keys : world'.placed[k] \in world'.known[s.by][k]
                      /\ s.found # None => FoundSound(s.legs, s.found, world'.known[s.by])
                      /\ s.by = "walk" => s.legs = InteriorLegs
    BY DEF SearchesSound
  <2>1. PICK m \in DOMAIN world.searches : world'.searches[j] = world.searches[m]
    BY <1>1, <1>4, <1>6
  <2> QED
    BY <1>5, <2>1 DEF SearchInv, SearchesSound
<1>8. world.searches[i].found # None
  BY <1>2 DEF Answers
<1>9. \A l \in Unanswered : New(l) \in Unanswered' /\ l = Old(New(l))
  <2> SUFFICES ASSUME NEW l \in Unanswered PROVE New(l) \in Unanswered' /\ l = Old(New(l))
    OBVIOUS
  <2>1. l \in 1..n /\ world.searches[l].found = None /\ l # i
    BY <1>1, <1>8 DEF Unanswered
  <2>2. New(l) \in 1..(n - 1) /\ l = Old(New(l))
    BY <1>1, <1>2, <2>1
  <2>3. world'.searches[New(l)] = world.searches[l]
    BY <1>6, <2>2
  <2> QED
    BY <1>4, <2>1, <2>2, <2>3 DEF Unanswered
<1>10. \A j \in Unanswered' : j \in 1..(n - 1) /\ Old(j) \in Unanswered
  BY <1>1, <1>4, <1>6 DEF Unanswered
<1>11. \A j \in NextSearch' : Old(j) \in NextSearch /\ j \in 1..(n - 1)
  <2> SUFFICES ASSUME NEW j \in NextSearch' PROVE Old(j) \in NextSearch /\ j \in 1..(n - 1)
    OBVIOUS
  <2>1. j \in Unanswered' /\ \A l \in Unanswered' : j <= l
    BY DEF NextSearch
  <2>2. Old(j) \in Unanswered /\ j \in 1..(n - 1)
    BY <1>10, <2>1
  <2>3. ASSUME NEW l \in Unanswered PROVE Old(j) <= l
    <3>1. l \in 1..n /\ l # i
      BY <1>1, <1>8 DEF Unanswered
    <3>2. j <= New(l)
      BY <1>9, <2>1
    <3> QED
      BY <1>1, <1>2, <2>2, <3>1, <3>2
  <2> QED
    BY <2>2, <2>3 DEF NextSearch
<1>12. SnapshotSound'
  <2> SUFFICES ASSUME world'.snapshot # None
               PROVE  /\ Unanswered' # {}
                      /\ \A j \in NextSearch' : \A k \in Keys :
                            world'.snapshot[k] \in world'.known[world'.searches[j].by][k]
    BY DEF SnapshotSound
  <2>1. /\ Unanswered # {}
        /\ \A l \in NextSearch : \A k \in Keys :
              world.snapshot[k] \in world.known[world.searches[l].by][k]
    BY <1>5 DEF SearchInv, SnapshotSound
  <2>2. Unanswered' # {}
    BY <1>9, <2>1
  <2> HIDE DEF Old
  <2> QED
    BY <1>5, <1>6, <1>11, <2>1, <2>2
<1>13. RecentSound'
  BY <1>5 DEF SearchInv, RecentSound
<1> QED
  BY <1>7, <1>12, <1>13 DEF SearchInv

\* The places are copied for the next search.
LEMMA BeginKeeps ==
  ASSUME Shape, SearchInv, BeginSearch
  PROVE  SearchInv'
<1>1. /\ world'.searches = world.searches /\ world'.known = world.known
      /\ world'.placed = world.placed /\ world'.recent = world.recent
      /\ world'.snapshot = world.placed
      /\ Unanswered # {}
  BY DEF BeginSearch, Shape, WorldFields
<1>2. Unanswered' = Unanswered /\ NextSearch' = NextSearch
  BY <1>1 DEF Unanswered, NextSearch
<1>3. SearchesSound' /\ RecentSound'
  BY <1>1 DEF SearchInv, SearchesSound, RecentSound
<1>4. \A i \in NextSearch : i \in DOMAIN world.searches
  BY DEF NextSearch, Unanswered
<1>5. SnapshotSound'
  BY <1>1, <1>2, <1>4 DEF SearchInv, SearchesSound, SnapshotSound
<1> QED
  BY <1>3, <1>5 DEF SearchInv

\* The next search is answered, and remembered.
LEMMA EndKeeps ==
  ASSUME Shape, SearchInv, EndSearch
  PROVE  SearchInv'
<1>1. PICK i \in NextSearch :
         /\ world'.searches = [world.searches EXCEPT ![i].found = FoundNow(i)]
         /\ world'.snapshot = None
         /\ world'.recent = [legs |-> world.searches[i].legs, found |-> FoundNow(i),
                             at |-> world.snapshot]
         /\ world'.known = world.known
         /\ world'.placed = world.placed
  BY EndForms
<1>2. i \in DOMAIN world.searches
  BY DEF NextSearch, Unanswered
<1>3. FoundSound(world.searches[i].legs, FoundNow(i), world.known[world.searches[i].by])
  <2>1. world.snapshot # None
    BY EndForms
  <2>2. \A k \in Keys : world.snapshot[k] \in world.known[world.searches[i].by][k]
    BY <2>1 DEF SearchInv, SnapshotSound
  <2> QED
    BY <2>2, FoundIsSound
<1> DEFINE found == FoundNow(i)
<1> HIDE DEF found
<1>4. /\ DOMAIN world'.searches = DOMAIN world.searches
      /\ \A j \in DOMAIN world.searches :
            /\ world'.searches[j].by = world.searches[j].by
            /\ world'.searches[j].legs = world.searches[j].legs
            /\ world'.searches[j].found = IF j = i THEN found ELSE world.searches[j].found
  BY <1>1, <1>2, FoundPlaces DEF Shape, found
<1>5. FoundSound(world.searches[i].legs, found, world.known[world.searches[i].by])
  BY SMTT(30), <1>3 DEF found
<1>6. SearchesSound'
  BY <1>1, <1>4, <1>5 DEF SearchInv, SearchesSound
<1>7. SnapshotSound'
  BY <1>1 DEF SnapshotSound
<1>8. RecentSound'
  <2> DEFINE at == [k \in Keys |-> {world.snapshot[k]}]
  <2>1. \A k \in Keys : world.snapshot[k] \in at[k]
    OBVIOUS
  <2> HIDE DEF at
  <2>2. FoundSound(world.searches[i].legs, FoundNow(i), at)
    BY <2>1, FoundIsSound
  <2>3. /\ world'.recent.legs = world.searches[i].legs
        /\ world'.recent.found = found
        /\ world'.recent.at = world.snapshot
    BY <1>1 DEF found
  <2>4. [k \in Keys |-> {world'.recent.at[k]}] = at
    BY <2>3 DEF at
  <2> QED
    BY <2>2, <2>3, <2>4 DEF RecentSound, found
<1> QED
  BY <1>6, <1>7, <1>8 DEF SearchInv

\* The next search takes the last answer, and what that search saw is known too.
LEMMA CoalesceKeeps ==
  ASSUME Shape, SearchInv, Coalesce
  PROVE  SearchInv'
<1>1. PICK i \in NextSearch :
         /\ world.searches[i].legs = world.recent.legs
         /\ world'.searches = [world.searches EXCEPT ![i].found = world.recent.found]
         /\ world'.known =
               [world.known EXCEPT ![world.searches[i].by] =
                   [k \in Keys |-> @[k] \cup {world.recent.at[k]}]]
         /\ world'.snapshot = world.snapshot
         /\ world'.recent = world.recent
         /\ world'.placed = world.placed
  BY CoalesceForms
<1>2. world.snapshot = None /\ world.recent # None
  BY DEF Coalesce
<1>3. i \in DOMAIN world.searches
  BY DEF NextSearch, Unanswered
<1>4. /\ DOMAIN world'.searches = DOMAIN world.searches
      /\ \A j \in DOMAIN world.searches :
            /\ world'.searches[j].by = world.searches[j].by
            /\ world'.searches[j].legs = world.searches[j].legs
            /\ world'.searches[j].found = IF j = i THEN world.recent.found
                                          ELSE world.searches[j].found
  BY <1>1, <1>3, FoundPlaces DEF Shape
<1>5. \A j \in DOMAIN world.searches : world.searches[j].by \in DOMAIN world.known
  BY DEF Shape, SearchShape
<1>6. \A t \in DOMAIN world.known : \A k \in Keys : world.known[t][k] \subseteq world'.known[t][k]
  BY <1>1
<1> DEFINE at == [k \in Keys |-> {world.recent.at[k]}]
<1>7. \A k \in Keys : at[k] \subseteq world'.known[world.searches[i].by][k]
  BY SMTT(30), <1>1, <1>3, <1>5
<1> HIDE DEF at
<1>8. FoundSound(world.searches[i].legs, world.recent.found, world'.known[world.searches[i].by])
  <2>1. FoundSound(world.recent.legs, world.recent.found, at)
    BY <1>2 DEF SearchInv, RecentSound, at
  <2> QED
    BY <1>1, <1>7, <2>1, SoundStays
<1>9. SearchesSound'
  <2> SUFFICES ASSUME NEW j \in DOMAIN world'.searches
               PROVE  LET s == world'.searches[j] IN
                      /\ \A k \in Keys : world'.placed[k] \in world'.known[s.by][k]
                      /\ s.found # None => FoundSound(s.legs, s.found, world'.known[s.by])
                      /\ s.by = "walk" => s.legs = InteriorLegs
    BY DEF SearchesSound
  <2>1. LET s == world.searches[j] IN
          /\ \A k \in Keys : world.placed[k] \in world.known[s.by][k]
          /\ s.found # None => FoundSound(s.legs, s.found, world.known[s.by])
          /\ s.by = "walk" => s.legs = InteriorLegs
    BY <1>4 DEF SearchInv, SearchesSound
  <2>2. j = i \/ world'.searches[j].found = world.searches[j].found
    BY <1>4
  <2> QED
    BY Zenon, <1>1, <1>4, <1>5, <1>6, <1>8, <2>1, <2>2, SoundStays
<1>10. SnapshotSound'
  BY <1>1, <1>2 DEF SnapshotSound
<1>11. RecentSound'
  BY <1>1 DEF SearchInv, RecentSound
<1> QED
  BY <1>9, <1>10, <1>11 DEF SearchInv

\* Every history notes where the key has gone.
LEMMA KeyMovesKeeps ==
  ASSUME Shape, SearchInv, KeyMoves
  PROVE  SearchInv'
<1>1. PICK m, z : MoveKey(m, z)
  BY DEF KeyMoves
<1>2. /\ world'.placed = [world.placed EXCEPT ![m] = z]
      /\ world'.known = SeenAt(world.known, m, z)
      /\ world'.searches = world.searches
      /\ world'.snapshot = world.snapshot
      /\ world'.recent = world.recent
  BY <1>1 DEF MoveKey, Shape, WorldFields
<1>3. \A t \in DOMAIN world.known : \A k \in Keys :
         /\ world.known[t][k] \subseteq world'.known[t][k]
         /\ k = m => z \in world'.known[t][k]
  BY <1>2 DEF SeenAt, Shape, SinceShape
<1>4. \A j \in DOMAIN world.searches : world.searches[j].by \in DOMAIN world.known
  BY DEF Shape, SearchShape
<1>5. \A k \in Keys : world'.placed[k] = IF k = m THEN z ELSE world.placed[k]
  BY <1>2 DEF Shape
<1>6. SearchesSound'
  <2> SUFFICES ASSUME NEW j \in DOMAIN world.searches
               PROVE  LET s == world.searches[j] IN
                      /\ \A k \in Keys : world'.placed[k] \in world'.known[s.by][k]
                      /\ s.found # None => FoundSound(s.legs, s.found, world'.known[s.by])
                      /\ s.by = "walk" => s.legs = InteriorLegs
    BY <1>2 DEF SearchesSound
  <2>1. LET s == world.searches[j] IN
          /\ \A k \in Keys : world.placed[k] \in world.known[s.by][k]
          /\ s.found # None => FoundSound(s.legs, s.found, world.known[s.by])
          /\ s.by = "walk" => s.legs = InteriorLegs
    BY DEF SearchInv, SearchesSound
  <2> QED
    BY <1>3, <1>4, <1>5, <2>1, SoundStays
<1>7. Unanswered' = Unanswered /\ NextSearch' = NextSearch
  BY <1>2 DEF Unanswered, NextSearch
<1>8. \A j \in NextSearch : j \in DOMAIN world.searches
  BY DEF NextSearch, Unanswered
<1>9. SnapshotSound'
  BY <1>2, <1>3, <1>4, <1>7, <1>8 DEF SearchInv, SnapshotSound
<1>10. RecentSound'
  BY <1>2 DEF SearchInv, RecentSound
<1> QED
  BY <1>6, <1>9, <1>10 DEF SearchInv

\* The searches grow older, the last answer is forgotten.
LEMMA TimeKeeps ==
  ASSUME Shape, SearchInv, TimePasses
  PROVE  SearchInv'
<1>1. /\ world'.searches = Aged(world.searches)
      /\ world'.known = world.known
      /\ world'.snapshot = world.snapshot
      /\ world'.placed = world.placed
      /\ world'.recent = None
  BY TimeForms
<1>2. /\ DOMAIN world'.searches = DOMAIN world.searches
      /\ \A j \in DOMAIN world.searches :
            /\ world'.searches[j].by = world.searches[j].by
            /\ world'.searches[j].legs = world.searches[j].legs
            /\ world'.searches[j].found = world.searches[j].found
  BY <1>1 DEF Aged, Shape, SearchShape, SearchFields
<1>3. Unanswered' = Unanswered
  BY <1>2 DEF Unanswered
<1>4. NextSearch' = NextSearch
  BY <1>3 DEF NextSearch
<1>5. \A j \in NextSearch : j \in DOMAIN world.searches
  BY DEF NextSearch, Unanswered
<1>6. SearchesSound'
  BY <1>1, <1>2 DEF SearchInv, SearchesSound
<1>7. SnapshotSound'
  BY <1>1, <1>2, <1>3, <1>4, <1>5 DEF SearchInv, SnapshotSound
<1>8. RecentSound'
  BY <1>1 DEF RecentSound
<1> QED
  BY <1>6, <1>7, <1>8 DEF SearchInv

\* What answers say is sound always.
LEMMA SearchKept == ASSUME Shape, SearchInv, [Next]_vars PROVE SearchInv'
<1>1. CASE UNCHANGED vars
  BY <1>1, SameSearchesKeep DEF vars, SameSearches
<1>2. CASE Next
  BY <1>2, WorldSteps, SameSearchesKeep, AsksKeeps, TakesKeeps, BeginKeeps, EndKeeps,
     CoalesceKeeps, KeyMovesKeeps, TimeKeeps
  DEF SearchServed
<1> QED
  BY <1>1, <1>2

\* Who orders is told by the step.
LEMMA OrdersForms ==
  ASSUME Shape, Next
  PROVE  \/ OrdersLocal
         \/ Walk /\ OrdersAs("WalkAwayLock")
         \/ PassiveStep /\ OrdersAs("PassiveEntry")
<1>1. ASSUME NEW t, Local(t) PROVE OrdersLocal
  BY <1>1 DEF Local, WorldLocal, OrdersLocal
<1>2. CASE Walk
  BY <1>2, WalkForms DEF OrdersAs
<1>3. CASE PassiveStep
  BY <1>3, PassiveForms
<1>4. CASE RkeStep
  <2>1. "KeyfobRke" \notin Watched
    BY DEF Watched
  <2> QED
    BY <1>4, <2>1, RkeForms DEF OrdersLocal
<1>5. CASE MotorsStep
  BY <1>5, RoofForms DEF MotorsStep, OrdersLocal
<1>6. CASE SearchServed \/ KeyMoves
  BY <1>6, ServedForms DEF OrdersLocal
<1>7. CASE PublishOrder \/ EntryHappens
  BY <1>6, <1>7, AroundForms
<1>8. CASE Reboots
  BY <1>8, RebootForms DEF OrdersLocal
<1>9. CASE TimePasses
  BY <1>9, TimeForms DEF OrdersLocal
<1>10. CASE OthersStep
  BY <1>1, <1>10 DEF OthersStep
<1>11. CASE Lost \/ PepsStep \/ FlashStep \/ RelayStep \/ WindowStep \/ RoofSwitchStep
  BY <1>1, <1>11, LostIsLocal, PepsIsLocal, FlashIsLocal, RelayIsLocal, WindowIsLocal,
     RoofSwitchIsLocal
  DEF FlashStep, RelayStep, WindowStep, RoofSwitchStep
<1> QED
  BY StepCases, <1>2, <1>3, <1>4, <1>5, <1>6, <1>7, <1>8, <1>9, <1>10, <1>11

\* The orders grow by the one who makes the step.
LEMMA OrderIsOwn ==
  ASSUME Shape, Next, NEW who, Orders(who)
  PROVE  /\ who = "WalkAwayLock" => Walk
         /\ who = "PassiveEntry" => PassiveStep
         /\ world'.orders # world.orders
<1>1. IsSeq(world.orders) /\ Len(world.orders) \in Nat
  BY SeqPlaces DEF Shape
<1>2. Len(world'.orders) > Len(world.orders)
  BY DEF Orders
<1>3. ASSUME NEW o, OrdersAs(o) PROVE o = who
  <2>1. PICK c : world'.orders = world.orders
                 \/ world'.orders = Append(world.orders, [by |-> o, command |-> c])
    BY <1>3 DEF OrdersAs
  <2> DEFINE new == [by |-> o, command |-> c]
  <2>2. new.by = o
    OBVIOUS
  <2> HIDE DEF new
  <2>3. world'.orders = world.orders \/ world'.orders = Append(world.orders, new)
    BY <2>1 DEF new
  <2>4. world'.orders = Append(world.orders, new)
    BY <1>1, <1>2, <2>3
  <2>5. Last(world'.orders) = new
    BY <1>1, <2>4, AppendPlaces DEF Last
  <2> QED
    BY <2>2, <2>5 DEF Orders
<1>4. world'.orders # world.orders
  BY <1>1, <1>2
<1>5. ASSUME world.orders # <<>>, world'.orders = Tail(world.orders) PROVE FALSE
  <2>1. Len(Tail(world.orders)) = Len(world.orders) - 1
    BY <1>1, <1>5, TailPlaces
  <2> DEFINE rest == Tail(world.orders)
  <2>2. Len(rest) = Len(world.orders) - 1 /\ world'.orders = rest
    BY <1>5, <2>1
  <2> HIDE DEF rest
  <2> QED
    BY <1>1, <1>2, <2>2
<1>6. OrdersLocal => who \notin Watched
  BY <1>3, <1>4, <1>5 DEF OrdersLocal
<1> QED
  BY <1>3, <1>4, <1>6, OrdersForms DEF Watched

\* WalkAwayLock does not lock in a key: when it locks, no paired key has stayed in the
\* cabin or in the trunk since it asked for the search (walk_away_lock.rs decides on what
\* the search of the cabin and the trunk has not found, whatever the keys do meanwhile).
THEOREM WalkLocksNoKeyIn == Spec => NoKeyLockedIn
<1> DEFINE A == Orders("WalkAwayLock") =>
                  \A k \in Paired, z \in {"Cabin", "TrunkInside"} : world.known["walk"][k] # {z}
<1>1. Shape /\ SearchInv /\ [Next]_vars => A \/ UNCHANGED vars
  <2> SUFFICES ASSUME Shape, SearchInv, Next, Orders("WalkAwayLock"),
                      NEW k \in Paired, NEW z \in {"Cabin", "TrunkInside"}
               PROVE  world.known["walk"][k] # {z}
    OBVIOUS
  <2>1. Walk /\ world'.orders # world.orders
    BY OrderIsOwn
  <2>2. PICK i \in Answers("walk") : world.searches[i].found = <<>>
    BY <2>1, WalkForms
  <2>3. /\ i \in DOMAIN world.searches
        /\ world.searches[i].by = "walk"
        /\ world.searches[i].found # None
    BY DEF Answers
  <2>4. FoundSound(InteriorLegs, world.searches[i].found, world.known["walk"])
    BY <2>3 DEF SearchInv, SearchesSound
  <2>5. k \notin DOMAIN world.searches[i].found
    <3>1. DOMAIN world.searches[i].found = 1..0
      BY <2>2, NothingIsSeq, SeqPlaces
    <3> QED
      BY <3>1
  <2>6. PICK y \in world.known["walk"][k] : y \notin Coverage(InteriorLegs)
    BY <2>4, <2>5 DEF FoundSound
  <2>7. z \in Coverage(InteriorLegs)
    BY DEF Coverage, CoverageOf, InteriorLegs
  <2> QED
    BY <2>6, <2>7
<1>2. Shape /\ SearchInv /\ [Next]_vars => (Shape /\ SearchInv)'
  BY ShapeKept, SearchKept
<1>3. Init => Shape /\ SearchInv
  BY ShapeInit, SearchInit
<1>4. Shape /\ SearchInv /\ [Next]_vars => [A]_vars
  BY <1>1
<1>5. Spec => [][A]_vars
  BY <1>2, <1>3, <1>4, PTL DEF Spec
<1> QED
  BY <1>5 DEF NoKeyLockedIn

-----------------------------------------------------------------------------
(* PassiveEntry.                                                           *)

\* The variables of PassiveEntry, by name.
PassiveFields == {"zones", "status", "door", "candidates", "nonce", "pending", "timer"}

\* The candidates are known to have been at the door, and there are none
\* before the search of that pull is answered.
PassiveSound ==
  "passive" \in DOMAIN mem =>
    LET m == mem["passive"] IN
    /\ DOMAIN m = PassiveFields
    /\ DOMAIN m.timer = {"answer", "stage"}
    /\ \A k \in m.candidates : k \in Paired /\ ZoneAt(m.door) \in world.known["passive"][k]
    /\ m.door = None => m.candidates = {} /\ m.timer.answer = Off
    /\ \A i \in DOMAIN world.searches :
          world.searches[i].by = "passive"
            => m.candidates = {} /\ m.timer.answer = Off /\ m.door \in Doors

\* What is known of the keys for PassiveEntry is not less, and it has not asked again.
PassiveKnows ==
  /\ "passive" \in DOMAIN world.known =>
        \A k \in Keys : world.known["passive"][k] \subseteq world'.known["passive"][k]
  /\ \A j \in DOMAIN world'.searches :
        world'.searches[j].by = "passive"
          => \E i \in DOMAIN world.searches : world.searches[i].by = "passive"

\* PassiveEntry starts with no candidate.
LEMMA PassiveInit == Init => PassiveSound
<1> SUFFICES ASSUME Init, "passive" \in DOMAIN mem PROVE PassiveSound
  BY DEF PassiveSound
<1>1. PICK b : mem["passive"] = Task("passive", b, world).mem
  BY InitForms
<1>2. mem["passive"] = PassiveTask(b).mem
  BY <1>1 DEF Task, EntryTasks, EntryTask
<1>3. /\ DOMAIN mem["passive"] = PassiveFields
      /\ mem["passive"].candidates = {}
      /\ mem["passive"].door = None
      /\ mem["passive"].timer = Timers({"answer", "stage"})
  BY <1>2 DEF PassiveTask, PassiveFields
<1>4. DOMAIN mem["passive"].timer = {"answer", "stage"} /\ mem["passive"].timer.answer = Off
  BY <1>3 DEF Timers
<1>5. DOMAIN world.searches = {}
  <2>1. world.searches = <<>>
    BY InitForms
  <2>2. DOMAIN world.searches = 1..Len(world.searches) /\ Len(world.searches) = 0
    BY <2>1, NothingIsSeq, SeqPlaces
  <2> QED
    BY <2>2
<1> QED
  BY <1>3, <1>4, <1>5 DEF PassiveSound

\* Only PassiveEntry makes itself forget.
LEMMA PassiveKnowsMore ==
  ASSUME Shape
  PROVE  /\ SameSearches => PassiveKnows
         /\ \A t, legs : Asks(t, legs) /\ t # "passive" => PassiveKnows
         /\ \A t : Takes(t) => PassiveKnows
         /\ SearchServed \/ KeyMoves \/ TimePasses => PassiveKnows
<1>1. ASSUME SameSearches PROVE PassiveKnows
  BY <1>1 DEF SameSearches, PassiveKnows
<1>2. ASSUME NEW t, NEW legs, Asks(t, legs), t # "passive" PROVE PassiveKnows
  <2> DEFINE new == [by |-> t, legs |-> legs, found |-> None, age |-> 0]
             n   == Len(world.searches)
  <2>1. n \in Nat /\ DOMAIN world.searches = 1..n
    BY SeqPlaces DEF Shape, SearchShape
  <2>2. /\ IsSeq(world'.searches) /\ Len(world'.searches) = n + 1
        /\ \A i \in 1..n : world'.searches[i] = world.searches[i]
        /\ world'.searches[n + 1] = new
    BY <1>2, <2>1, AppendPlaces DEF Asks, Shape, SearchShape
  <2>3. DOMAIN world'.searches = 1..(n + 1) /\ new.by = t
    BY <2>2, SeqPlaces
  <2> HIDE DEF new, n
  <2>4. \A j \in DOMAIN world'.searches :
           world'.searches[j].by = "passive"
             => \E i \in DOMAIN world.searches : world.searches[i].by = "passive"
    BY <1>2, <2>1, <2>2, <2>3
  <2>5. world'.known["passive"] = world.known["passive"] \/ "passive" \notin DOMAIN world.known
    BY <1>2 DEF Asks
  <2> QED
    BY <2>4, <2>5 DEF PassiveKnows
<1>3. ASSUME NEW t, Takes(t) PROVE PassiveKnows
  <2> DEFINE n == Len(world.searches)
  <2>1. n \in Nat /\ DOMAIN world.searches = 1..n /\ IsSeq(world.searches)
    BY SeqPlaces DEF Shape, SearchShape
  <2>2. PICK i \in DOMAIN world.searches : world'.searches = RemoveAt(world.searches, i)
    BY <1>3 DEF Takes, Answers
  <2> DEFINE s == RemoveAt(world.searches, i)
  <2>3. /\ IsSeq(s)
        /\ Len(s) = n - 1
        /\ \A j \in 1..(n - 1) :
              s[j] = IF j < i THEN world.searches[j] ELSE world.searches[j + 1]
    BY <2>1, RemovedPlaces
  <2>4. DOMAIN s = 1..(n - 1)
    BY <2>3, SeqPlaces
  <2>5. world'.searches = s
    BY <2>2
  <2> HIDE DEF s, n
  <2>6. ASSUME NEW j \in DOMAIN s PROVE \E m \in DOMAIN world.searches : s[j] = world.searches[m]
    <3>1. j \in 1..(n - 1) /\ j \in DOMAIN world.searches /\ j + 1 \in DOMAIN world.searches
      BY <2>1, <2>4
    <3>2. s[j] = world.searches[j] \/ s[j] = world.searches[j + 1]
      BY <2>3, <3>1
    <3> QED
      BY <3>1, <3>2
  <2> QED
    BY <1>3, <2>5, <2>6 DEF Takes, PassiveKnows
<1>4. ASSUME BeginSearch PROVE PassiveKnows
  <2>1. world'.searches = world.searches /\ world'.known = world.known
    BY <1>4 DEF BeginSearch, Shape, WorldFields
  <2> QED
    BY <2>1 DEF PassiveKnows
<1>5. ASSUME EndSearch PROVE PassiveKnows
  <2>1. PICK i \in NextSearch :
           /\ world'.searches = [world.searches EXCEPT ![i].found = FoundNow(i)]
           /\ world'.known = world.known
    BY <1>5, EndForms
  <2>2. i \in DOMAIN world.searches
    BY DEF NextSearch, Unanswered
  <2>3. /\ DOMAIN world'.searches = DOMAIN world.searches
        /\ \A j \in DOMAIN world.searches : world'.searches[j].by = world.searches[j].by
    BY <2>1, <2>2, FoundPlaces DEF Shape
  <2> QED
    BY <2>1, <2>3 DEF PassiveKnows
<1>6. ASSUME Coalesce PROVE PassiveKnows
  <2>1. PICK i \in NextSearch :
           /\ world'.searches = [world.searches EXCEPT ![i].found = world.recent.found]
           /\ world'.known =
                 [world.known EXCEPT ![world.searches[i].by] =
                     [k \in Keys |-> @[k] \cup {world.recent.at[k]}]]
    BY <1>6, CoalesceForms
  <2>2. i \in DOMAIN world.searches
    BY DEF NextSearch, Unanswered
  <2>3. /\ DOMAIN world'.searches = DOMAIN world.searches
        /\ \A j \in DOMAIN world.searches : world'.searches[j].by = world.searches[j].by
    BY <2>1, <2>2, FoundPlaces DEF Shape
  <2>4. \A t \in DOMAIN world.known : \A k \in Keys : world.known[t][k] \subseteq world'.known[t][k]
    BY <2>1
  <2> QED
    BY <2>3, <2>4 DEF PassiveKnows
<1>7. ASSUME KeyMoves PROVE PassiveKnows
  <2>1. PICK m, z : world'.known = SeenAt(world.known, m, z) /\ world'.searches = world.searches
    BY <1>7 DEF KeyMoves, MoveKey, Shape, WorldFields
  <2>2. \A t \in DOMAIN world.known : \A k \in Keys : world.known[t][k] \subseteq world'.known[t][k]
    BY <2>1 DEF SeenAt, Shape, SinceShape
  <2> QED
    BY <2>1, <2>2 DEF PassiveKnows
<1>8. ASSUME TimePasses PROVE PassiveKnows
  <2>1. world'.searches = Aged(world.searches) /\ world'.known = world.known
    BY <1>8, TimeForms
  <2>2. /\ DOMAIN world'.searches = DOMAIN world.searches
        /\ \A j \in DOMAIN world.searches : world'.searches[j].by = world.searches[j].by
    BY <2>1 DEF Aged, Shape, SearchShape, SearchFields
  <2> QED
    BY <2>1, <2>2 DEF PassiveKnows
<1> QED
  BY <1>1, <1>2, <1>3, <1>4, <1>5, <1>6, <1>7, <1>8 DEF SearchServed

\* The step of another task leaves PassiveEntry alone, but for time.
LEMMA PassiveFrame ==
  ASSUME Shape, Next, ~PassiveStep, "passive" \in DOMAIN mem
  PROVE  /\ PassiveKnows
         /\ \/ mem'["passive"] = mem["passive"]
            \/ mem'["passive"] = [mem["passive"] EXCEPT !.timer = Passed(@)]
<1> DEFINE Same == mem'["passive"] = mem["passive"]
<1>1. ASSUME NEW t, t # "passive", Local(t) PROVE PassiveKnows /\ Same
  <2>1. PassiveKnows
    BY <1>1, PassiveKnowsMore DEF Local, WorldLocal
  <2> QED
    BY <1>1, <2>1 DEF Local, Only
<1>2. ASSUME Walk PROVE PassiveKnows /\ Same
  <2>1. SameSearches \/ Asks("walk", InteriorLegs) \/ Takes("walk")
    BY <1>2, WalkForms
  <2>2. PassiveKnows
    BY <2>1, PassiveKnowsMore
  <2> QED
    BY <1>2, <2>2, WalkForms DEF Only
<1>3. ASSUME RkeStep PROVE PassiveKnows /\ Same
  BY <1>3, RkeForms, PassiveKnowsMore DEF Only
<1>4. ASSUME MotorsStep PROVE PassiveKnows /\ Same
  BY <1>4, RoofForms, PassiveKnowsMore DEF MotorsStep, Only
<1>5. ASSUME SearchServed \/ KeyMoves PROVE PassiveKnows /\ Same
  BY <1>5, ServedForms, PassiveKnowsMore
<1>6. ASSUME PublishOrder \/ EntryHappens PROVE PassiveKnows /\ Same
  BY <1>5, <1>6, AroundForms, PassiveKnowsMore
<1>7. ~Reboots
  BY RebootForms DEF ComfortTasks
<1>8. ASSUME TimePasses
      PROVE  PassiveKnows /\ mem'["passive"] = [mem["passive"] EXCEPT !.timer = Passed(@)]
  BY <1>8, TimeForms, PassiveKnowsMore
<1>9. ASSUME OthersStep PROVE PassiveKnows /\ Same
  BY <1>1, <1>9 DEF OthersStep, Others
<1>10. ASSUME Lost \/ PepsStep \/ FlashStep \/ RelayStep \/ WindowStep \/ RoofSwitchStep
       PROVE  PassiveKnows /\ Same
  BY <1>1, <1>10, LostIsLocal, PepsIsLocal, FlashIsLocal, RelayIsLocal, WindowIsLocal,
     RoofSwitchIsLocal
  DEF FlashStep, RelayStep, WindowStep, RoofSwitchStep
<1> QED
  BY StepCases, <1>2, <1>3, <1>4, <1>5, <1>6, <1>7, <1>8, <1>9, <1>10

\* PassiveEntry's own steps, one by one.
LEMMA PassiveHandleKeeps ==
  ASSUME Shape, PassiveSound, "passive" \in DOMAIN mem, NEW d \in Doors, PassiveHearsHandle(d)
  PROVE  PassiveSound'
<1> DEFINE m == mem["passive"]
           serves == /\ Val("passive", Of("handle", d))
                     /\ IsRear(d) => bus["rearHandles"]
                     /\ AuthNeeded(d, m.status)
           next == [m EXCEPT !.door = IF serves THEN d ELSE None]
<1>1. "passive" \notin Waiting /\ "passive" \in Askers
  BY Readers DEF PassiveHearsHandle, PassiveReads, Askers
<1>2. /\ m.door = None
      /\ \A i \in DOMAIN world.searches : world.searches[i].by # "passive"
  BY <1>1 DEF Waiting
<1>3. /\ DOMAIN m = PassiveFields /\ DOMAIN m.timer = {"answer", "stage"}
      /\ m.candidates = {} /\ m.timer.answer = Off
  BY <1>2 DEF PassiveSound
<1>4. /\ mem' = [mem EXCEPT !["passive"] = next]
      /\ IF serves THEN Ask("passive", {ZoneAt(d)}) ELSE UNCHANGED world
  BY DEF PassiveHearsHandle, React
<1> HIDE DEF serves
<1>5. /\ DOMAIN next = PassiveFields
      /\ next.timer = m.timer /\ next.candidates = {}
      /\ next.door = IF serves THEN d ELSE None
  BY <1>3 DEF PassiveFields
<1>6. mem'["passive"] = next
  BY <1>4
<1> HIDE DEF next, m
<1>7. CASE serves
  BY <1>3, <1>5, <1>6, <1>7, NoneAssumption DEF PassiveSound
<1>8. CASE ~serves
  <2>1. world' = world
    BY <1>4, <1>8
  <2> QED
    BY <1>2, <1>3, <1>5, <1>6, <1>8, <2>1 DEF PassiveSound
<1> QED
  BY <1>7, <1>8

\* The candidates are keys that the search has found in the zone of the door.
LEMMA PassiveChallengesKeeps ==
  ASSUME Shape, SearchInv, PassiveSound, "passive" \in DOMAIN mem,
         NEW i \in Answers("passive"), PassiveChallenges(i)
  PROVE  PassiveSound'
<1> DEFINE m     == mem["passive"]
           found == world.searches[i].found
           z     == ZoneAt(m.door)
           zones == Refreshed(m.zones, found, z)
           cand  == CandidatesAt(zones, z)
           next  == IF cand = {} THEN [m EXCEPT !.zones = zones, !.door = None]
                    ELSE [m EXCEPT !.zones = zones, !.candidates = cand, !.nonce = m.nonce + 1,
                                   !.timer.answer = AnswerTime]
<1>1. /\ i \in DOMAIN world.searches
      /\ world.searches[i].by = "passive"
      /\ found # None
  BY DEF Answers
<1>2. /\ DOMAIN m = PassiveFields /\ DOMAIN m.timer = {"answer", "stage"}
      /\ m.candidates = {} /\ m.timer.answer = Off /\ m.door \in Doors
  BY <1>1 DEF PassiveSound
<1>3. FoundSound(world.searches[i].legs, found, world.known["passive"])
  BY <1>1 DEF SearchInv, SearchesSound
<1>4. \A k \in cand : k \in Paired /\ z \in world.known["passive"][k]
  <2> SUFFICES ASSUME NEW k \in cand PROVE k \in Paired /\ z \in world.known["passive"][k]
    OBVIOUS
  <2>1. k \in Paired /\ zones[k] = z
    BY DEF CandidatesAt
  <2>2. z # "Out"
    BY DEF ZoneAt
  <2>3. k \in DOMAIN found /\ found[k] = z
    BY <2>1, <2>2 DEF Refreshed
  <2> QED
    BY <1>3, <2>1, <2>3 DEF FoundSound
<1>5. /\ world' = Taken(world, i)
      /\ mem' = [mem EXCEPT !["passive"] = next]
  BY DEF PassiveChallenges, Act
<1>6. world'.known = world.known /\ world'.searches = RemoveAt(world.searches, i)
  BY <1>5 DEF Taken, Shape, WorldFields
<1> HIDE DEF cand, zones
<1>7. /\ DOMAIN next = PassiveFields
      /\ DOMAIN next.timer = {"answer", "stage"}
      /\ cand = {} => next.candidates = {} /\ next.door = None /\ next.timer.answer = Off
      /\ cand # {} => next.candidates = cand /\ next.door = m.door
  BY <1>2 DEF PassiveFields
<1>8. mem'["passive"] = next
  BY <1>5
<1>9. \A j \in DOMAIN world'.searches : world'.searches[j].by # "passive"
  <2> DEFINE n == Len(world.searches)
             s == RemoveAt(world.searches, i)
  <2>1. n \in Nat /\ DOMAIN world.searches = 1..n /\ IsSeq(world.searches)
    BY SeqPlaces DEF Shape, SearchShape
  <2>2. /\ IsSeq(s)
        /\ Len(s) = n - 1
        /\ \A j \in 1..(n - 1) :
              s[j] = IF j < i THEN world.searches[j] ELSE world.searches[j + 1]
    BY <1>1, <2>1, RemovedPlaces
  <2>3. DOMAIN s = 1..(n - 1)
    BY <2>2, SeqPlaces
  <2> HIDE DEF s, n
  <2>4. ASSUME NEW j \in DOMAIN s
        PROVE  \E l \in DOMAIN world.searches : l # i /\ s[j] = world.searches[l]
    <3>1. /\ j \in 1..(n - 1) /\ j \in Int /\ i \in Int
          /\ j \in DOMAIN world.searches /\ j + 1 \in DOMAIN world.searches
      BY <1>1, <2>1, <2>3
    <3>2. CASE j < i
      BY <2>2, <3>1, <3>2
    <3>3. CASE ~(j < i)
      BY <2>2, <3>1, <3>3
    <3> QED
      BY <3>2, <3>3
  <2>5. \A l \in DOMAIN world.searches : l # i => world.searches[l].by # "passive"
    BY <1>1 DEF Shape, SearchShape
  <2>6. world'.searches = s
    BY <1>6 DEF s
  <2> QED
    BY <2>4, <2>5, <2>6
<1> HIDE DEF next, m, z
<1>10. m.door # None
  BY <1>2, NoneAssumption
<1>11. \A k \in mem'["passive"].candidates :
          k \in Paired /\ ZoneAt(mem'["passive"].door) \in world'.known["passive"][k]
  BY <1>4, <1>6, <1>7, <1>8 DEF z
<1> QED
  BY <1>7, <1>8, <1>9, <1>10, <1>11 DEF PassiveSound

\* The other steps leave the door and its candidates, or forget both.
LEMMA PassiveRestKeeps ==
  ASSUME Shape, PassiveSound, "passive" \in DOMAIN mem,
         \/ \E k \in Paired : PassiveHearsZone(k) \/ PassiveUnlocks(k)
         \/ PassiveHearsStatus \/ PassiveGivesUp \/ PassiveForgets
  PROVE  PassiveSound'
<1> DEFINE m == mem["passive"]
<1>1. /\ DOMAIN m = PassiveFields
      /\ DOMAIN m.timer = {"answer", "stage"}
      /\ \A k \in m.candidates : k \in Paired /\ ZoneAt(m.door) \in world.known["passive"][k]
      /\ m.door = None => m.candidates = {} /\ m.timer.answer = Off
      /\ \A i \in DOMAIN world.searches :
            world.searches[i].by = "passive"
              => m.candidates = {} /\ m.timer.answer = Off /\ m.door \in Doors
  BY DEF PassiveSound
<1>2. SameSearches
  <2>1. ASSUME NEW who, NEW c, Order(who, c) PROVE SameSearches
    BY <2>1, WorldForms
  <2>2. UNCHANGED world => SameSearches
    BY WorldForms
  <2> QED
    BY <2>1, <2>2
    DEF PassiveHearsZone, PassiveUnlocks, PassiveHearsStatus, PassiveGivesUp, PassiveForgets, Keeps
<1>3. world'.known = world.known /\ world'.searches = world.searches
  BY <1>2 DEF SameSearches
<1>4. ASSUME NEW k \in Paired, PassiveHearsZone(k)
      PROVE  \E v : mem'["passive"] = [m EXCEPT !.zones[k] = v]
  BY <1>4 DEF PassiveHearsZone, React
<1>5. ASSUME PassiveHearsStatus PROVE \E v : mem'["passive"] = [m EXCEPT !["status"] = v]
  BY <1>5 DEF PassiveHearsStatus, Keeps, React
<1>6. ASSUME NEW k \in Paired, PassiveUnlocks(k)
      PROVE  /\ k \in m.candidates
             /\ \E p, s : mem'["passive"] =
                  [m EXCEPT !.door = None, !.candidates = {}, !.timer.answer = Off,
                            !.pending = p, !.timer.stage = s]
  BY <1>6 DEF PassiveUnlocks, Act
<1>7. ASSUME PassiveGivesUp
      PROVE  /\ m.timer.answer = 0
             /\ mem'["passive"] =
                  [m EXCEPT !.door = None, !.candidates = {}, !.timer.answer = Off]
  BY <1>7 DEF PassiveGivesUp, Act, Due
<1>8. ASSUME PassiveForgets
      PROVE  mem'["passive"] = [m EXCEPT !.pending = None, !.timer.stage = Off]
  BY <1>8 DEF PassiveForgets, Act
<1> HIDE DEF m
<1>9. ASSUME \/ \E k, v : mem'["passive"] = [m EXCEPT !.zones[k] = v]
             \/ \E v : mem'["passive"] = [m EXCEPT !["status"] = v]
             \/ mem'["passive"] = [m EXCEPT !.pending = None, !.timer.stage = Off]
      PROVE  PassiveSound'
  <2>1. /\ DOMAIN mem'["passive"] = PassiveFields
        /\ DOMAIN mem'["passive"].timer = {"answer", "stage"}
        /\ mem'["passive"].candidates = m.candidates
        /\ mem'["passive"].door = m.door
        /\ mem'["passive"].timer.answer = m.timer.answer
    BY <1>1, <1>9 DEF PassiveFields
  <2> QED
    BY <1>1, <1>3, <2>1 DEF PassiveSound
<1>10. ASSUME m.candidates # {} \/ m.timer.answer # Off,
              DOMAIN mem'["passive"] = PassiveFields,
              DOMAIN mem'["passive"].timer = {"answer", "stage"},
              mem'["passive"].candidates = {},
              mem'["passive"].door = None,
              mem'["passive"].timer.answer = Off
       PROVE  PassiveSound'
  <2>1. \A i \in DOMAIN world.searches : world.searches[i].by # "passive"
    BY <1>1, <1>10
  <2> QED
    BY <1>3, <1>10, <2>1 DEF PassiveSound
<1>11. ASSUME m.candidates # {}, NEW p, NEW s,
              mem'["passive"] =
                  [m EXCEPT !.door = None, !.candidates = {}, !.timer.answer = Off,
                            !.pending = p, !.timer.stage = s]
       PROVE  PassiveSound'
  <2>1. /\ DOMAIN mem'["passive"] = PassiveFields
        /\ mem'["passive"].candidates = {}
        /\ mem'["passive"].door = None
        /\ mem'["passive"].timer = [m.timer EXCEPT !.answer = Off, !.stage = s]
    BY <1>1, <1>11 DEF PassiveFields
  <2>2. DOMAIN mem'["passive"].timer = {"answer", "stage"} /\ mem'["passive"].timer.answer = Off
    BY <1>1, <2>1
  <2> QED
    BY <1>10, <1>11, <2>1, <2>2
<1>12. ASSUME m.timer.answer = 0,
              mem'["passive"] =
                  [m EXCEPT !.door = None, !.candidates = {}, !.timer.answer = Off]
       PROVE  PassiveSound'
  <2>1. /\ DOMAIN mem'["passive"] = PassiveFields
        /\ mem'["passive"].candidates = {}
        /\ mem'["passive"].door = None
        /\ mem'["passive"].timer = [m.timer EXCEPT !.answer = Off]
    BY <1>1, <1>12 DEF PassiveFields
  <2>2. DOMAIN mem'["passive"].timer = {"answer", "stage"} /\ mem'["passive"].timer.answer = Off
    BY <1>1, <2>1
  <2>3. m.timer.answer # Off
    BY <1>12 DEF Off
  <2> QED
    BY <1>10, <2>1, <2>2, <2>3
<1> QED
  BY <1>4, <1>5, <1>6, <1>7, <1>8, <1>9, <1>11, <1>12

\* Whatever else happens, no less is known of the candidates.
LEMMA PassiveOthersKeep ==
  ASSUME Shape, PassiveSound, "passive" \in DOMAIN mem, Next, ~PassiveStep
  PROVE  PassiveSound'
<1> DEFINE m == mem["passive"]
<1>1. PassiveKnows /\ (mem'["passive"] = m \/ mem'["passive"] = [m EXCEPT !.timer = Passed(@)])
  BY PassiveFrame
<1>2. /\ DOMAIN m = PassiveFields
      /\ DOMAIN m.timer = {"answer", "stage"}
      /\ \A k \in m.candidates : k \in Paired /\ ZoneAt(m.door) \in world.known["passive"][k]
      /\ m.door = None => m.candidates = {} /\ m.timer.answer = Off
      /\ \A i \in DOMAIN world.searches :
            world.searches[i].by = "passive"
              => m.candidates = {} /\ m.timer.answer = Off /\ m.door \in Doors
  BY DEF PassiveSound
<1> HIDE DEF m
<1>3. DOMAIN Passed(m.timer) = DOMAIN m.timer
      /\ (m.timer.answer = Off => Passed(m.timer).answer = Off)
  BY <1>2 DEF Passed, Off
<1>4. /\ DOMAIN mem'["passive"] = PassiveFields
      /\ DOMAIN mem'["passive"].timer = {"answer", "stage"}
      /\ mem'["passive"].candidates = m.candidates
      /\ mem'["passive"].door = m.door
      /\ m.timer.answer = Off => mem'["passive"].timer.answer = Off
  BY <1>1, <1>2, <1>3 DEF PassiveFields
<1>5. "passive" \in DOMAIN world.known
  BY DEF Shape, SinceShape, Askers
<1>6. \A k \in m.candidates : k \in Paired /\ ZoneAt(m.door) \in world'.known["passive"][k]
  BY <1>1, <1>2, <1>5, LockWorldAssumption DEF PassiveKnows
<1>7. \A j \in DOMAIN world'.searches :
         world'.searches[j].by = "passive"
           => m.candidates = {} /\ m.timer.answer = Off /\ m.door \in Doors
  BY <1>1, <1>2 DEF PassiveKnows
<1> QED
  BY <1>2, <1>4, <1>6, <1>7 DEF PassiveSound

\* PassiveEntry's candidates are sound always.
LEMMA PassiveKept == ASSUME Shape, SearchInv, PassiveSound, [Next]_vars PROVE PassiveSound'
<1>1. CASE UNCHANGED vars
  BY <1>1 DEF vars, PassiveSound
<1>2. CASE Next /\ "passive" \notin DOMAIN mem
  BY <1>2, WorldSteps DEF PassiveSound
<1>3. CASE PassiveStep /\ "passive" \in DOMAIN mem
  BY <1>3, PassiveHandleKeeps, PassiveChallengesKeeps, PassiveRestKeeps DEF PassiveStep
<1>4. CASE Next /\ ~PassiveStep /\ "passive" \in DOMAIN mem
  BY <1>4, PassiveOthersKeep
<1> QED
  BY <1>1, <1>2, <1>3, <1>4

\* A handle opens the car only for a paired key that was at that door at some moment
\* since it was pulled, or when the search looked whose answer the pull shares
\* (passive_entry.rs challenges the candidates of the last search only, and forgets them
\* with the door).
THEOREM PassiveOpensForKeySearched == Spec => OpensForKeySearched
<1> DEFINE Inv == Shape /\ SearchInv /\ PassiveSound
           A == Orders("PassiveEntry") =>
                  \E k \in Paired : ZoneAt(mem["passive"].door) \in world.known["passive"][k]
<1>1. Inv /\ [Next]_vars => [A]_vars
  <2> SUFFICES ASSUME Shape, PassiveSound, Next, Orders("PassiveEntry")
               PROVE  \E k \in Paired : ZoneAt(mem["passive"].door) \in world.known["passive"][k]
    OBVIOUS
  <2>1. PassiveStep /\ world'.orders # world.orders
    BY OrderIsOwn
  <2>2. PICK k \in Paired : PassiveUnlocks(k)
    <3>1. \A d : PassiveHearsHandle(d) => world'.orders = world.orders
      BY DEF PassiveHearsHandle, Ask, Asked, Shape, WorldFields
    <3>2. \A i : PassiveChallenges(i) => world'.orders = world.orders
      BY DEF PassiveChallenges, Taken, Shape, WorldFields
    <3>3. \/ PassiveHearsStatus \/ PassiveGivesUp \/ PassiveForgets
          \/ \E k \in Paired : PassiveHearsZone(k)
          => world'.orders = world.orders
      BY DEF PassiveHearsStatus, PassiveGivesUp, PassiveForgets, PassiveHearsZone, Keeps
    <3> QED
      BY <2>1, <3>1, <3>2, <3>3 DEF PassiveStep
  <2>3. "passive" \in DOMAIN mem /\ k \in mem["passive"].candidates
    BY <2>2 DEF PassiveUnlocks, Runs
  <2> QED
    BY <2>3 DEF PassiveSound
<1>2. Inv /\ [Next]_vars => Inv'
  BY ShapeKept, SearchKept, PassiveKept
<1>3. Init => Inv
  BY ShapeInit, SearchInit, PassiveInit
<1>4. Spec => [][A]_vars
  BY <1>1, <1>2, <1>3, PTL DEF Spec
<1> QED
  BY <1>4 DEF OpensForKeySearched

-----------------------------------------------------------------------------
(* The indicators' relay.                                                  *)

\* A lamp is found to be sound again.
LampMended == \E side \in Sides : RelayHearsDefect(side) /\ ~Val("relay", Of("defect", side))

\* Two sides that blink: their sleeps end together, or one side has been switched and the
\* other is about to be.
InStep(m) ==
  \/ m.timer["left"] = m.timer["right"] /\ m.lamp["left"] = m.lamp["right"]
  \/ \E side \in Sides :
        /\ m.timer[side] = 0
        /\ m.timer[OtherSide(side)] = PeriodNormal
        /\ m.lamp[side] # m.lamp[OtherSide(side)]

\* The lamps of a relay that blinks on both sides do.
BlinksInStep(m) ==
  (\A side \in Sides : m.signaling[side] /\ ~m.defect[side]) => InStep(m)

\* The form of the relay's variables.
RelayFields(m) ==
  /\ DOMAIN m = {"signaling", "lamp", "defect", "timer"}
  /\ DOMAIN m.signaling = Sides /\ DOMAIN m.defect = Sides
  /\ m.lamp \in [Sides -> BOOLEAN]
  /\ m.timer \in [Sides -> Nat \cup {Off}]
  /\ \A side \in Sides : m.timer[side] = Off <=> ~m.signaling[side]

\* The relay's lamps blink in step.
RelaySound ==
  "relay" \in DOMAIN mem => RelayFields(mem["relay"]) /\ BlinksInStep(mem["relay"])

\* The relay starts dark.
LEMMA RelayStarts == RelayFields(RelayTask.mem) /\ BlinksInStep(RelayTask.mem)
<1> DEFINE m == RelayTask.mem
<1>1. /\ DOMAIN m = {"signaling", "lamp", "defect", "timer"}
      /\ m.signaling = [side \in Sides |-> FALSE]
      /\ m.lamp = [side \in Sides |-> FALSE]
      /\ m.defect = [side \in Sides |-> FALSE]
      /\ m.timer = [side \in Sides |-> Off]
  BY DEF RelayTask, Timers
<1> HIDE DEF m
<1>2. "left" \in Sides
  BY DEF Sides
<1>3. m.lamp \in [Sides -> BOOLEAN] /\ m.timer \in [Sides -> Nat \cup {Off}]
  BY <1>1
<1>4. \A side \in Sides : m.timer[side] = Off /\ ~m.signaling[side]
  BY <1>1
<1>5. DOMAIN m.signaling = Sides /\ DOMAIN m.defect = Sides
  BY <1>1
<1>6. BlinksInStep(m)
  BY <1>2, <1>4 DEF BlinksInStep
<1>7. DOMAIN m = {"signaling", "lamp", "defect", "timer"}
  BY <1>1
<1>8. RelayFields(m)
  BY <1>3, <1>4, <1>5, <1>7, Zenon DEF RelayFields
<1> QED
  BY <1>6, <1>8 DEF m

\* The periods.
LEMMA BlinkPeriods ==
  /\ \A m, side : BlinkPeriod(m, side) \in Nat /\ BlinkPeriod(m, side) # Off
                  /\ BlinkPeriod(m, side) # 0
  /\ \A m, side : m.signaling[OtherSide(side)] => BlinkPeriod(m, side) = PeriodNormal
  BY LampsAssumption DEF BlinkPeriod, Off

\* Both sides start anew.
LEMMA RearmedForms ==
  ASSUME NEW m, DOMAIN m = {"signaling", "lamp", "defect", "timer"}
  PROVE  /\ DOMAIN Rearmed(m) = {"signaling", "lamp", "defect", "timer"}
         /\ Rearmed(m).signaling = m.signaling
         /\ Rearmed(m).defect = m.defect
         /\ Rearmed(m).lamp = m.lamp
         /\ Rearmed(m).timer = [side \in Sides |->
                IF m.signaling[side] THEN BlinkPeriod(m, side) ELSE Off]
  BY DEF Rearmed

\* A side is told to blink or to stop.
LEMMA RelayHearsKeeps ==
  ASSUME RelaySound, "relay" \in DOMAIN mem, NEW side \in Sides, RelayHears(side)
  PROVE  RelaySound'
<1> DEFINE old == mem["relay"]
           v   == Val("relay", Of("signal", side))
           m   == [old EXCEPT !.signaling[side] = v]
           lit == {side} \cup {x \in {OtherSide(side)} : m.signaling[x]}
<1>1. RelayFields(old) /\ BlinksInStep(old)
  BY DEF RelaySound
<1>2. \/ /\ v /\ ~old.signaling[side]
         /\ mem' = [mem EXCEPT !["relay"] =
               [Rearmed(m) EXCEPT !.lamp = [x \in Sides |-> IF x \in lit THEN TRUE ELSE @[x]]]]
      \/ /\ ~v /\ old.signaling[side]
         /\ mem' = [mem EXCEPT !["relay"] = [Rearmed(m) EXCEPT !.lamp[side] = FALSE]]
      \/ /\ v <=> old.signaling[side]
         /\ mem' = [mem EXCEPT !["relay"] = m]
  BY DEF RelayHears, React
<1> HIDE DEF v, lit, old
<1>3. /\ DOMAIN m = {"signaling", "lamp", "defect", "timer"}
      /\ m.lamp = old.lamp /\ m.defect = old.defect /\ m.timer = old.timer
      /\ DOMAIN m.signaling = Sides
      /\ m.signaling[side] = v
      /\ \A x \in Sides \ {side} : m.signaling[x] = old.signaling[x]
  BY <1>1 DEF RelayFields
<1>4. OtherSide(side) \in Sides /\ OtherSide(side) # side /\ Sides = {side, OtherSide(side)}
      /\ OtherSide(OtherSide(side)) = side
  BY DEF Sides, OtherSide
<1> HIDE DEF m
<1>5. /\ DOMAIN Rearmed(m) = {"signaling", "lamp", "defect", "timer"}
      /\ Rearmed(m).signaling = m.signaling
      /\ Rearmed(m).defect = old.defect
      /\ Rearmed(m).lamp = old.lamp
      /\ Rearmed(m).timer = [x \in Sides |->
                IF m.signaling[x] THEN BlinkPeriod(m, x) ELSE Off]
  BY <1>3, RearmedForms
<1> DEFINE n == mem'["relay"]
<1>6. CASE v /\ ~old.signaling[side]
  <2>1. n = [Rearmed(m) EXCEPT !.lamp = [x \in Sides |-> IF x \in lit THEN TRUE ELSE @[x]]]
    BY <1>2, <1>6 DEF old
  <2>2. /\ DOMAIN n = {"signaling", "lamp", "defect", "timer"}
        /\ n.signaling = m.signaling /\ n.defect = old.defect
        /\ n.lamp = [x \in Sides |-> IF x \in lit THEN TRUE ELSE old.lamp[x]]
        /\ n.timer = [x \in Sides |-> IF m.signaling[x] THEN BlinkPeriod(m, x) ELSE Off]
    BY <1>5, <2>1
  <2> HIDE DEF n
  <2>3. RelayFields(n)
    <3>1. \A x \in Sides : /\ n.timer[x] \in Nat \cup {Off}
                           /\ n.timer[x] = Off <=> ~n.signaling[x]
      BY <2>2, BlinkPeriods
    <3>2. n.timer \in [Sides -> Nat \cup {Off}]
      BY <2>2, <3>1
    <3>3. n.lamp \in [Sides -> BOOLEAN]
      BY <1>1, <2>2 DEF RelayFields
    <3>4. DOMAIN n.signaling = Sides /\ DOMAIN n.defect = Sides
      BY <1>1, <1>3, <2>2 DEF RelayFields
    <3> QED
      BY <2>2, <3>1, <3>2, <3>3, <3>4 DEF RelayFields
  <2>4. ASSUME \A x \in Sides : n.signaling[x] PROVE InStep(n)
    <3>1. \A x \in Sides : m.signaling[x] /\ m.signaling[OtherSide(x)]
      BY <1>4, <2>2, <2>4 DEF OtherSide, Sides
    <3>2. \A x \in Sides : n.timer[x] = PeriodNormal
      BY <2>2, <3>1, BlinkPeriods
    <3>3. \A x \in Sides : x \in lit
      BY <1>4, <3>1 DEF lit
    <3>4. \A x \in Sides : n.lamp[x] = TRUE
      BY <2>2, <3>3
    <3> QED
      BY <3>2, <3>4 DEF InStep, Sides
  <2> QED
    BY <2>3, <2>4 DEF RelaySound, BlinksInStep, n
<1>7. CASE ~v /\ old.signaling[side]
  <2>1. n = [Rearmed(m) EXCEPT !.lamp[side] = FALSE]
    BY <1>2, <1>7 DEF old
  <2>2. /\ DOMAIN n = {"signaling", "lamp", "defect", "timer"}
        /\ n.signaling = m.signaling /\ n.defect = old.defect
        /\ n.lamp = [old.lamp EXCEPT ![side] = FALSE]
        /\ n.timer = [x \in Sides |-> IF m.signaling[x] THEN BlinkPeriod(m, x) ELSE Off]
    BY <1>5, <2>1
  <2> HIDE DEF n
  <2>3. RelayFields(n)
    <3>1. \A x \in Sides : /\ n.timer[x] \in Nat \cup {Off}
                           /\ n.timer[x] = Off <=> ~n.signaling[x]
      BY <2>2, BlinkPeriods
    <3>2. n.timer \in [Sides -> Nat \cup {Off}]
      BY <2>2, <3>1
    <3>3. n.lamp \in [Sides -> BOOLEAN]
      BY <1>1, <2>2 DEF RelayFields
    <3>4. DOMAIN n.signaling = Sides /\ DOMAIN n.defect = Sides
      BY <1>1, <1>3, <2>2 DEF RelayFields
    <3> QED
      BY <2>2, <3>1, <3>2, <3>3, <3>4 DEF RelayFields
  <2>4. ~n.signaling[side]
    BY <1>3, <1>7, <2>2
  <2> QED
    BY <2>3, <2>4 DEF RelaySound, BlinksInStep, n
<1>8. CASE v <=> old.signaling[side]
  <2>1. n = m
    BY <1>2, <1>8 DEF old
  <2> HIDE DEF n
  <2>2. \A x \in Sides : m.signaling[x] <=> old.signaling[x]
    BY <1>3, <1>8
  <2>3. RelayFields(n)
    BY <1>1, <1>3, <2>1, <2>2 DEF RelayFields
  <2>4. BlinksInStep(n)
    BY <1>1, <1>3, <2>1, <2>2 DEF BlinksInStep, InStep
  <2> QED
    BY <2>3, <2>4 DEF RelaySound, n
<1> QED
  BY <1>2, <1>6, <1>7, <1>8

\* A lamp is reported broken.
LEMMA RelayDefectKeeps ==
  ASSUME RelaySound, "relay" \in DOMAIN mem, NEW side \in Sides, RelayHearsDefect(side),
         ~LampMended
  PROVE  RelaySound'
<1> DEFINE old == mem["relay"]
           v   == Val("relay", Of("defect", side))
           m   == [old EXCEPT !.defect[side] = v]
           n   == mem'["relay"]
<1>1. RelayFields(old)
  BY DEF RelaySound
<1>2. v
  BY DEF LampMended
<1>3. n = IF m.signaling[side] THEN Rearmed(m) ELSE m
  BY DEF RelayHearsDefect, React
<1> HIDE DEF v, old
<1>4. /\ DOMAIN m = {"signaling", "lamp", "defect", "timer"}
      /\ m.lamp = old.lamp /\ m.signaling = old.signaling /\ m.timer = old.timer
      /\ DOMAIN m.defect = Sides
      /\ m.defect[side] = v
  BY <1>1 DEF RelayFields
<1> HIDE DEF m
<1>5. /\ DOMAIN n = {"signaling", "lamp", "defect", "timer"}
      /\ n.signaling = old.signaling /\ n.lamp = old.lamp
      /\ DOMAIN n.defect = Sides /\ n.defect[side] = v
      /\ \/ n.timer = old.timer
         \/ n.timer = [x \in Sides |-> IF old.signaling[x] THEN BlinkPeriod(m, x) ELSE Off]
  BY <1>3, <1>4, RearmedForms
<1> HIDE DEF n
<1>6. RelayFields(n)
  BY <1>1, <1>5, BlinkPeriods DEF RelayFields
<1>7. BlinksInStep(n)
  BY <1>2, <1>5 DEF BlinksInStep
<1> QED
  BY <1>6, <1>7 DEF RelaySound, n

\* A side is switched.
LEMMA RelayTicksKeeps ==
  ASSUME RelaySound, "relay" \in DOMAIN mem, NEW side \in Sides, RelayTicks(side)
  PROVE  RelaySound'
<1> DEFINE old == mem["relay"]
           n   == mem'["relay"]
           o   == OtherSide(side)
<1>1. RelayFields(old) /\ BlinksInStep(old)
  BY DEF RelaySound
<1>2. /\ old.timer[side] = 0 /\ old.signaling[side]
      /\ n = [old EXCEPT !.lamp[side] = ~@, !.timer[side] = BlinkPeriod(old, side)]
  BY DEF RelayTicks, Act, Due
<1> HIDE DEF old
<1>3. /\ DOMAIN n = {"signaling", "lamp", "defect", "timer"}
      /\ n.signaling = old.signaling /\ n.defect = old.defect
      /\ n.lamp = [old.lamp EXCEPT ![side] = ~old.lamp[side]]
      /\ n.timer = [old.timer EXCEPT ![side] = BlinkPeriod(old, side)]
  BY <1>1, <1>2 DEF RelayFields
<1> HIDE DEF n
<1>4. RelayFields(n)
  BY <1>1, <1>2, <1>3, BlinkPeriods DEF RelayFields
<1>5. o \in Sides /\ o # side /\ Sides = {side, o} /\ OtherSide(o) = side
  BY DEF Sides, OtherSide
<1>6. ASSUME \A x \in Sides : n.signaling[x] /\ ~n.defect[x] PROVE InStep(n)
  <2>1. InStep(old)
    BY <1>1, <1>3, <1>6 DEF BlinksInStep
  <2>2. BlinkPeriod(old, side) = PeriodNormal
    BY <1>3, <1>5, <1>6, BlinkPeriods
  <2>3. PeriodNormal # 0
    BY LampsAssumption
  <2> HIDE DEF o
  <2>4. /\ n.timer[side] = PeriodNormal /\ n.timer[o] = old.timer[o]
        /\ n.lamp[side] = ~old.lamp[side] /\ n.lamp[o] = old.lamp[o]
        /\ old.lamp[side] \in BOOLEAN /\ old.lamp[o] \in BOOLEAN
    BY <1>1, <1>3, <1>5, <2>2 DEF RelayFields
  <2>5. \/ old.timer[o] = 0 /\ old.lamp[side] = old.lamp[o]
        \/ old.timer[o] = PeriodNormal /\ old.lamp[side] # old.lamp[o]
    <3>1. CASE old.timer["left"] = old.timer["right"] /\ old.lamp["left"] = old.lamp["right"]
      BY <1>2, <1>5, <3>1 DEF Sides
    <3>2. ASSUME NEW x \in Sides, old.timer[x] = 0, old.timer[OtherSide(x)] = PeriodNormal,
                 old.lamp[x] # old.lamp[OtherSide(x)]
          PROVE  old.timer[o] = PeriodNormal /\ old.lamp[side] # old.lamp[o]
      <4>1. x = side
        BY <1>2, <1>5, <2>3, <3>2
      <4> QED
        BY <3>2, <4>1 DEF o
    <3> QED
      BY <2>1, <3>1, <3>2 DEF InStep
  <2>6. CASE old.timer[o] = 0 /\ old.lamp[side] = old.lamp[o]
    BY <1>5, <2>4, <2>6 DEF InStep
  <2>7. CASE old.timer[o] = PeriodNormal /\ old.lamp[side] # old.lamp[o]
    <3>1. n.timer[side] = n.timer[o] /\ n.lamp[side] = n.lamp[o]
      BY <2>4, <2>7
    <3> QED
      BY <1>5, <3>1 DEF InStep, Sides
  <2> QED
    BY <2>5, <2>6, <2>7
<1> QED
  BY <1>4, <1>6 DEF RelaySound, BlinksInStep, n

\* Time passes for both sides when neither is to be switched.
LEMMA RelayTimeKeeps ==
  ASSUME Shape, RelaySound, "relay" \in DOMAIN mem, TimePasses
  PROVE  RelaySound'
<1> DEFINE old == mem["relay"]
           n   == mem'["relay"]
<1>1. RelayFields(old) /\ BlinksInStep(old)
  BY DEF RelaySound
<1>2. n = [old EXCEPT !.timer = Passed(@)]
  BY TimeForms
<1>3. "relay" \notin Waiting
  BY DEF Waiting, Shape, SinceShape, SearchShape, Askers
<1>4. \A side \in Sides : old.timer[side] # 0
  BY <1>1, <1>3 DEF TimePasses, Tick, RelayFields
<1> HIDE DEF old
<1>5. /\ DOMAIN n = {"signaling", "lamp", "defect", "timer"}
      /\ n.signaling = old.signaling /\ n.defect = old.defect /\ n.lamp = old.lamp
      /\ n.timer = [side \in Sides |-> IF old.timer[side] > 0 THEN old.timer[side] - 1
                                       ELSE old.timer[side]]
  BY <1>1, <1>2 DEF RelayFields, Passed
<1> HIDE DEF n
<1>6. \A side \in Sides : /\ n.timer[side] \in Nat \cup {Off}
                          /\ n.timer[side] = Off <=> old.timer[side] = Off
  BY <1>1, <1>4, <1>5 DEF RelayFields, Off
<1>7. RelayFields(n)
  BY <1>1, <1>5, <1>6 DEF RelayFields
<1>8. BlinksInStep(n)
  BY <1>1, <1>4, <1>5 DEF BlinksInStep, InStep, Sides
<1> QED
  BY <1>7, <1>8 DEF RelaySound, n

\* As long as no lamp is mended, the relay blinks in step always.
LEMMA RelayKept == ASSUME Shape, RelaySound, [Next]_vars, [~LampMended]_vars PROVE RelaySound'
<1>1. CASE UNCHANGED vars
  BY <1>1 DEF vars, RelaySound
<1>2. CASE Next /\ "relay" \notin DOMAIN mem
  BY <1>2, WorldSteps DEF RelaySound
<1> SUFFICES ASSUME Next, "relay" \in DOMAIN mem, ~UNCHANGED vars PROVE RelaySound'
  BY <1>1, <1>2
<1>3. ~LampMended
  OBVIOUS
<1>4. CASE RelayStep
  BY <1>3, <1>4, RelayHearsKeeps, RelayDefectKeeps, RelayTicksKeeps DEF RelayStep
<1>5. CASE TimePasses
  BY <1>5, RelayTimeKeeps
<1>6. CASE Reboots
  <2>1. PICK b : mem' = [t \in DOMAIN mem |-> ComfortTask(t, b, world.saved).mem]
    BY <1>6, Zenon DEF Reboots
  <2>2. mem'["relay"] = RelayTask.mem
    BY <2>1 DEF ComfortTask
  <2> QED
    BY <2>2, RelayStarts DEF RelaySound
<1>7. ASSUME NEW t, t # "relay", Only(t) PROVE RelaySound'
  BY <1>7 DEF Only, RelaySound
<1>8. ASSUME UNCHANGED mem PROVE RelaySound'
  BY <1>8 DEF RelaySound
<1> QED
  BY StepCases, OnlyForms, <1>4, <1>5, <1>6, <1>7, <1>8 DEF Others

\* As long as no lamp is mended, lamps that blink on both sides and are not broken blink
\* together, whatever made each side blink and in whatever order (blink_relay.rs starts
\* both sides anew when the second one is told to blink, and each sleep is rearmed alone).
THEOREM LampsBlinkTogether == Spec /\ [][~LampMended]_vars => []SoundLampsBlinkTogether
<1> DEFINE Inv == Shape /\ RelaySound
<1>1. Init => Inv
  <2>1. Init => RelaySound
    <3> SUFFICES ASSUME Init, "relay" \in DOMAIN mem PROVE RelaySound
      BY DEF RelaySound
    <3>1. PICK b : mem["relay"] = Task("relay", b, world).mem
      BY InitForms
    <3>2. mem["relay"] = RelayTask.mem
      BY <3>1 DEF Task, EntryTasks, ComfortTask
    <3> QED
      BY <3>2, RelayStarts DEF RelaySound
  <2> QED
    BY <2>1, ShapeInit
<1>2. Inv /\ [Next]_vars /\ [~LampMended]_vars => Inv'
  BY ShapeKept, RelayKept
<1>3. Inv => SoundLampsBlinkTogether
  <2> SUFFICES ASSUME RelaySound, "relay" \in DOMAIN mem,
                      \A side \in Sides : /\ mem["relay"].signaling[side]
                                          /\ ~mem["relay"].defect[side]
                                          /\ mem["relay"].timer[side] # 0
               PROVE  mem["relay"].lamp["left"] = mem["relay"].lamp["right"]
    BY DEF SoundLampsBlinkTogether, Runs
  <2> QED
    BY DEF RelaySound, BlinksInStep, InStep
<1> QED
  BY <1>1, <1>2, <1>3, PTL DEF Spec

-----------------------------------------------------------------------------
(* What a step leaves of the signals that only some tasks publish.         *)

\* Nothing of news is about a signal of S.
Mutes(news, S) == \A i \in DOMAIN news : news[i][1] \notin S

\* Nothing of the requests is about a signal of S.
Spares(requests, S) == \A i \in DOMAIN requests : requests[i].signal \notin S

\* The signals of S, the claims on them and the queues of all tasks but t stay.
Mute(t, S) ==
  /\ \A s \in S \cap DOMAIN bus : s \in DOMAIN bus' /\ bus'[s] = bus[s]
  /\ DOMAIN unread' = DOMAIN unread
  /\ \A u \in DOMAIN unread : DOMAIN unread'[u] = DOMAIN unread[u]
  /\ \A u \in DOMAIN unread \ {t} : \A s \in S \cap DOMAIN unread[u] :
        IsSeq(unread[u][s]) => unread'[u][s] = unread[u][s]
  /\ DOMAIN world'.claims = DOMAIN world.claims
  /\ \A s \in S \cap DOMAIN world.claims : world'.claims[s] = world.claims[s]

\* Nothing said of a signal leaves its value and its queues.
LEMMA MuteNews ==
  ASSUME NEW news, NEW S, Mutes(news, S), NEW queues, NEW s \in S
  PROVE  /\ s \in DOMAIN bus => s \in DOMAIN BusAfter(news) /\ BusAfter(news)[s] = bus[s]
         /\ ValuesOf(news, s) = <<>>
         /\ DOMAIN Delivered(queues, news) = DOMAIN queues
         /\ \A u \in DOMAIN queues :
               /\ DOMAIN Delivered(queues, news)[u] = DOMAIN queues[u]
               /\ s \in DOMAIN queues[u] /\ IsSeq(queues[u][s])
                    => Delivered(queues, news)[u][s] = queues[u][s]
<1>1. PlacesOf(news, s) = {} /\ s \notin {news[i][1] : i \in DOMAIN news}
  BY DEF Mutes, PlacesOf
<1>2. s \in DOMAIN bus => s \in DOMAIN BusAfter(news) /\ BusAfter(news)[s] = bus[s]
  BY <1>1 DEF BusAfter, Over
<1>3. ValuesOf(news, s) = <<>>
  BY <1>1, FS_EmptySet DEF ValuesOf
<1>4. ASSUME NEW q, IsSeq(q) PROVE q \o <<>> = q
  <2>1. PICK X : q \in Seq(X)
    BY <1>4 DEF IsSeq
  <2> QED
    BY <2>1
<1> QED
  BY <1>2, <1>3, <1>4 DEF Delivered

\* What a task publishes about other signals leaves those of S.
LEMMA MutePublishes ==
  ASSUME NEW S, NEW news, Mutes(news, S), NEW t, NEW queues, NEW b,
         bus' = BusAfter(news), unread' = Delivered(queues, news),
         DOMAIN queues = DOMAIN unread,
         \A u \in DOMAIN unread : DOMAIN queues[u] = DOMAIN unread[u],
         \A u \in DOMAIN unread \ {t} : queues[u] = unread[u],
         world'.claims = world.claims
  PROVE  Mute(t, S)
<1>1. \A s \in S \cap DOMAIN bus : s \in DOMAIN bus' /\ bus'[s] = bus[s]
  BY MuteNews
<1>2. /\ DOMAIN unread' = DOMAIN unread
      /\ \A u \in DOMAIN unread : DOMAIN unread'[u] = DOMAIN unread[u]
  BY DEF Delivered
<1>3. \A u \in DOMAIN unread \ {t} : \A s \in S \cap DOMAIN unread[u] :
        IsSeq(unread[u][s]) => unread'[u][s] = unread[u][s]
  BY MuteNews
<1> QED
  BY <1>1, <1>2, <1>3 DEF Mute

\* Requests about other signals leave the claims on those of S.
LEMMA SparedClaims ==
  ASSUME NEW S, NEW requests, Spares(requests, S)
  PROVE  /\ DOMAIN AllServed(requests) = DOMAIN world.claims
         /\ \A s \in S \cap DOMAIN world.claims : AllServed(requests)[s] = world.claims[s]
         /\ S \cap DOMAIN Changed(AllServed(requests)) = {}
<1>1. DOMAIN AllServed(requests) = DOMAIN world.claims
  BY DEF AllServed
<1>2. ASSUME NEW s \in S \cap DOMAIN world.claims PROVE AllServed(requests)[s] = world.claims[s]
  <2>1. {i \in DOMAIN requests : requests[i].signal = s /\ Allows(requests[i])} = {}
    BY DEF Spares
  <2> QED
    BY <2>1 DEF AllServed
<1>3. S \cap DOMAIN Changed(AllServed(requests)) = {}
  BY <1>1, <1>2 DEF Changed
<1> QED
  BY <1>1, <1>2, <1>3

\* Requests about other signals leave those of S.
LEMMA MuteRequests ==
  ASSUME DOMAIN world = WorldFields, NEW S, NEW news, Mutes(news, S),
         NEW requests, Spares(requests, S), NEW t, NEW queues,
         Requesting(queues, news, requests),
         DOMAIN queues = DOMAIN unread,
         \A u \in DOMAIN unread : DOMAIN queues[u] = DOMAIN unread[u],
         \A u \in DOMAIN unread \ {t} : queues[u] = unread[u]
  PROVE  Mute(t, S)
<1> DEFINE claims == AllServed(requests)
           shown  == Changed(claims)
<1>1. /\ bus' = Over(shown, BusAfter(news))
      /\ unread' = ShownTo(Delivered(queues, news), shown)
      /\ world'.claims = claims
  BY DEF Requesting, WorldFields
<1>2. /\ DOMAIN claims = DOMAIN world.claims
      /\ \A s \in S \cap DOMAIN world.claims : claims[s] = world.claims[s]
      /\ S \cap DOMAIN shown = {}
  BY SparedClaims
<1> HIDE DEF claims, shown
<1>3. \A s \in S \cap DOMAIN bus : s \in DOMAIN bus' /\ bus'[s] = bus[s]
  BY <1>1, <1>2, MuteNews DEF Over
<1>4. /\ DOMAIN unread' = DOMAIN unread
      /\ \A u \in DOMAIN unread : DOMAIN unread'[u] = DOMAIN unread[u]
  BY <1>1 DEF Delivered, ShownTo
<1>5. ASSUME NEW u \in DOMAIN unread \ {t}, NEW s \in S \cap DOMAIN unread[u], IsSeq(unread[u][s])
      PROVE  unread'[u][s] = unread[u][s]
  <2>1. /\ u \in DOMAIN Delivered(queues, news)
        /\ s \in DOMAIN Delivered(queues, news)[u]
    BY DEF Delivered
  <2>2. unread'[u][s] = Delivered(queues, news)[u][s]
    BY <1>1, <1>2, <2>1 DEF ShownTo
  <2>3. Delivered(queues, news)[u][s] = queues[u][s]
    BY <1>5, MuteNews
  <2> QED
    BY <2>2, <2>3
<1> QED
  BY <1>1, <1>2, <1>3, <1>4, <1>5 DEF Mute

\* What a task's step leaves of the signals of S.
LEMMA MuteForms ==
  ASSUME DOMAIN world = WorldFields, NEW S
  PROVE  /\ \A t, m, news : Act(t, m, news) /\ Mutes(news, S) /\ world'.claims = world.claims
               => Mute(t, S)
         /\ \A t, s, m, news :
               React(t, s, m, news) /\ Mutes(news, S) /\ world'.claims = world.claims
               => Mute(t, S)
         /\ \A t, m, news, rs : ActClaiming(t, m, news, rs) /\ Mutes(news, S) /\ Spares(rs, S)
               => Mute(t, S)
         /\ \A t, s, m, news, rs :
               ReactClaiming(t, s, m, news, rs) /\ Mutes(news, S) /\ Spares(rs, S)
               => Mute(t, S)
         /\ \A t, s : Keeps(t, s) => Mute(t, S)
         /\ \A t, s : Passes(t, s) => Mute(t, S)
         /\ \A t, news : Publish(news) /\ Mutes(news, S) /\ world'.claims = world.claims
               => Mute(t, S)
         /\ \A t : UNCHANGED <<bus, unread>> /\ world'.claims = world.claims => Mute(t, S)
<1>1. ASSUME NEW t, NEW s, NEW q, q = [unread EXCEPT ![t][s] = Tail(@)]
      PROVE  /\ DOMAIN q = DOMAIN unread
             /\ \A u \in DOMAIN unread : DOMAIN q[u] = DOMAIN unread[u]
             /\ \A u \in DOMAIN unread \ {t} : q[u] = unread[u]
  BY <1>1
<1>2. ASSUME NEW t, NEW m, NEW news, Act(t, m, news), Mutes(news, S), world'.claims = world.claims
      PROVE  Mute(t, S)
  BY <1>2, MutePublishes DEF Act, Publish
<1>3. ASSUME NEW t, NEW s, NEW m, NEW news, React(t, s, m, news), Mutes(news, S),
             world'.claims = world.claims
      PROVE  Mute(t, S)
  BY <1>1, <1>3, MutePublishes DEF React
<1>4. ASSUME NEW t, NEW m, NEW news, NEW rs, ActClaiming(t, m, news, rs), Mutes(news, S),
             Spares(rs, S)
      PROVE  Mute(t, S)
  BY <1>4, MuteRequests DEF ActClaiming
<1>5. ASSUME NEW t, NEW s, NEW m, NEW news, NEW rs, ReactClaiming(t, s, m, news, rs),
             Mutes(news, S), Spares(rs, S)
      PROVE  Mute(t, S)
  BY <1>1, <1>5, MuteRequests DEF ReactClaiming
<1>6. Mutes(<<>>, S)
  BY NothingIsSeq, SeqPlaces DEF Mutes
<1>7. ASSUME NEW t, NEW s, Keeps(t, s) PROVE Mute(t, S)
  BY <1>3, <1>6, <1>7 DEF Keeps
<1>8. ASSUME NEW t, NEW s, Passes(t, s) PROVE Mute(t, S)
  BY <1>3, <1>6, <1>8 DEF Passes
<1>9. ASSUME NEW t, NEW news, Publish(news), Mutes(news, S), world'.claims = world.claims
      PROVE  Mute(t, S)
  BY <1>9, MutePublishes DEF Publish
<1>10. \A t : UNCHANGED <<bus, unread>> /\ world'.claims = world.claims => Mute(t, S)
  BY DEF Mute
<1> QED
  BY <1>2, <1>3, <1>4, <1>5, <1>7, <1>8, <1>9, <1>10

-----------------------------------------------------------------------------
(* News and requests about other signals.                                  *)

\* What the plants of a rear door say of its lock, the door-lock arbiter of its orders, and
\* a trim button of its lock key.
LockChain ==
  {"isLocked", "double", "soldier", "command", "status", "requestor", "eventNum"}
  \cup OfAll("lock", Sides)

\* All the signals that a property below is about.
Told == TaskSignals \cup LockChain

\* The plain ones of them.
ToldPlain ==
  {"motor", "lostKey", "chime", "isLocked", "double", "soldier", "command", "status",
   "requestor", "eventNum"}

\* The signals that the lock chain speaks of are none of the others.
LEMMA LockNames ==
  /\ LockChain \cap TaskSignals = {}
  /\ ToldPlain \subseteq PlainSignals
<1>1. {"lostKey", "chime", "command", "status", "requestor", "eventNum"}
      \subseteq DOMAIN EntrySignals
  BY DEF EntrySignals
<1>2. {"isLocked", "double", "soldier"} \subseteq DOMAIN ComfortSignals
  BY DEF ComfortSignals
<1>3. ToldPlain \subseteq PlainSignals
  BY <1>1, <1>2 DEF ToldPlain, PlainSignals
<1>4. ASSUME NEW s \in LockChain PROVE s \notin TaskSignals
  <2>1. CASE s \in ToldPlain \ {"motor", "lostKey", "chime"}
    BY <1>3, <2>1, NamesAssumption DEF TaskSignals, OfAll, Bearers, Keys, Stems
  <2>2. CASE s \in OfAll("lock", Sides)
    <3>1. PICK k \in Bearers : s = Of("lock", k)
      BY <2>2 DEF OfAll, Bearers
    <3>2. s \notin {"motor", "lostKey", "chime"}
      BY <1>3, <3>1, NamesAssumption DEF Stems, ToldPlain
    <3>3. \A r \in {"at", "move", "rf"}, j \in Bearers : s # Of(r, j)
      BY <3>1, NamesAssumption DEF Stems
    <3> QED
      BY <3>2, <3>3 DEF TaskSignals, OfAll, Bearers, Keys
  <2> QED
    BY <1>4, <2>1, <2>2 DEF LockChain, ToldPlain
<1> QED
  BY <1>3, <1>4

\* The signals of the keys, doors, sides and panels are none of these.
LEMMA BearerNames ==
  \A s \in Stems \ {"at", "move", "rf", "lock"}, k \in Bearers : Of(s, k) \notin Told
<1> SUFFICES ASSUME NEW s \in Stems \ {"at", "move", "rf", "lock"}, NEW k \in Bearers,
                    Of(s, k) \in Told
             PROVE  FALSE
  OBVIOUS
<1>1. Of(s, k) \notin ToldPlain
  BY LockNames, NamesAssumption
<1>2. PICK r \in {"at", "move", "rf", "lock"}, j \in Bearers : Of(s, k) = Of(r, j)
  BY <1>1 DEF Told, ToldPlain, LockChain, TaskSignals, OfAll, Bearers, Keys
<1> QED
  BY <1>2, NamesAssumption DEF Stems

\* The signals without one are none of these, but ten.
LEMMA PlainNames ==
  \A s \in PlainSignals \ ToldPlain : s \notin Told
  BY NamesAssumption
  DEF Told, ToldPlain, LockChain, TaskSignals, OfAll, Bearers, Keys, Stems

\* The other plain signals that the tasks publish.
Published ==
  {"feedback", "openCmd", "lf", "ble", "bypass", "startStop", "authChannel", "trunkOpen", "horn",
   "approachKeys", "approachInterval", "frontFog", "rearFog", "brakeLamp", "reverseLamp", "dap",
   "sounding", "intensity", "mode", "applied", "position", "latch", "doorOpen", "child",
   "hoodLatch", "panicEventNum", "twoStage"}

\* They are no signals of these.
LEMMA PublishedNames == \A s \in Published : s \notin Told
<1>1. Published \cap ToldPlain = {}
  BY DEF Published, ToldPlain
<1>2. {"feedback", "openCmd", "lf", "ble", "bypass", "startStop", "authChannel", "trunkOpen",
       "panicEventNum", "twoStage"}
      \subseteq DOMAIN EntrySignals
  BY DEF EntrySignals
<1>3. {"approachKeys", "approachInterval", "frontFog", "rearFog", "brakeLamp", "reverseLamp",
       "dap", "sounding", "intensity", "mode", "applied", "position", "latch", "doorOpen",
       "child", "hoodLatch"}
      \subseteq DOMAIN ComfortSignals
  BY DEF ComfortSignals
<1>4. Published \subseteq PlainSignals
  BY <1>2, <1>3 DEF Published, PlainSignals
<1> QED
  BY <1>1, <1>4, PlainNames

\* What the signals of the claims of the other features are named.
LEMMA ClaimedNames ==
  \A s \in Claimable \ {"motor"} : s \notin Told
<1>1. \A s \in {"puddle", "dome", "lowBeam", "highBeam", "parking", "plate", "drl", "horn"} :
         s \in PlainSignals \ ToldPlain
  <2>1. {"puddle", "dome", "lowBeam", "highBeam", "parking", "plate", "drl", "horn"}
        \cap ToldPlain = {}
    BY DEF ToldPlain
  <2> QED
    BY <2>1 DEF PlainSignals
<1>2. \A side \in Sides : Of("signal", side) \notin Told
  BY BearerNames DEF Bearers, Stems
<1> QED
  BY <1>1, <1>2, PlainNames DEF Claimable

\* Short news.
LEMMA MuteFew ==
  ASSUME NEW S
  PROVE  /\ Mutes(<<>>, S)
         /\ \A s, v : s \notin S => Mutes(<< <<s, v>> >>, S)
         /\ \A s, v, r, w : s \notin S /\ r \notin S
               => Mutes(<< <<s, v>>, <<r, w>> >>, S)
         /\ \A s, v, r, w, q, x : s \notin S /\ r \notin S /\ q \notin S
               => Mutes(<< <<s, v>>, <<r, w>>, <<q, x>> >>, S)
<1>1. Mutes(<<>>, S)
  BY NothingIsSeq, SeqPlaces DEF Mutes
<1>2. ASSUME NEW s, NEW v, s \notin S PROVE Mutes(<< <<s, v>> >>, S)
  BY <1>2 DEF Mutes
<1>3. ASSUME NEW s, NEW v, NEW r, NEW w, s \notin S, r \notin S
      PROVE  Mutes(<< <<s, v>>, <<r, w>> >>, S)
  BY <1>3 DEF Mutes
<1>4. ASSUME NEW s, NEW v, NEW r, NEW w, NEW q, NEW x, s \notin S, r \notin S, q \notin S
      PROVE  Mutes(<< <<s, v>>, <<r, w>>, <<q, x>> >>, S)
  BY <1>4 DEF Mutes
<1> QED
  BY <1>1, <1>2, <1>3, <1>4

\* Short news are sequences.
LEMMA FewAreSeq ==
  /\ \A e : IsSeq(<<e>>)
  /\ \A e, f : IsSeq(<<e, f>>)
<1>1. ASSUME NEW e PROVE <<e>> \in Seq({e})
  OBVIOUS
<1>2. ASSUME NEW e, NEW f PROVE <<e, f>> \in Seq({e, f})
  OBVIOUS
<1> QED
  BY Zenon, <1>1, <1>2 DEF IsSeq

\* News one after the other.
LEMMA MuteBoth ==
  ASSUME NEW S, NEW a, NEW b, Mutes(a, S), Mutes(b, S), IsSeq(a), IsSeq(b)
  PROVE  Mutes(a \o b, S) /\ IsSeq(a \o b)
<1>1. PICK X : a \in Seq(X)
  BY DEF IsSeq
<1>2. PICK Y : b \in Seq(Y)
  BY DEF IsSeq
<1>3. a \in Seq(X \cup Y) /\ b \in Seq(X \cup Y)
  BY <1>1, <1>2
<1>4. a \o b \in Seq(X \cup Y)
  BY <1>3
<1>5. ASSUME NEW i \in DOMAIN (a \o b)
      PROVE  (i \in DOMAIN a /\ (a \o b)[i] = a[i])
             \/ (i - Len(a) \in DOMAIN b /\ (a \o b)[i] = b[i - Len(a)])
  BY <1>3
<1> QED
  BY <1>4, <1>5 DEF Mutes, IsSeq

\* The image of a finite set is finite.
LEMMA ImageIsFinite ==
  ASSUME NEW K, IsFiniteSet(K), NEW f, DOMAIN f = K, f = [k \in K |-> f[k]]
  PROVE  IsFiniteSet({f[k] : k \in K})
<1> DEFINE T == {f[k] : k \in K}
<1>1. f \in [K -> T]
  OBVIOUS
<1>2. f \in Surjection(K, T)
  BY <1>1 DEF Surjection
<1> HIDE DEF T
<1>3. IsFiniteSet(T)
  BY <1>2, FS_Surjection
<1> QED
  BY <1>3 DEF T

\* News that make a set.
LEMMA MuteSet ==
  ASSUME NEW S, NEW T, IsFiniteSet(T), \A x \in T : x[1] \notin S
  PROVE  Mutes(SetToSeq(T), S) /\ IsSeq(SetToSeq(T))
<1> DEFINE n == Cardinality(T)
           F == {f \in [1..n -> T] : IsInjective(f)}
           s == SetToSeq(T)
<1>1. n \in Nat /\ ExistsBijection(1..n, T)
  BY FS_CardinalityType
<1>2. \E f \in [1..n -> T] : IsInjective(f)
  BY <1>1 DEF ExistsBijection, Bijection, Injection
<1>3. s \in [1..n -> T]
  BY <1>2 DEF SetToSeq
<1> HIDE DEF s, n
<1>4. IsSeq(s)
  BY <1>1, <1>3, FunctionIsSeq
<1> QED
  BY <1>3, <1>4 DEF Mutes, s

\* Requests one by one.
LEMMA SpareFew ==
  ASSUME NEW S
  PROVE  /\ Spares(<<>>, S)
         /\ \A a : a.signal \notin S => Spares(<<a>>, S)
         /\ \A a, b : a.signal \notin S /\ b.signal \notin S => Spares(<<a, b>>, S)
<1>1. Spares(<<>>, S)
  BY NothingIsSeq, SeqPlaces DEF Spares
<1>2. ASSUME NEW a, a.signal \notin S PROVE Spares(<<a>>, S)
  BY <1>2 DEF Spares
<1>3. ASSUME NEW a, NEW b, a.signal \notin S, b.signal \notin S PROVE Spares(<<a, b>>, S)
  BY <1>3 DEF Spares
<1> QED
  BY <1>1, <1>2, <1>3

\* Requests for signals in a list.
LEMMA SpareEach ==
  ASSUME NEW S, NEW ss, \A i \in DOMAIN ss : ss[i] \notin S
  PROVE  /\ \A who, p, v : Spares(ClaimEach(who, ss, p, v), S)
         /\ \A who : Spares(ReleaseEach(who, ss), S)
  BY DEF Spares, ClaimEach, ReleaseEach, Claim, Release

\* What the world's ways leave of the claims.
LEMMA ClaimForms ==
  ASSUME DOMAIN world = WorldFields
  PROVE  /\ UNCHANGED world => world'.claims = world.claims
         /\ \A t, legs : Ask(t, legs) => world'.claims = world.claims
         /\ \A who, c : Order(who, c) => world'.claims = world.claims
         /\ \A who, c : world' = Ordered(world, who, c) => world'.claims = world.claims
         /\ \A i : world' = Taken(world, i) => world'.claims = world.claims
         /\ \A i, who, c : world' = Ordered(Taken(world, i), who, c)
               => world'.claims = world.claims
  BY DEF Ask, Asked, Order, Ordered, Taken, WorldFields

\* A file is written.
LEMMA SavingKeepsClaims ==
  ASSUME DOMAIN world = WorldFields, NEW v,
         \/ world' = [world EXCEPT !.saved.intent = v]
         \/ world' = [world EXCEPT !.saved.folded = v]
         \/ world' = [world EXCEPT !.saved.hood = v]
         \/ world' = [world EXCEPT !.saved.roof = v]
  PROVE  world'.claims = world.claims
  BY DEF WorldFields

\* The pulse for the trunk.
LEMMA TrunkPulseIsMute == Mutes(TrunkPulse, Told) /\ IsSeq(TrunkPulse)
  BY MuteFew, FewAreSeq, NothingIsSeq, PublishedNames DEF TrunkPulse, Published

-----------------------------------------------------------------------------
(* The tasks that publish none of these signals.                           *)

\* SmartUnlock.
LEMMA SmartIsMute == ASSUME Shape, Smart PROVE Mute("smart", Told)
  BY MuteForms, MuteFew, ClaimForms, PublishedNames
  DEF Shape, Published, Smart, SmartKeeps, SmartEvent, SmartDecides

\* SmartTrunkPop.
LEMMA PopIsMute == ASSUME Shape, Pop PROVE Mute("pop", Told)
<1>1. Mutes(<< <<"feedback", "mislock_trunk">> >> \o TrunkPulse, Told)
  BY MuteFew, FewAreSeq, MuteBoth, TrunkPulseIsMute, PublishedNames DEF Published
<1> QED
  BY <1>1, MuteForms, MuteFew, ClaimForms
  DEF Shape, Pop, PopKeeps, PopTrunk, PopEvent, PopDecides

\* WalkAwayLock.
LEMMA WalkIsMute == ASSUME Shape, Walk PROVE Mute("walk", Told)
  BY MuteForms, MuteFew, ClaimForms, PublishedNames
  DEF Shape, Published, Walk, WalkHearsOpening, WalkHearsKey, WalkDecides

\* KeypadLock.
LEMMA PadIsMute == ASSUME Shape, Pad PROVE Mute("pad", Told)
  BY MuteForms, MuteFew, ClaimForms, PublishedNames
  DEF Shape, Published, Pad, PadHears, PadHeld, PadDecides

\* ExteriorTrunkButton.
LEMMA ButtonIsMute == ASSUME Shape, Button PROVE Mute("button", Told)
<1>1. Mutes(TrunkPulse \o << <<"feedback", "trunk_unlock">> >>, Told)
  BY MuteFew, FewAreSeq, MuteBoth, TrunkPulseIsMute, PublishedNames DEF Published
<1> QED
  BY <1>1, MuteForms, MuteFew, ClaimForms
  DEF Shape, Button, ButtonKeeps, ButtonPress, ButtonDecides

\* SlamLock.
LEMMA SlamIsMute == ASSUME Shape, Slam PROVE Mute("slam", Told)
  BY MuteForms, MuteFew, ClaimForms, PublishedNames
  DEF Shape, Published, Slam, Inverts, SlamKeeps, SlamHearsLock, SlamHearsEvent, SlamUnlocks

\* DoorTrimButton.
LEMMA TrimIsMute == ASSUME Shape, Trim PROVE Mute("trim", Told)
  BY MuteForms, MuteFew, ClaimForms, PublishedNames
  DEF Shape, Published, Trim, TrimKeeps, TrimHearsLock, TrimHearsUnlock, Dispatches

\* NfcEntry.
LEMMA NfcIsMute == ASSUME Shape, Nfc PROVE Mute("nfc", Told)
  BY MuteForms, MuteFew, ClaimForms, PublishedNames
  DEF Shape, Published, Nfc, NfcKeeps, NfcHears, NfcLetsGo, NfcEndsBypass

\* CabinTrunkRelease, AuthChannel and the trunk.
LEMMA CabinIsMute ==
  ASSUME Shape
  PROVE  /\ ReleaseHears => Mute("release", Told)
         /\ AuthHears => Mute("auth", Told)
         /\ \A s : MoveTrunk(s) => Mute("trunk", Told)
  BY Zenon, MuteForms, MuteFew, ClaimForms, PublishedNames, TrunkPulseIsMute
  DEF Shape, Published, ReleaseHears, AuthHears, MoveTrunk

\* PassiveEntry.
LEMMA PassiveIsMute == ASSUME Shape, PassiveStep PROVE Mute("passive", Told)
  BY Zenon, MuteForms, MuteFew, ClaimForms, PublishedNames
  DEF Shape, Published, PassiveStep, PassiveHearsHandle, PassiveHearsZone, PassiveUnlocks,
      PassiveHearsStatus, PassiveChallenges, PassiveGivesUp, PassiveForgets, Challenge

\* The keys as they answer, when no button is pressed.
LEMMA PepsIsMute ==
  ASSUME Shape
  PROVE  /\ \A k \in Keys : PepsHearsZone(k) => Mute("peps", Told)
         /\ \A k \in Fobs : PepsHearsButton(k) => Mute("peps", Told \ OfAll("rf", Fobs))
         /\ \A s : PepsHearsChallenge(s) => Mute("peps", Told)
<1>1. \A k \in Keys : Of("rssi", k) \notin Told /\ Of("resp", k) \notin Told
  BY BearerNames DEF Stems, Bearers
<1>2. ASSUME NEW k \in Keys, PepsHearsZone(k) PROVE Mute("peps", Told)
  BY <1>1, <1>2, MuteForms, MuteFew, ClaimForms DEF Shape, PepsHearsZone, RssiNews
<1>3. ASSUME NEW k \in Fobs, PepsHearsButton(k)
      PROVE  Mute("peps", Told \ OfAll("rf", Fobs))
  <2>1. Of("rf", k) \notin Told \ OfAll("rf", Fobs)
    BY DEF OfAll
  <2> QED
    BY <1>3, <2>1, MuteForms, MuteFew, ClaimForms DEF Shape, PepsHearsButton
<1>4. ASSUME NEW s, PepsHearsChallenge(s) PROVE Mute("peps", Told)
  <2> DEFINE who == {k \in IF s = "lf" THEN Fobs ELSE Phones : Answerable(mem["peps"].zone[k])}
             v   == Val("peps", s)
             f   == [k \in who |-> <<Of("resp", k), v>>]
             T   == {<<Of("resp", k), v>> : k \in who}
  <2>1. who \subseteq Keys
    BY DEF Keys
  <2> HIDE DEF who, v
  <2>2. IsFiniteSet(who)
    BY <2>1, FS_Subset, LockWorldAssumption
  <2>3. T = {f[k] : k \in who}
    OBVIOUS
  <2>4. IsFiniteSet({f[k] : k \in who})
    <3> HIDE DEF f
    <3>1. DOMAIN f = who /\ f = [k \in who |-> f[k]]
      BY DEF f
    <3> QED
      BY <2>2, <3>1, ImageIsFinite
  <2>5. \A x \in T : x[1] \notin Told
    BY <1>1, <2>1
  <2>6. Mutes(SetToSeq(T), Told)
    <3> HIDE DEF T
    <3> QED
      BY <2>3, <2>4, <2>5, MuteSet
  <2>7. React("peps", s, mem["peps"], SetToSeq(T)) /\ UNCHANGED world
    BY <1>4 DEF PepsHearsChallenge, who, v
  <2> HIDE DEF T
  <2> QED
    BY <2>6, <2>7, MuteForms, ClaimForms DEF Shape
<1> QED
  BY <1>2, <1>3, <1>4

\* What the presses of the radio key make it say is nothing of these.
LEMMA ExecutedIsMute ==
  ASSUME NEW m, NEW f, NEW a PROVE Mutes(Executed(m, f, a).news, Told)
<1>1. Mutes(TrunkPulse \o << <<"feedback", "trunk_unlock">> >>, Told)
  BY MuteFew, FewAreSeq, MuteBoth, TrunkPulseIsMute, PublishedNames DEF Published
<1>2. \A n : /\ Mutes(AfterUnlock(n, f).news, Told)
             /\ Mutes(AfterLock(n, f).news, Told)
             /\ Mutes(AfterTrunk(n, f).news, Told)
             /\ Mutes(AfterPanic(n, f).news, Told)
  <2> TAKE n
  <2>1. AfterUnlock(n, f).news = << <<"feedback", "unlock">> >>
    BY DEF AfterUnlock
  <2>2. AfterLock(n, f).news = << <<"feedback", "lock">> >>
    BY DEF AfterLock
  <2>3. \/ AfterTrunk(n, f).news = TrunkPulse \o << <<"feedback", "trunk_unlock">> >>
        \/ AfterTrunk(n, f).news = <<>>
    BY DEF AfterTrunk
  <2>4. \/ AfterPanic(n, f).news = <<>>
        \/ \E v : AfterPanic(n, f).news = << <<"panicEventNum", v>> >>
    BY DEF AfterPanic
  <2>5. \A s \in {"feedback", "panicEventNum"} : \A v : Mutes(<< <<s, v>> >>, Told)
    BY MuteFew, PublishedNames DEF Published
  <2>6. Mutes(<<>>, Told)
    BY MuteFew
  <2>7. Mutes(AfterUnlock(n, f).news, Told)
    BY <2>1, <2>5
  <2>8. Mutes(AfterLock(n, f).news, Told)
    BY <2>2, <2>5
  <2>9. Mutes(AfterTrunk(n, f).news, Told)
    BY <1>1, <2>3, <2>6
  <2>10. Mutes(AfterPanic(n, f).news, Told)
    BY <2>4, <2>5, <2>6
  <2> QED
    BY <2>7, <2>8, <2>9, <2>10
<1>3. \A n : Mutes(After(n, f, a).news, Told)
  BY <1>2, MuteFew DEF After
<1> QED
  BY <1>3, MuteFew, PublishedNames DEF Executed, Published

\* The radio key's presses.
LEMMA RkeIsMute == ASSUME Shape, RkeStep PROVE Mute("rke", Told)
<1>1. ASSUME NEW f \in Fobs, RkeHears(f) PROVE Mute("rke", Told)
  <2>1. \E c : \E w : /\ w = [world EXCEPT !.heard[f] = c]
                      /\ world' = w \/ \E o : world' = Ordered(w, "KeyfobRke", o)
    BY <1>1 DEF RkeHears
  <2>2. world'.claims = world.claims
    BY <2>1 DEF Ordered, Shape, WorldFields
  <2>3. \E s, m, news : React("rke", s, m, news) /\ Mutes(news, Told)
    BY <1>1, ExecutedIsMute, MuteFew DEF RkeHears
  <2> QED
    BY <2>2, <2>3, MuteForms DEF Shape
<1>2. CASE RkeExpires
  BY <1>2, MuteForms, MuteFew, ClaimForms DEF Shape, RkeExpires
<1> QED
  BY <1>1, <1>2 DEF RkeStep

\* What is told of the keys found.
LEMMA ObservedIsMute ==
  ASSUME NEW after, PublishObserved(after), DOMAIN world = WorldFields, NEW t,
         world'.claims = world.claims
  PROVE  Mute(t, Told)
<1> DEFINE who == {j \in Keys : after[j] # world.observed[j]}
           f   == [k \in who |-> <<Of("observed", k), after[k]>>]
           T   == {<<Of("observed", k), after[k]>> : k \in who}
<1>1. IsFiniteSet(who)
  BY FS_Subset, LockWorldAssumption
<1>2. \A k \in who : Of("observed", k) \notin Told
  BY BearerNames DEF Stems, Bearers
<1>3. Publish(SetToSeq(T))
  BY DEF PublishObserved
<1> HIDE DEF who
<1>4. T = {f[k] : k \in who}
  OBVIOUS
<1>5. IsFiniteSet({f[k] : k \in who})
  <2> HIDE DEF f
  <2>1. DOMAIN f = who /\ f = [k \in who |-> f[k]]
    BY DEF f
  <2> QED
    BY <1>1, <2>1, ImageIsFinite
<1>6. \A x \in T : x[1] \notin Told
  BY <1>2
<1> HIDE DEF T
<1> QED
  BY <1>3, <1>4, <1>5, <1>6, MuteSet, MuteForms

-----------------------------------------------------------------------------
(* The lights.                                                             *)

\* The indicators' signals, and lists of claimable ones.
LEMMA IndicatorNames ==
  /\ \A side \in Sides :
        Of("lamp", side) \notin Told /\ Of("signal", side) \notin Told
  /\ \A i \in DOMAIN BothSignals : BothSignals[i] \notin Told
  /\ \A i \in DOMAIN CourtesyLights : CourtesyLights[i] \notin Told
  /\ \A i \in DOMAIN HomeLights : HomeLights[i] \notin Told
<1>1. \A side \in Sides :
         Of("lamp", side) \notin Told /\ Of("signal", side) \notin Told
  BY BearerNames DEF Stems, Bearers
<1>2. \A i \in DOMAIN BothSignals : BothSignals[i] \notin Told
  BY <1>1 DEF BothSignals, Sides
<1>3. \A s \in {"puddle", "dome", "lowBeam", "parking", "plate"} : s \notin Told
  BY ClaimedNames DEF Claimable
<1>4. \A i \in DOMAIN CourtesyLights : CourtesyLights[i] \notin Told
  BY <1>3 DEF CourtesyLights
<1>5. \A i \in DOMAIN HomeLights : HomeLights[i] \notin Told
  BY <1>3 DEF HomeLights
<1> QED
  BY <1>1, <1>2, <1>4, <1>5

\* The relay says of each of these lamps what it shows.
SaidOf(T, w) == SetToSeq({<<Of("lamp", x), w>> : x \in T})

\* The indicators' relay.
LEMMA RelayIsMute ==
  ASSUME Shape, NEW side \in Sides, RelayHears(side) \/ RelayHearsDefect(side) \/ RelayTicks(side)
  PROVE  Mute("relay", Told)
<1>1. ASSUME NEW s, NEW T, T \subseteq Sides, NEW v, NEW w, NEW m,
             React("relay", s, m, << <<Of("lamp", side), v>> >> \o SaidOf(T, w)),
             UNCHANGED world
      PROVE  Mute("relay", Told)
  <2> DEFINE f == [x \in T |-> <<Of("lamp", x), w>>]
             U == {<<Of("lamp", x), w>> : x \in T}
  <2>1. IsFiniteSet(T)
    <3>1. IsFiniteSet({"left"}) /\ IsFiniteSet({"right"})
      BY FS_Singleton
    <3>2. IsFiniteSet({"left"} \cup {"right"})
      BY <3>1, FS_Union
    <3>3. Sides = {"left"} \cup {"right"}
      BY DEF Sides
    <3> QED
      BY <1>1, <3>2, <3>3, FS_Subset
  <2>2. U = {f[x] : x \in T}
    OBVIOUS
  <2>3. IsFiniteSet({f[x] : x \in T})
    <3> HIDE DEF f
    <3>1. DOMAIN f = T /\ f = [x \in T |-> f[x]]
      BY DEF f
    <3> QED
      BY <2>1, <3>1, ImageIsFinite
  <2>4. \A x \in U : x[1] \notin Told
    BY <1>1, IndicatorNames
  <2>5. React("relay", s, m, << <<Of("lamp", side), v>> >> \o SetToSeq(U))
    BY <1>1 DEF SaidOf
  <2> HIDE DEF U
  <2>6. Mutes(SetToSeq(U), Told) /\ IsSeq(SetToSeq(U))
    BY <2>2, <2>3, <2>4, MuteSet
  <2>7. /\ Mutes(<< <<Of("lamp", side), v>> >>, Told)
        /\ IsSeq(<< <<Of("lamp", side), v>> >>)
    BY IndicatorNames, MuteFew, FewAreSeq
  <2>8. Mutes(<< <<Of("lamp", side), v>> >> \o SetToSeq(U), Told)
    BY <2>6, <2>7, MuteBoth
  <2> QED
    BY <1>1, <2>5, <2>8, MuteForms, ClaimForms DEF Shape
<1>2. CASE RelayHears(side)
  <2> DEFINE v   == Val("relay", Of("signal", side))
             m   == [mem["relay"] EXCEPT !.signaling[side] = v]
             lit == {side} \cup {x \in {OtherSide(side)} : m.signaling[x]}
             T   == {y \in lit \ {side} : ~m.lamp[y]}
             n   == [Rearmed(m) EXCEPT !.lamp =
                        [x \in Sides |-> IF x \in lit THEN TRUE ELSE @[x]]]
  <2>1. T \subseteq Sides
    BY DEF Sides, OtherSide
  <2>2. CASE v /\ ~mem["relay"].signaling[side]
    <3>1. PICK w : w = TRUE
      OBVIOUS
    <3>2. React("relay", Of("signal", side), n,
                << <<Of("lamp", side), w>> >> \o SaidOf(T, w))
      BY <1>2, <2>2, <3>1 DEF RelayHears, SaidOf
    <3>3. UNCHANGED world
      BY <1>2 DEF RelayHears
    <3> HIDE DEF T, n, v
    <3> QED
      BY <1>1, <2>1, <3>2, <3>3
  <2>3. CASE ~(v /\ ~mem["relay"].signaling[side])
    BY <1>2, <2>3, IndicatorNames, MuteFew, MuteForms, ClaimForms DEF Shape, RelayHears
  <2> QED
    BY <2>2, <2>3
<1>3. CASE RelayHearsDefect(side) \/ RelayTicks(side)
  BY <1>3, IndicatorNames, MuteFew, MuteForms, ClaimForms
  DEF Shape, RelayHearsDefect, RelayTicks
<1> QED
  BY <1>2, <1>3

\* TurnIndicator and HazardLighting.
LEMMA TurnIsMute ==
  ASSUME Shape
  PROVE  /\ TurnHearsStalk => Mute("turn", Told)
         /\ TurnHearsPower => Mute("turn", Told)
         /\ \A side \in Sides : TurnHearsLamp(side) => Mute("turn", Told)
         /\ HazardHears => Mute("hazard", Told)
<1>1. \A one : Spares(Signal(one), Told)
  BY IndicatorNames, SpareFew DEF Signal, Sides, ClaimOrRelease, Claim, Release
<1>2. TurnHearsStalk => Mute("turn", Told)
  BY <1>1, SpareFew, MuteFew, MuteForms DEF Shape, TurnHearsStalk
<1>3. TurnHearsPower => Mute("turn", Told)
  BY <1>1, SpareFew, MuteFew, MuteForms DEF Shape, TurnHearsPower
<1>4. \A side \in Sides : TurnHearsLamp(side) => Mute("turn", Told)
  BY <1>1, SpareFew, MuteFew, MuteForms DEF Shape, TurnHearsLamp
<1>5. HazardHears => Mute("hazard", Told)
  BY IndicatorNames, SpareEach, MuteFew, MuteForms DEF Shape, HazardHears
<1> QED
  BY <1>2, <1>3, <1>4, <1>5

\* LockFeedback sounds the horn and the chime.
FlashSound ==
  "flash" \in DOMAIN mem =>
      /\ "sounds" \in DOMAIN mem["flash"] /\ "timer" \in DOMAIN mem["flash"]
      /\ IsSeq(mem["flash"].sounds)
      /\ \A i \in DOMAIN mem["flash"].sounds : mem["flash"].sounds[i] \in {"horn", "chime"}

\* It runs when it steps.
LEMMA FlashRuns == FlashStep => "flash" \in DOMAIN mem
  BY Readers DEF FlashStep, FlashHearsFeedback, FlashHearsTrunk, FlashPlays, FlashKeeps, Runs

\* The chime is all it publishes of these.
LEMMA FlashIsMute ==
  ASSUME Shape, FlashSound, "flash" \in DOMAIN mem
  PROVE  /\ FlashHearsFeedback => Mute("flash", Told \ {"chime"})
         /\ FlashHearsTrunk => Mute("flash", Told)
         /\ \A s : FlashKeeps(s) => Mute("flash", Told)
         /\ FlashPlays => Mute("flash", Told)
         /\ \A i \in DOMAIN mem["flash"].sounds :
                FlashSilences(i) => Mute("flash", Told \ {"chime"})
<1>1. Spares(StopFlash, Told) /\ Spares(StopFlash, Told \ {"chime"})
  BY IndicatorNames, SpareEach DEF StopFlash
<1>2. \A s \in {"horn", "chime"} : s \notin Told \ {"chime"}
  BY PublishedNames DEF Published
<1>3. FlashHearsFeedback => Mute("flash", Told \ {"chime"})
  BY <1>1, <1>2, SpareFew, MuteFew, MuteForms DEF Shape, FlashHearsFeedback
<1>4. FlashHearsTrunk => Mute("flash", Told)
  BY <1>1, SpareFew, MuteFew, MuteForms DEF Shape, FlashHearsTrunk
<1>5. \A s : FlashKeeps(s) => Mute("flash", Told)
  BY MuteForms DEF Shape, FlashKeeps
<1>6. FlashPlays => Mute("flash", Told)
  BY <1>1, IndicatorNames, SpareEach, MuteFew, MuteForms DEF Shape, FlashPlays
<1>7. ASSUME NEW i \in DOMAIN mem["flash"].sounds, FlashSilences(i)
      PROVE  Mute("flash", Told \ {"chime"})
  BY <1>2, <1>7, MuteFew, MuteForms, ClaimForms DEF Shape, FlashSound, FlashSilences
<1> QED
  BY <1>3, <1>4, <1>5, <1>6, <1>7

\* Welcome takes an answer.
WelcomeTakes(i) ==
  LET n    == Cardinality(DOMAIN world.searches[i].found)
      rest == PollEvery(n) - world.searches[i].age
  IN  /\ Act("welcome",
             [mem["welcome"] EXCEPT !.keys = n, !.timer.poll = IF rest > 0 THEN rest ELSE 0],
             IF n = mem["welcome"].keys THEN <<>>
             ELSE << <<"approachKeys", n>>, <<"approachInterval", PollEvery(n)>> >>)
      /\ world' = Taken(world, i)

\* Welcome.
LEMMA WelcomeIsMute == ASSUME Shape, Welcome PROVE Mute("welcome", Told)
<1>1. \A p, v : Spares(ClaimEach("Welcome", CourtesyLights, p, v), Told)
  BY IndicatorNames, SpareEach
<1>2. Spares(WelcomeReleases, Told) /\ Spares(<<>>, Told)
  BY IndicatorNames, SpareEach, SpareFew DEF WelcomeReleases
<1>3. ASSUME NEW k \in Paired, WelcomeHearsZone(k) PROVE Mute("welcome", Told)
  BY <1>1, <1>2, <1>3, MuteFew, MuteForms DEF Shape, WelcomeHearsZone
<1>4. CASE WelcomeHearsPower
  <2>1. Mutes(<< <<"approachKeys", 0>>, <<"approachInterval", 0>> >>, Told)
    BY MuteFew, PublishedNames DEF Published
  <2>2. PICK m, news, rs : /\ ReactClaiming("welcome", "ignition", m, news, rs)
                           /\ news \in {<<>>,
                                       << <<"approachKeys", 0>>, <<"approachInterval", 0>> >>}
                           /\ rs \in {<<>>, WelcomeReleases}
    <3> DEFINE both == << <<"approachKeys", 0>>, <<"approachInterval", 0>> >>
    <3>1. \E m, rs : /\ rs \in {<<>>, WelcomeReleases}
                     /\ \/ ReactClaiming("welcome", "ignition", m, both, rs)
                        \/ ReactClaiming("welcome", "ignition", m, <<>>, rs)
      <4> HIDE DEF both
      <4> QED
        BY <1>4 DEF WelcomeHearsPower, both
    <3> QED
      BY <3>1
  <2> QED
    BY <1>2, <2>1, <2>2, MuteFew, MuteForms DEF Shape
<1>5. CASE WelcomeHearsDoor
  BY <1>2, <1>5, MuteFew, MuteForms DEF Shape, WelcomeHearsDoor
<1>6. CASE WelcomeExpires
  BY <1>2, <1>6, MuteFew, MuteForms DEF Shape, WelcomeExpires
<1>7. CASE WelcomePolls
  BY <1>7, MuteForms, ClaimForms DEF Shape, WelcomePolls
<1>8. CASE WelcomeCounts
  <2>1. \A n, m : Mutes(<< <<"approachKeys", n>>, <<"approachInterval", m>> >>, Told)
    BY MuteFew, PublishedNames DEF Published
  <2>2. PICK i \in Answers("welcome") : WelcomeTakes(i)
    BY <1>8, Zenon DEF WelcomeCounts, WelcomeTakes
  <2>3. world'.claims = world.claims
    BY <2>2, ClaimForms DEF Shape, WelcomeTakes
  <2>4. \E m, n, v, c : Act("welcome", m, IF c THEN <<>> ELSE
                               << <<"approachKeys", n>>, <<"approachInterval", v>> >>)
    BY <2>2, Zenon DEF WelcomeTakes
  <2> QED
    BY <2>1, <2>3, <2>4, MuteFew, MuteForms DEF Shape
<1> QED
  BY <1>3, <1>4, <1>5, <1>6, <1>7, <1>8 DEF Welcome

\* Farewell and FollowMeHome.
LEMMA FarewellIsMute ==
  ASSUME Shape
  PROVE  /\ Farewell => Mute("farewell", Told)
         /\ Home => Mute("home", Told)
<1>1. /\ \A p, v : Spares(ClaimEach("Farewell", CourtesyLights, p, v), Told)
      /\ \A p, v : Spares(ClaimEach("FollowMeHome", HomeLights, p, v), Told)
      /\ Spares(HomeReleases, Told) /\ Spares(<<>>, Told)
      /\ \A m : Spares(FarewellReleases(m), Told)
  BY IndicatorNames, SpareEach, SpareFew DEF HomeReleases, FarewellReleases
<1>2. Farewell => Mute("farewell", Told)
  BY <1>1, MuteFew, MuteForms
  DEF Shape, Farewell, FarewellHearsPower, FarewellHearsLock, FarewellHearsDoor, FarewellExpires
<1>3. Home => Mute("home", Told)
  BY <1>1, MuteFew, MuteForms DEF Shape, Home, HomeHearsPower, HomeHearsDoor, HomeExpires
<1> QED
  BY <1>2, <1>3

\* Requests for lights by name.
LEMMA SpareLights ==
  /\ \A who, s, p, v, on : s \in Claimable \ {"motor"}
        => /\ Spares(<<ClaimOrRelease(who, s, p, on)>>, Told)
           /\ Spares(<<Claim(who, s, p, v)>>, Told)
           /\ Spares(<<Release(who, s)>>, Told)
  /\ \A m : Spares(Beams(m), Told)
<1>1. \A who, s, p, v : Claim(who, s, p, v).signal = s /\ Release(who, s).signal = s
  BY DEF Claim, Release
<1>2. ASSUME NEW who, NEW s, NEW p, NEW on PROVE ClaimOrRelease(who, s, p, on).signal = s
  BY DEF ClaimOrRelease, Claim, Release
<1>3. ASSUME NEW m PROVE Spares(Beams(m), Told)
  <2>1. \A s \in {"lowBeam", "parking", "plate", "highBeam", "drl"} : s \notin Told
    BY ClaimedNames DEF Claimable
  <2>2. \A a, b, c, d, e :
           {a.signal, b.signal, c.signal, d.signal, e.signal} \cap Told = {}
           => Spares(<<a, b, c, d, e>>, Told)
    BY DEF Spares
  <2> QED
    BY <1>2, <2>1, <2>2 DEF Beams
<1>4. ASSUME NEW who, NEW s \in Claimable \ {"motor"}, NEW p, NEW v, NEW on
      PROVE  /\ Spares(<<ClaimOrRelease(who, s, p, on)>>, Told)
             /\ Spares(<<Claim(who, s, p, v)>>, Told)
             /\ Spares(<<Release(who, s)>>, Told)
  <2>1. s \notin Told
    BY ClaimedNames
  <2>2. ASSUME NEW r, r.signal = s PROVE Spares(<<r>>, Told)
    BY <2>1, <2>2, SpareFew
  <2>3. Spares(<<ClaimOrRelease(who, s, p, on)>>, Told)
    BY <1>2, <2>2
  <2>4. Spares(<<Claim(who, s, p, v)>>, Told)
    BY <1>1, <2>2
  <2>5. Spares(<<Release(who, s)>>, Told)
    BY <1>1, <2>2
  <2> QED
    BY <2>3, <2>4, <2>5
<1> QED
  BY <1>3, <1>4

\* The lights that follow a switch or a door.
LEMMA BeamsAreMute ==
  ASSUME Shape
  PROVE  /\ DomeStarts => Mute("dome", Told)
         /\ \A s : DomeHears(s) => Mute("dome", Told)
         /\ \A s : AssistHears(s) => Mute("assist", Told)
         /\ \A s : BeamsHear(s) => Mute("beams", Told)
         /\ AutoBeamHears => Mute("autoBeam", Told)
         /\ HonkHears => Mute("honk", Told)
<1>1. {"dome", "puddle", "highBeam", "horn"} \subseteq Claimable \ {"motor"}
  BY DEF Claimable
<1>2. \A m : Spares(DomeClaims(m), Told)
  BY <1>1, SpareFew, SpareLights DEF DomeClaims
<1>3. DomeStarts => Mute("dome", Told)
  BY <1>2, MuteFew, MuteForms DEF Shape, DomeStarts
<1>4. \A s : DomeHears(s) => Mute("dome", Told)
  BY <1>2, SpareFew, MuteFew, MuteForms DEF Shape, DomeHears
<1>5. \A s : AssistHears(s) => Mute("assist", Told)
  BY <1>1, SpareLights, SpareFew, MuteFew, MuteForms DEF Shape, AssistHears
<1>6. \A s : BeamsHear(s) => Mute("beams", Told)
  BY SpareLights, MuteFew, MuteForms DEF Shape, BeamsHear
<1>7. ASSUME NEW t, NEW s, NEW a, NEW b, Spares(<<a>>, Told), Spares(<<b>>, Told),
             ClaimsWhile(t, s, a, b)
      PROVE  Mute(t, Told)
  BY <1>7, SpareFew, MuteFew, MuteForms DEF Shape, ClaimsWhile
<1>8. AutoBeamHears => Mute("autoBeam", Told)
  BY <1>1, <1>7, SpareLights DEF AutoBeamHears
<1>9. HonkHears => Mute("honk", Told)
  BY <1>1, <1>7, SpareLights DEF HonkHears
<1> QED
  BY <1>3, <1>4, <1>5, <1>6, <1>8, <1>9

\* The outputs that are published directly.
LEMMA OutputsAreMute ==
  ASSUME Shape
  PROVE  /\ \A s : FogHears(s) => Mute("fog", Told)
         /\ \A s : RearLampsHear(s) => Mute("rearLamps", Told)
         /\ \A s : AccessoryHears(s) => Mute("accessory", Told)
         /\ AccessoryExpires => Mute("accessory", Told)
         /\ Sounder => Mute("sounder", Told)
         /\ Led => Mute("led", Told)
         /\ DayNight => Mute("dayNight", Told)
         /\ Brake => Mute("brake", Told)
<1>1. \A v, w : Mutes(<< <<"frontFog", v>>, <<"rearFog", w>> >>, Told)
  BY MuteFew, PublishedNames DEF Published
<1>2. \A v, w : Mutes(<< <<"brakeLamp", v>>, <<"reverseLamp", w>> >>, Told)
  BY MuteFew, PublishedNames DEF Published
<1>3. \A m : Mutes(AccessoryNews(m), Told)
  BY MuteFew, PublishedNames DEF Published, AccessoryNews
<1>4. ASSUME NEW s, FogHears(s) PROVE Mute("fog", Told)
  <2>1. UNCHANGED world
    BY <1>4 DEF FogHears
  <2>2. \E m, v, w : React("fog", s, m, << <<"frontFog", v>>, <<"rearFog", w>> >>)
    BY <1>4, Zenon DEF FogHears
  <2> QED
    BY <1>1, <2>1, <2>2, MuteForms, ClaimForms DEF Shape
<1>5. ASSUME NEW s, RearLampsHear(s) PROVE Mute("rearLamps", Told)
  <2>1. UNCHANGED world
    BY <1>5 DEF RearLampsHear
  <2>2. \E m, v, w : React("rearLamps", s, m, << <<"brakeLamp", v>>, <<"reverseLamp", w>> >>)
    BY <1>5, Zenon DEF RearLampsHear
  <2> QED
    BY <1>2, <2>1, <2>2, MuteForms, ClaimForms DEF Shape
<1>6. \A s : AccessoryHears(s) => Mute("accessory", Told)
  BY <1>3, MuteForms, ClaimForms DEF Shape, AccessoryHears
<1>7. AccessoryExpires => Mute("accessory", Told)
  BY <1>3, MuteForms, ClaimForms DEF Shape, AccessoryExpires
<1>8. ASSUME NEW t, NEW s, NEW out \in Published, NEW v, Copies(t, s, out, v)
      PROVE  Mute(t, Told)
  BY <1>8, PublishedNames, MuteFew, MuteForms, ClaimForms DEF Shape, Copies
<1>9. {"sounding", "intensity", "mode", "applied"} \subseteq Published
  BY DEF Published
<1> QED
  BY <1>4, <1>5, <1>6, <1>7, <1>8, <1>9 DEF Sounder, Led, DayNight, Brake

-----------------------------------------------------------------------------
(* The closures.                                                           *)

\* At most one piece of news after at most another.
LEMMA MuteOptional ==
  ASSUME NEW S, NEW a, NEW b, NEW c, NEW d, NEW s, NEW r, NEW v, NEW w, s \notin S, r \notin S,
         a = (IF c THEN <<>> ELSE << <<s, v>> >>), b = (IF d THEN <<>> ELSE << <<r, w>> >>)
  PROVE  Mutes(a \o b, S)
<1>1. IsSeq(<<>>) /\ Mutes(<<>>, S)
  BY NothingIsSeq, MuteFew
<1>2. Mutes(a, S) /\ IsSeq(a)
  BY <1>1, MuteFew, FewAreSeq
<1>3. Mutes(b, S) /\ IsSeq(b)
  BY <1>1, MuteFew, FewAreSeq
<1> QED
  BY <1>2, <1>3, MuteBoth

\* PowerWindow and the window's plant.
LEMMA WindowIsMute ==
  ASSUME Shape
  PROVE  /\ WindowFindsStuck => Mute("window", Told \ {"motor"})
         /\ \A src \in Sources : WindowHearsDetent(src) => Mute("window", Told \ {"motor"})
         /\ WindowHearsPosition => Mute("window", Told \ {"motor"})
         /\ WindowHearsChildLock => Mute("window", Told \ {"motor"})
         /\ WindowHearsPower => Mute("window", Told \ {"motor"})
         /\ GlassHears => Mute("glass", Told)
         /\ GlassMoves => Mute("glass", Told)
<1> DEFINE S == Told \ {"motor"}
<1>1. \A m : Spares(MotorRequests(m), S)
  <2> TAKE m
  <2>1. \/ MotorRequests(m) = <<>>
        \/ \E r : r.signal = "motor" /\ MotorRequests(m) = <<r>>
    BY DEF MotorRequests, Claim, Release
  <2> QED
    BY <2>1, SpareFew
<1> HIDE DEF S
<1>2. \A s, m : WindowGoesOn(s, m) => Mute("window", S)
  BY <1>1, MuteFew, MuteForms DEF Shape, WindowGoesOn
<1>3. WindowFindsStuck => Mute("window", S)
  BY <1>1, MuteFew, MuteForms DEF Shape, WindowFindsStuck
<1>4. \A src \in Sources : WindowHearsDetent(src) => Mute("window", S)
  BY <1>2 DEF WindowHearsDetent
<1>5. WindowHearsPosition => Mute("window", S)
  BY <1>2 DEF WindowHearsPosition
<1>6. WindowHearsChildLock => Mute("window", S)
  BY <1>2, MuteForms DEF Shape, WindowHearsChildLock
<1>7. WindowHearsPower => Mute("window", S)
  BY <1>2 DEF WindowHearsPower
<1>8. GlassHears => Mute("glass", Told)
  BY MuteFew, MuteForms, ClaimForms DEF Shape, GlassHears
<1>9. GlassMoves => Mute("glass", Told)
  <2> SUFFICES ASSUME GlassMoves PROVE Mute("glass", Told)
    OBVIOUS
  <2>1. UNCHANGED world
    BY DEF GlassMoves
  <2>2. \E m, c, v : Act("glass", m, IF c THEN <<>> ELSE << <<"position", v>> >>)
    BY Zenon DEF GlassMoves
  <2> QED
    BY <2>1, <2>2, MuteFew, MuteForms, ClaimForms, PublishedNames DEF Shape, Published
<1> QED
  BY <1>3, <1>4, <1>5, <1>6, <1>7, <1>8, <1>9 DEF S

\* The sunroof's switch and its motors.
LEMMA SunroofIsMute ==
  ASSUME Shape
  PROVE  /\ RoofSwitchHears => Mute("roofSwitch", Told \ OfAll("move", Panels))
         /\ \A p \in Panels :
               RoofSwitchSees(p) => Mute("roofSwitch", Told \ OfAll("move", Panels))
         /\ \A p \in Panels : RoofHears(p) => Mute("roof", Told)
         /\ RoofMoves => Mute("roof", Told \ OfAll("at", Panels))
<1>1. /\ Of("move", "roof") \notin Told \ OfAll("move", Panels)
      /\ Of("move", "shade") \notin Told \ OfAll("move", Panels)
      /\ Of("at", "roof") \notin Told \ OfAll("at", Panels)
      /\ Of("at", "shade") \notin Told \ OfAll("at", Panels)
  BY DEF OfAll, Panels
<1>2. ASSUME NEW m PROVE Mutes(CommandNews(m), Told \ OfAll("move", Panels))
  BY <1>1, MuteOptional DEF CommandNews
<1>3. \A s, m : RoofSwitchGoesOn(s, m) => Mute("roofSwitch", Told \ OfAll("move", Panels))
  BY <1>2, MuteForms, ClaimForms DEF Shape, RoofSwitchGoesOn
<1>4. \A m : world' = SavesRoof(m) => world'.claims = world.claims
  BY SavingKeepsClaims DEF Shape, SavesRoof
<1>5. \A p \in Panels : RoofHears(p) => Mute("roof", Told)
  BY <1>4, MuteFew, MuteForms DEF Shape, RoofHears
<1>6. ASSUME RoofMoves PROVE Mute("roof", Told \ OfAll("at", Panels))
  <2>1. world'.claims = world.claims
    BY Zenon, <1>4, <1>6 DEF RoofMoves
  <2>2. \E m, c, d, v, w :
           Act("roof", m, (IF c THEN <<>> ELSE << <<Of("at", "roof"), v>> >>)
                          \o (IF d THEN <<>> ELSE << <<Of("at", "shade"), w>> >>))
    BY <1>6, Zenon DEF RoofMoves
  <2> QED
    BY <1>1, <2>1, <2>2, MuteOptional, MuteForms DEF Shape
<1> QED
  BY <1>3, <1>5, <1>6 DEF RoofSwitchHears, RoofSwitchSees

\* The mirrors.
LEMMA MirrorsAreMute ==
  ASSUME Shape
  PROVE  /\ FoldHearsSwitch => Mute("fold", Told)
         /\ FoldHearsLock => Mute("fold", Told)
         /\ \A side \in Sides : FoldSees(side) => Mute("fold", Told)
         /\ \A side \in Sides : MirrorHears(side) => Mute("mirrors", Told)
         /\ \A side \in Sides : MirrorSettles(side) => Mute("mirrors", Told)
         /\ \A s : AdjustHears(s) => Mute("adjust", Told)
         /\ \A side \in Sides : AimHears(side) => Mute("aim", Told)
<1>1. \A side \in Sides : /\ Of("foldCmd", side) \notin Told
                          /\ Of("folded", side) \notin Told
                          /\ Of("aimCmd", side) \notin Told
  BY BearerNames DEF Stems, Bearers
<1>2. {"left", "right"} \subseteq Sides
  BY DEF Sides
<1>3. ASSUME NEW s, NEW m, NEW target, Folds(s, m, target) PROVE Mute("fold", Told)
  <2>1. world'.claims = world.claims
    BY <1>3, SavingKeepsClaims DEF Shape, Folds
  <2>2. \E n, c, d, v, w :
           React("fold", s, n, (IF c THEN <<>> ELSE << <<Of("foldCmd", "left"), v>> >>)
                               \o (IF d THEN <<>> ELSE << <<Of("foldCmd", "right"), w>> >>))
    BY <1>3, Zenon DEF Folds
  <2> QED
    BY <1>1, <1>2, <2>1, <2>2, MuteOptional, MuteForms DEF Shape
<1>4. FoldHearsSwitch => Mute("fold", Told)
  BY <1>3, MuteFew, MuteForms, ClaimForms DEF Shape, FoldHearsSwitch
<1>5. FoldHearsLock => Mute("fold", Told)
  BY <1>3, MuteFew, MuteForms, ClaimForms DEF Shape, FoldHearsLock
<1>6. \A side \in Sides : FoldSees(side) => Mute("fold", Told)
  BY MuteFew, MuteForms, ClaimForms DEF Shape, FoldSees
<1>7. \A side \in Sides : MirrorHears(side) => Mute("mirrors", Told)
  BY MuteFew, MuteForms, ClaimForms DEF Shape, MirrorHears
<1>8. ASSUME NEW side \in Sides, MirrorSettles(side) PROVE Mute("mirrors", Told)
  <2>1. \E v : world' = [world EXCEPT !.saved.folded = v]
    BY <1>8, Zenon DEF MirrorSettles
  <2>2. world'.claims = world.claims
    BY <2>1, SavingKeepsClaims DEF Shape
  <2>3. \E m, c, v : Act("mirrors", m, IF c THEN <<>> ELSE << <<Of("folded", side), v>> >>)
    BY <1>8, Zenon DEF MirrorSettles
  <2> QED
    BY <1>1, <2>2, <2>3, MuteFew, MuteForms DEF Shape
<1>9. ASSUME NEW s, AdjustHears(s) PROVE Mute("adjust", Told)
  <2>1. UNCHANGED world
    BY <1>9 DEF AdjustHears
  <2>2. \E m, c, v, w : React("adjust", s, m, IF c THEN <<>>
                              ELSE << <<Of("aimCmd", "left"), v>>, <<Of("aimCmd", "right"), w>> >>)
    BY <1>9, Zenon DEF AdjustHears
  <2> QED
    BY <1>1, <1>2, <2>1, <2>2, MuteFew, MuteForms, ClaimForms DEF Shape
<1>10. \A side \in Sides : AimHears(side) => Mute("aim", Told)
  BY MuteFew, MuteForms, ClaimForms DEF Shape, AimHears
<1> QED
  BY <1>4, <1>5, <1>6, <1>7, <1>8, <1>9, <1>10

\* The motors of the mirrors.
LEMMA AimIsMute == ASSUME Shape, AimMoves PROVE Mute("aim", Told)
<1>1. \A side \in Sides : /\ Of("tilt", side) \notin Told
                          /\ Of("yaw", side) \notin Told
  BY BearerNames DEF Stems, Bearers
<1>2. IsFiniteSet(Sides)
  <2>1. IsFiniteSet({"left"}) /\ IsFiniteSet({"right"})
    BY FS_Singleton
  <2>2. IsFiniteSet({"left"} \cup {"right"})
    BY <2>1, FS_Union
  <2>3. Sides = {"left"} \cup {"right"}
    BY DEF Sides
  <2> QED
    BY <2>2, <2>3
<1>3. ASSUME NEW f, NEW T, T \subseteq Sides
      PROVE  \A stem \in {"tilt", "yaw"} :
                /\ IsFiniteSet({<<Of(stem, x), f[x]>> : x \in T})
                /\ \A y \in {<<Of(stem, x), f[x]>> : x \in T} : y[1] \notin Told
  <2> TAKE stem \in {"tilt", "yaw"}
  <2> DEFINE g == [x \in T |-> <<Of(stem, x), f[x]>>]
  <2>1. IsFiniteSet(T)
    BY <1>2, <1>3, FS_Subset
  <2>2. DOMAIN g = T /\ g = [x \in T |-> g[x]] /\ \A x \in T : g[x] = <<Of(stem, x), f[x]>>
    OBVIOUS
  <2> HIDE DEF g
  <2>3. IsFiniteSet({g[x] : x \in T})
    BY <2>1, <2>2, ImageIsFinite
  <2>4. {<<Of(stem, x), f[x]>> : x \in T} = {g[x] : x \in T}
    BY <2>2
  <2> QED
    BY <1>1, <1>3, <2>3, <2>4
<1> DEFINE o == mem["aim"]
           tilt(side) == CASE o.dir[side] = "UP"   -> Min({o.tilt[side] + 1, Reach})
                           [] o.dir[side] = "DOWN" -> Max({o.tilt[side] - 1, -Reach})
                           [] OTHER                -> o.tilt[side]
           yaw(side)  == CASE o.dir[side] = "RIGHT" -> Min({o.yaw[side] + 1, Reach})
                           [] o.dir[side] = "LEFT"  -> Max({o.yaw[side] - 1, -Reach})
                           [] OTHER                 -> o.yaw[side]
           T == {x \in Sides : tilt(x) # o.tilt[x]}
           U == {x \in Sides : yaw(x) # o.yaw[x]}
           tilts == {<<Of("tilt", x), tilt(x)>> : x \in T}
           yaws  == {<<Of("yaw", x), yaw(x)>> : x \in U}
<1>4. /\ Act("aim", [o EXCEPT !.tilt = [x \in Sides |-> tilt(x)],
                             !.yaw = [x \in Sides |-> yaw(x)], !.timer.tick = 1],
             SetToSeq(tilts \cup yaws))
      /\ UNCHANGED world
  BY Zenon DEF AimMoves
<1> DEFINE news == tilts \cup yaws
<1>5. IsFiniteSet(news) /\ \A y \in news : y[1] \notin Told
  <2> DEFINE f == [x \in Sides |-> tilt(x)]
             h == [x \in Sides |-> yaw(x)]
  <2>1. T \subseteq Sides /\ U \subseteq Sides
    OBVIOUS
  <2>2. /\ tilts = {<<Of("tilt", x), f[x]>> : x \in T}
        /\ yaws = {<<Of("yaw", x), h[x]>> : x \in U}
    <3> HIDE DEF tilt, yaw
    <3> QED
      OBVIOUS
  <2> HIDE DEF T, U, f, h
  <2>3. /\ IsFiniteSet({<<Of("tilt", x), f[x]>> : x \in T})
        /\ \A y \in {<<Of("tilt", x), f[x]>> : x \in T} : y[1] \notin Told
        /\ IsFiniteSet({<<Of("yaw", x), h[x]>> : x \in U})
        /\ \A y \in {<<Of("yaw", x), h[x]>> : x \in U} : y[1] \notin Told
    BY <1>3, <2>1
  <2> HIDE DEF tilts, yaws
  <2> QED
    BY <2>2, <2>3, FS_Union
<1>6. \E m : Act("aim", m, SetToSeq(news))
  BY <1>4, Zenon
<1> HIDE DEF news
<1>7. UNCHANGED world
  BY <1>4
<1> HIDE DEF tilts, yaws, T, U, tilt, yaw, o
<1> QED
  BY <1>5, <1>6, <1>7, MuteSet, MuteForms, ClaimForms DEF Shape

-----------------------------------------------------------------------------
(* The doors, the hood and the lost-key warning.                           *)

\* The door's handle plant.
LEMMA DoorIsMute ==
  ASSUME Shape, NEW S, S = Told \ {"isLocked"}
  PROVE  /\ DoorHearsLock => Mute("door", S)
         /\ \A s : DoorKeeps(s) => Mute("door", S)
         /\ DoorSeesOpen => Mute("door", S)
         /\ DoorHearsInside => Mute("door", S)
         /\ DoorHearsOutside => Mute("door", S)
         /\ DoorHearsSoldier => Mute("door", S)
         /\ DoorHearsClose => Mute("door", S)
<1>1. \A s, m, news :
        DoorGoesOn(s, m, news) /\ Mutes(news, S) => Mute("door", S)
  BY MuteForms, ClaimForms DEF Shape, DoorGoesOn
<1>2. {"latch", "doorOpen", "isLocked"} \cap S = {}
  BY PublishedNames DEF Published
<1>3. Mutes(OpenNews, S) /\ Mutes(<<>>, S)
  BY <1>2, MuteFew DEF OpenNews
<1>4. \A v : Mutes(<< <<"latch", v>> >>, S) /\ Mutes(<< <<"isLocked", v>> >>, S)
  BY <1>2, MuteFew
<1>5. DoorHearsLock => Mute("door", S)
  BY <1>1, <1>3 DEF DoorHearsLock
<1>6. \A s : DoorKeeps(s) => Mute("door", S)
  BY MuteForms DEF Shape, DoorKeeps
<1>7. DoorSeesOpen => Mute("door", S)
  BY <1>1, <1>3, <1>4 DEF DoorSeesOpen
<1>8. DoorHearsInside => Mute("door", S)
  BY <1>1, <1>3, <1>4 DEF DoorHearsInside
<1>9. DoorHearsOutside => Mute("door", S)
  BY <1>1, <1>3 DEF DoorHearsOutside
<1>10. DoorHearsSoldier => Mute("door", S)
  BY <1>1, <1>3, <1>4 DEF DoorHearsSoldier
<1>11. ASSUME DoorHearsClose PROVE Mute("door", S)
  <2>1. \E m, u, v, w :
           \/ DoorGoesOn("closeDoor", m, <<>>)
           \/ DoorGoesOn("closeDoor", m, << <<"doorOpen", u>>, <<"latch", v>>, <<"isLocked", w>> >>)
    BY <1>11, Zenon DEF DoorHearsClose
  <2>2. \A u, v, w :
           Mutes(<< <<"doorOpen", u>>, <<"latch", v>>, <<"isLocked", w>> >>, S)
    BY <1>2, MuteFew
  <2> QED
    BY <1>1, <1>3, <2>1, <2>2
<1> QED
  BY <1>5, <1>6, <1>7, <1>8, <1>9, <1>10, <1>11

\* The door's lock, PowerChildLock and the hood.
LEMMA LocksAreMute ==
  ASSUME Shape, NEW S, S = Told \ {"isLocked", "double", "soldier"}
  PROVE  /\ LocksHearCommand => Mute("locks", S)
         /\ \A s : LocksSee(s) => Mute("locks", S)
         /\ ChildPowerHears => Mute("childPower", Told)
         /\ \A s : HoodHears(s) => Mute("hood", Told)
         /\ HoodForgetsPull => Mute("hood", Told)
<1>1. /\ {"double", "isLocked", "soldier", "child", "hoodLatch"} \cap S = {}
      /\ {"child", "hoodLatch"} \cap Told = {}
  BY PublishedNames DEF Published
<1>2. ASSUME NEW m, NEW on PROVE Mutes(LockNews(m, on), S)
  <2> DEFINE first == IF on THEN <<>> ELSE << <<"double", FALSE>> >>
             rest  == << <<"isLocked", on>>, <<"soldier", ~on>> >>
  <2>1. LockNews(m, on) = <<>> \/ LockNews(m, on) = first \o rest
    BY Zenon DEF LockNews
  <2>2. Mutes(first, S) /\ IsSeq(first)
    BY <1>1, MuteFew, FewAreSeq, NothingIsSeq
  <2>3. Mutes(rest, S) /\ IsSeq(rest)
    <3>1. \A v, w : Mutes(<< <<"isLocked", v>>, <<"soldier", w>> >>, S)
      BY <1>1, MuteFew
    <3>2. \A v, w : IsSeq(<< <<"isLocked", v>>, <<"soldier", w>> >>)
      BY FewAreSeq
    <3> QED
      BY <3>1, <3>2
  <2> HIDE DEF first, rest
  <2> QED
    BY <2>1, <2>2, <2>3, MuteBoth, MuteFew
<1>3. ASSUME NEW m, NEW on PROVE Mutes(DoubleNews(m, on), S)
  <2> DEFINE first == IF on THEN << <<"isLocked", TRUE>> >> ELSE <<>>
             rest  == << <<"double", on>> >>
  <2>1. DoubleNews(m, on) = <<>> \/ DoubleNews(m, on) = first \o rest
    BY Zenon DEF DoubleNews
  <2>2. Mutes(first, S) /\ IsSeq(first)
    BY <1>1, MuteFew, FewAreSeq, NothingIsSeq
  <2>3. Mutes(rest, S) /\ IsSeq(rest)
    <3>1. \A v : Mutes(<< <<"double", v>> >>, S) /\ IsSeq(<< <<"double", v>> >>)
      BY <1>1, MuteFew, FewAreSeq
    <3> QED
      BY <3>1
  <2> HIDE DEF first, rest
  <2> QED
    BY <2>1, <2>2, <2>3, MuteBoth, MuteFew
<1>4. ASSUME LocksHearCommand PROVE Mute("locks", S)
  <2>1. UNCHANGED world
    BY <1>4 DEF LocksHearCommand
  <2>2. \E m, o, on : \/ React("locks", "command", m, LockNews(o, on))
                      \/ React("locks", "command", m, DoubleNews(o, on))
    BY <1>4, Zenon DEF LocksHearCommand
  <2> QED
    BY <1>2, <1>3, <2>1, <2>2, MuteForms, ClaimForms DEF Shape
<1>5. \A s : LocksSee(s) => Mute("locks", S)
  BY MuteFew, MuteForms, ClaimForms DEF Shape, LocksSee
<1>6. ASSUME ChildPowerHears PROVE Mute("childPower", Told)
  <2>1. UNCHANGED world
    BY <1>6 DEF ChildPowerHears
  <2>2. \E m, c, v : React("childPower", "childPress", m,
                           IF c THEN << <<"child", v>> >> ELSE <<>>)
    BY <1>6, Zenon DEF ChildPowerHears
  <2> QED
    BY <1>1, <2>1, <2>2, MuteFew, MuteForms, ClaimForms DEF Shape
<1>7. ASSUME NEW s, NEW latch, HoodMoves(s, latch) PROVE Mute("hood", Told)
  BY <1>1, <1>7, SavingKeepsClaims, MuteFew, MuteForms DEF Shape, HoodMoves
<1>8. \A s : HoodHears(s) => Mute("hood", Told)
  BY <1>7, MuteFew, MuteForms, ClaimForms DEF Shape, HoodHears
<1>9. HoodForgetsPull => Mute("hood", Told)
  BY MuteFew, MuteForms, ClaimForms DEF Shape, HoodForgetsPull
<1> QED
  BY <1>4, <1>5, <1>6, <1>8, <1>9

\* KeyLostWarning speaks of its warning and the chime only.
LEMMA LostIsMute == ASSUME Shape, Lost PROVE Mute("lost", Told \ {"lostKey", "chime"})
<1> DEFINE S == Told \ {"lostKey", "chime"}
<1> SUFFICES Mute("lost", S)
  OBVIOUS
<1>1. ASSUME NEW b PROVE Mutes(WarningIs(b), S)
  BY MuteFew DEF WarningIs
<1>2. Mutes(<<>>, S)
  BY MuteFew
<1> HIDE DEF S
<1>3. \A m : Mutes(ClearedNews(m), S)
  BY <1>1, <1>2 DEF ClearedNews
<1>4. LostScan => world'.claims = world.claims
  BY ClaimForms DEF Shape, LostScan
<1>5. CASE LostHearsPower
  BY <1>2, <1>3, <1>4, <1>5, MuteForms, ClaimForms DEF Shape, LostHearsPower
<1>6. CASE \E s \in {"open", "trunkOpen"} : LostHearsOpening(s)
  BY <1>2, <1>3, <1>4, <1>6, MuteForms, ClaimForms DEF Shape, LostHearsOpening
<1>7. CASE LostPeriod
  BY <1>2, <1>4, <1>7, MuteForms, ClaimForms DEF Shape, LostPeriod
<1>8. CASE LostMisses
  BY <1>1, <1>2, <1>8, MuteForms, ClaimForms DEF Shape, LostMisses
<1>9. CASE \E i \in Answers("lost") : LostResult(i)
  BY <1>1, <1>2, <1>3, <1>9, MuteForms, ClaimForms DEF Shape, LostResult
<1>10. CASE LostExpires
  BY <1>1, <1>2, <1>3, <1>10, MuteForms, ClaimForms DEF Shape, LostExpires
<1> QED
  BY <1>5, <1>6, <1>7, <1>8, <1>9, <1>10 DEF Lost

-----------------------------------------------------------------------------
(* What no task does, and the cases of a step together.                    *)

\* A press heard over the radio without the plant.
RadioStep ==
  \/ Pressed
  \/ \E f \in Fobs : RadioRepeats(f)

\* One of the team's offers.
OfferStep == \E o \in Team.offers : Happens(o[1], o[2])

\* What leaves many signals leaves the fewer.
LEMMA MuteFewer == \A t, S, R : Mute(t, S) /\ R \subseteq S => Mute(t, R)
  BY DEF Mute

\* The team of a behaviour is one of them.
LEMMA TeamForms ==
  ASSUME Shape
  PROVE  /\ \A o \in Team.offers : o[1] \notin TaskSignals
         /\ \A m \in Team.moves : m[1] \in Keys
         /\ \A r \in Team.radio : r[2] \in Nat
  BY TeamsAssumption DEF Shape, Team

\* The arbiter, the key search, the keys and time publish none of these.
LEMMA AroundIsMute ==
  ASSUME Shape
  PROVE  /\ PublishOrder
               => Mute("arbiter", Told \ {"command", "status", "requestor", "eventNum"})
         /\ SearchServed => Mute("search", Told)
         /\ EntryHappens => \/ RadioStep
                            \/ OfferStep /\ Mute("around", TaskSignals)
                            \/ Mute("around", Told)
         /\ TimePasses => Mute("time", Told)
         /\ RadioStep => Mute("radio", Told \ OfAll("rf", Fobs))
<1>1. ASSUME PublishOrder
      PROVE  Mute("arbiter", Told \ {"command", "status", "requestor", "eventNum"})
  <2>1. world'.claims = world.claims
    BY <1>1 DEF PublishOrder, Shape, WorldFields
  <2> DEFINE S == Told \ {"command", "status", "requestor", "eventNum"}
  <2>2. {"command", "status", "requestor", "eventNum"} \cap S = {}
    OBVIOUS
  <2> HIDE DEF S
  <2>3. Mute("arbiter", S)
    BY <1>1, <2>1, <2>2, MuteFew, MuteForms DEF Shape, PublishOrder
  <2> QED
    BY <2>3 DEF S
<1>2. ASSUME SearchServed PROVE Mute("search", Told)
  <2>1. world'.claims = world.claims
    BY Zenon, <1>2 DEF SearchServed, BeginSearch, EndSearch, Coalesce, Shape, WorldFields
  <2>2. ASSUME EndSearch PROVE Mute("search", Told)
    <3>1. \E after : PublishObserved(after)
      BY <2>2, Zenon DEF EndSearch
    <3> QED
      BY <2>1, <3>1, ObservedIsMute DEF Shape
  <2>3. ASSUME BeginSearch \/ Coalesce PROVE Mute("search", Told)
    <3>1. UNCHANGED <<bus, unread>>
      BY Zenon, <2>3 DEF BeginSearch, Coalesce
    <3> QED
      BY SMTT(30), <2>1, <3>1, MuteForms DEF Shape
  <2> QED
    BY SMTT(30), <1>2, <2>2, <2>3 DEF SearchServed
<1>3. ASSUME NEW o \in Team.offers, Happens(o[1], o[2])
      PROVE  OfferStep /\ Mute("around", TaskSignals)
  <2>1. world'.claims = world.claims
    BY <1>3 DEF Happens, Shape, WorldFields
  <2> QED
    BY <1>3, <2>1, TeamForms, MuteFew, MuteForms DEF Shape, Happens, OfferStep
<1>4. ASSUME NEW m \in Team.moves, MoveKey(m[1], m[2]) PROVE Mute("around", Told)
  <2>1. world'.claims = world.claims
    BY <1>4 DEF MoveKey, Shape, WorldFields
  <2>2. m[1] \in Keys => Of("placed", m[1]) \notin Told
    BY BearerNames DEF Stems, Bearers
  <2>3. m[1] \in Keys
    BY TeamForms
  <2> QED
    BY <1>4, <2>1, <2>2, <2>3, MuteFew, MuteForms DEF Shape, MoveKey
<1>5. ASSUME NEW o \in Team.orders, OrderElsewhere(o[1], o[2]) PROVE Mute("around", Told)
  <2>1. world'.claims = world.claims
    BY <1>5 DEF OrderElsewhere, Ordered, Shape, WorldFields
  <2> QED
    BY <1>5, <2>1, MuteForms DEF Shape, OrderElsewhere
<1>6. ASSUME Poll PROVE Mute("around", Told)
  <2>1. world'.claims = world.claims
    BY <1>6 DEF Poll, Shape, WorldFields
  <2>2. \E after : PublishObserved(after)
    BY <1>6, Zenon DEF Poll
  <2> QED
    BY <2>1, <2>2, ObservedIsMute DEF Shape
<1>7. EntryHappens => \/ RadioStep
                      \/ OfferStep /\ Mute("around", TaskSignals)
                      \/ Mute("around", Told)
  BY <1>3, <1>4, <1>5, <1>6 DEF EntryHappens, RadioStep, Pressed
<1>8. ASSUME TimePasses PROVE Mute("time", Told)
  <2>1. world'.claims = world.claims
    BY <1>8 DEF TimePasses, Shape, WorldFields
  <2>2. UNCHANGED <<bus, unread>>
    BY <1>8 DEF TimePasses, Tick
  <2> QED
    BY <2>1, <2>2, MuteForms DEF Shape
<1>9. ASSUME RadioStep PROVE Mute("radio", Told \ OfAll("rf", Fobs))
  <2>1. world'.claims = world.claims
    BY <1>9 DEF RadioStep, Pressed, Radio, RadioRepeats, Shape, WorldFields
  <2>2. \E f \in Fobs : \E v : Publish(<< <<Of("rf", f), v>> >>)
    BY <1>9 DEF RadioStep, Pressed, Radio, RadioRepeats
  <2>3. \A f \in Fobs : Of("rf", f) \notin Told \ OfAll("rf", Fobs)
    BY DEF OfAll
  <2> QED
    BY <2>1, <2>2, <2>3, MuteFew, MuteForms DEF Shape
<1> QED
  BY <1>1, <1>2, <1>7, <1>8, <1>9

\* Whose steps say nothing of these signals.
Silent ==
  (Others \ {"door", "locks"})
  \cup {"peps", "flash", "walk", "passive", "relay", "search", "around", "time"}

\* A key answers the press of its button.
ButtonStep == \E k \in Fobs : PepsHearsButton(k)

\* A step of a task of the lock features, by what it says.
LEMMA EntryIsMute ==
  ASSUME Shape, EntryTasksStep
  PROVE  \/ \E t \in Silent : Mute(t, Told)
         \/ ButtonStep /\ Mute("peps", Told \ OfAll("rf", Fobs))
         \/ RkeStep /\ Mute("rke", Told)
         \/ Lost /\ Mute("lost", Told \ {"lostKey", "chime"})
         \/ PublishOrder
<1> DEFINE Goal == \/ \E t \in Silent : Mute(t, Told)
                   \/ ButtonStep /\ Mute("peps", Told \ OfAll("rf", Fobs))
                   \/ RkeStep /\ Mute("rke", Told)
                   \/ Lost /\ Mute("lost", Told \ {"lostKey", "chime"})
                   \/ PublishOrder
<1>1. \A t \in {"smart", "pop", "walk", "pad", "button", "passive", "slam", "trim", "nfc",
                "release", "auth", "trunk", "search", "peps"} : t \in Silent
  BY DEF Silent, Others
<1> SUFFICES Goal
  OBVIOUS
<1>2. CASE KeyFeaturesStep
  BY <1>1, <1>2, SmartIsMute, PopIsMute, WalkIsMute, PadIsMute, ButtonIsMute, LostIsMute
  DEF KeyFeaturesStep
<1>3. CASE PepsStep
  BY <1>1, <1>3, PepsIsMute DEF PepsStep, ButtonStep
<1>4. CASE CabinLocksStep
  BY <1>1, <1>4, SlamIsMute, TrimIsMute, NfcIsMute, CabinIsMute DEF CabinLocksStep
<1>5. CASE PassiveStep
  BY <1>1, <1>5, PassiveIsMute
<1>6. CASE RkeStep
  BY <1>6, RkeIsMute
<1>7. ASSUME NEW s, MoveTrunk(s) PROVE Goal
  BY <1>1, <1>7, CabinIsMute
<1>8. CASE PublishOrder
  BY <1>8
<1>9. CASE BeginSearch \/ EndSearch \/ Coalesce
  BY <1>1, <1>9, AroundIsMute DEF SearchServed
<1> HIDE DEF Goal
<1> QED
  BY <1>2, <1>3, <1>4, <1>5, <1>6, <1>7, <1>8, <1>9 DEF EntryTasksStep

\* A step of a task of the body features, by what it says.
LEMMA ComfortIsMute ==
  ASSUME Shape, FlashSound, ComfortTasksStep
  PROVE  \/ \E t \in Silent : Mute(t, Told)
         \/ Runs("flash") /\ Mute("flash", Told \ {"chime"})
         \/ WindowStep /\ Mute("window", Told \ {"motor"})
         \/ RoofSwitchStep /\ Mute("roofSwitch", Told \ OfAll("move", Panels))
         \/ MotorsStep /\ Mute("roof", Told \ OfAll("at", Panels))
         \/ DoorStep \/ LocksStep
<1> DEFINE Goal ==
       \/ \E t \in Silent : Mute(t, Told)
       \/ Runs("flash") /\ Mute("flash", Told \ {"chime"})
       \/ WindowStep /\ Mute("window", Told \ {"motor"})
       \/ RoofSwitchStep /\ Mute("roofSwitch", Told \ OfAll("move", Panels))
       \/ MotorsStep /\ Mute("roof", Told \ OfAll("at", Panels))
       \/ DoorStep \/ LocksStep
<1>1. (Others \ {"door", "locks"}) \cup {"flash", "relay"} \subseteq Silent
  BY DEF Silent, Others
<1>2. \A t \in {"turn", "hazard", "flash", "welcome", "farewell", "home", "dome", "assist", "beams",
                "autoBeam", "honk", "fog", "rearLamps", "accessory", "sounder", "led", "dayNight",
                "brake", "glass", "fold", "mirrors", "adjust", "aim", "childPower",
                "hood"} : t \in Silent
  BY <1>1 DEF Others
<1> SUFFICES Goal
  OBVIOUS
<1>3. CASE LampsStep
  <2>1. ASSUME NEW side \in Sides, RelayHears(side) \/ RelayHearsDefect(side) \/ RelayTicks(side)
        PROVE  Goal
    BY <1>1, <2>1, RelayIsMute
  <2>2. CASE TurnHearsStalk \/ TurnHearsPower \/ (\E side \in Sides : TurnHearsLamp(side))
             \/ HazardHears
    BY <1>2, <2>2, TurnIsMute
  <2>3. CASE FlashStep
    <3>1. "flash" \in DOMAIN mem
      BY <2>3, FlashRuns
    <3> QED
      BY <1>2, <2>3, <3>1, FlashIsMute DEF FlashStep, Runs
  <2> HIDE DEF Goal
  <2> QED
    BY <1>3, <2>1, <2>2, <2>3 DEF LampsStep, FlashStep
<1>4. CASE CourtesyStep
  <2>1. ASSUME NEW t \in Silent, Mute(t, Told) PROVE Goal
    BY <2>1
  <2> HIDE DEF Goal
  <2> QED
    BY <1>2, <1>4, <2>1, WelcomeIsMute, FarewellIsMute, BeamsAreMute, OutputsAreMute
    DEF CourtesyStep
<1>5. CASE ClosuresStep
  <2>1. CASE Windows
    BY <1>2, <2>1, WindowIsMute DEF Windows, WindowStep
  <2>2. CASE Sunroof
    <3>1. \A p \in Panels : RoofHears(p) => Mute("roof", Told \ OfAll("at", Panels))
      BY SunroofIsMute, MuteFewer
    <3> QED
      BY <2>2, <3>1, SunroofIsMute DEF Sunroof, RoofSwitchStep, MotorsStep
  <2>3. CASE Mirrors
    BY <1>2, <2>3, MirrorsAreMute, AimIsMute DEF Mirrors
  <2> QED
    BY <1>5, <2>1, <2>2, <2>3 DEF ClosuresStep
<1>6. CASE DoorsStep
  BY <1>2, <1>6, LocksAreMute DEF DoorsStep, DoorStep, LocksStep
<1> QED
  BY <1>3, <1>4, <1>5, <1>6 DEF ComfortTasksStep

\* Whose steps say nothing of the tasks' own signals.
Spokesmen == Silent \cup {"door", "locks", "arbiter"}

\* The step is of one of these forms.
LEMMA MuteCases ==
  ASSUME Shape, FlashSound, Next
  PROVE  \/ \E t \in Spokesmen : Mute(t, TaskSignals)
         \/ (ButtonStep \/ RadioStep) /\ \E t \in {"peps", "radio"} :
               Mute(t, TaskSignals \ OfAll("rf", Fobs))
         \/ RkeStep /\ Mute("rke", TaskSignals)
         \/ Lost /\ Mute("lost", TaskSignals \ {"lostKey", "chime"})
         \/ Runs("flash") /\ Mute("flash", TaskSignals \ {"chime"})
         \/ WindowStep /\ Mute("window", TaskSignals \ {"motor"})
         \/ RoofSwitchStep /\ Mute("roofSwitch", TaskSignals \ OfAll("move", Panels))
         \/ MotorsStep /\ Mute("roof", TaskSignals \ OfAll("at", Panels))
         \/ Reboots
<1>1. /\ TaskSignals \subseteq Told
      /\ \A X : TaskSignals \ X \subseteq Told \ X
      /\ \A X : X \subseteq LockChain => TaskSignals \subseteq Told \ X
  BY LockNames DEF Told
<1>2. /\ {"isLocked"} \subseteq LockChain /\ {"isLocked", "double", "soldier"} \subseteq LockChain
      /\ {"command", "status", "requestor", "eventNum"} \subseteq LockChain
  BY DEF LockChain
<1>3. EntryHappens \/ TimePasses
      => \/ RadioStep /\ Mute("radio", TaskSignals \ OfAll("rf", Fobs))
         \/ \E t \in Spokesmen : Mute(t, TaskSignals)
  BY <1>1, AroundIsMute, MuteFewer DEF Spokesmen, Silent
<1>4. PublishOrder => \E t \in Spokesmen : Mute(t, TaskSignals)
  BY <1>1, <1>2, AroundIsMute, MuteFewer DEF Spokesmen
<1>5. DoorStep \/ LocksStep => \E t \in Spokesmen : Mute(t, TaskSignals)
  <2>1. DoorStep => Mute("door", Told \ {"isLocked"})
    <3>1. \A S : S = Told \ {"isLocked"} => (DoorStep => Mute("door", S))
      BY Zenon, DoorIsMute DEF DoorStep
    <3> QED
      BY Zenon, <3>1
  <2>2. LocksStep => Mute("locks", Told \ {"isLocked", "double", "soldier"})
    <3>1. \A S : S = Told \ {"isLocked", "double", "soldier"} => (LocksStep => Mute("locks", S))
      BY Zenon, LocksAreMute DEF LocksStep
    <3> QED
      BY Zenon, <3>1
  <2>3. /\ DoorStep => Mute("door", TaskSignals)
        /\ LocksStep => Mute("locks", TaskSignals)
    <3>1. /\ TaskSignals \subseteq Told \ {"isLocked"}
          /\ TaskSignals \subseteq Told \ {"isLocked", "double", "soldier"}
      BY <1>1, <1>2
    <3>2. /\ \A R : R \subseteq Told \ {"isLocked"} /\ Mute("door", Told \ {"isLocked"})
               => Mute("door", R)
          /\ \A R : /\ R \subseteq Told \ {"isLocked", "double", "soldier"}
                  /\ Mute("locks", Told \ {"isLocked", "double", "soldier"})
               => Mute("locks", R)
      BY Zenon, MuteFewer
    <3> QED
      BY Zenon, <2>1, <2>2, <3>1, <3>2
  <2>4. "door" \in Spokesmen /\ "locks" \in Spokesmen
    BY DEF Spokesmen
  <2> QED
    BY <2>3, <2>4
<1>6. EntryTasksStep
      => \/ \E t \in Spokesmen : Mute(t, TaskSignals)
         \/ ButtonStep /\ Mute("peps", TaskSignals \ OfAll("rf", Fobs))
         \/ RkeStep /\ Mute("rke", TaskSignals)
         \/ Lost /\ Mute("lost", TaskSignals \ {"lostKey", "chime"})
  BY <1>1, <1>4, EntryIsMute, MuteFewer DEF Spokesmen
<1>7. ComfortTasksStep
      => \/ \E t \in Spokesmen : Mute(t, TaskSignals)
         \/ Runs("flash") /\ Mute("flash", TaskSignals \ {"chime"})
         \/ WindowStep /\ Mute("window", TaskSignals \ {"motor"})
         \/ RoofSwitchStep /\ Mute("roofSwitch", TaskSignals \ OfAll("move", Panels))
         \/ MotorsStep /\ Mute("roof", TaskSignals \ OfAll("at", Panels))
  BY <1>1, <1>5, ComfortIsMute, MuteFewer DEF Spokesmen
<1> QED
  BY <1>3, <1>6, <1>7 DEF Next

\* LockFeedback starts without sounds.
LEMMA FlashStarts ==
  ASSUME NEW b
  PROVE  LET m == FlashTask(b).mem IN
         /\ "sounds" \in DOMAIN m /\ "timer" \in DOMAIN m
         /\ IsSeq(m.sounds)
         /\ \A i \in DOMAIN m.sounds : m.sounds[i] \in {"horn", "chime"}
  BY NothingIsSeq, SeqPlaces DEF FlashTask

\* What its step makes of its sounds.
FlashForms ==
  \E m :
     /\ "sounds" \in DOMAIN m /\ "timer" \in DOMAIN m
     /\ \/ m.sounds = mem["flash"].sounds
        \/ \E w \in {"horn", "chime"} : m.sounds = Append(mem["flash"].sounds, w)
        \/ \E i \in DOMAIN mem["flash"].sounds : m.sounds = RemoveAt(mem["flash"].sounds, i)
     /\ mem' = [mem EXCEPT !["flash"] = m]

\* It keeps them, plays one more or silences one.
LEMMA FlashSteps ==
  ASSUME "sounds" \in DOMAIN mem["flash"], "timer" \in DOMAIN mem["flash"], FlashStep
  PROVE  FlashForms
<1>1. CASE FlashHearsFeedback
  <2>1. \A n, signal, time :
           LET m == Sounds(n, signal, time) IN
           "sounds" \in DOMAIN n /\ "timer" \in DOMAIN n =>
               /\ "sounds" \in DOMAIN m /\ "timer" \in DOMAIN m
               /\ m.sounds = Append(n.sounds, signal)
    BY DEF Sounds
  <2>2. \A m, kind : LET n == Starts(m, kind) IN
           "sounds" \in DOMAIN m /\ "timer" \in DOMAIN m =>
               "sounds" \in DOMAIN n /\ "timer" \in DOMAIN n /\ n.sounds = m.sounds
    BY DEF Starts
  <2> DEFINE v == Val("flash", "feedback")
             old == mem["flash"]
             kind == IF v = "lock" THEN "lock" ELSE "unlock"
             n == [Starts(old, kind) EXCEPT !.outside = @ \/ v = "trunk_unlock"]
  <2>3. "sounds" \in DOMAIN n /\ "timer" \in DOMAIN n /\ n.sounds = old.sounds
    BY <2>2
  <2>4. \/ mem' = [mem EXCEPT !["flash"] = Sounds(old, "horn", Honk)]
        \/ mem' = [mem EXCEPT !["flash"] = Sounds(n, "chime", LockChime)]
        \/ mem' = [mem EXCEPT !["flash"] = n]
        \/ mem' = [mem EXCEPT !["flash"] = old]
    BY <1>1 DEF FlashHearsFeedback, ReactClaiming
  <2> HIDE DEF n
  <2> QED
    BY <2>1, <2>3, <2>4 DEF FlashForms
<1>2. CASE FlashHearsTrunk
  BY <1>2 DEF FlashHearsTrunk, ReactClaiming, FlashForms, Starts
<1>3. CASE FlashPlays
  BY <1>3 DEF FlashPlays, ActClaiming, FlashForms
<1>4. ASSUME NEW s \in {"locked", "open"}, FlashKeeps(s) PROVE FlashForms
  BY <1>4 DEF FlashKeeps, Keeps, React, FlashForms
<1>5. ASSUME NEW i \in DOMAIN mem["flash"].sounds, FlashSilences(i) PROVE FlashForms
  BY <1>5 DEF FlashSilences, Act, FlashForms
<1> QED
  BY <1>1, <1>2, <1>3, <1>4, <1>5 DEF FlashStep

\* LockFeedback's sounds stay of these kinds.
LEMMA FlashKept == ASSUME Shape, FlashSound, [Next]_vars PROVE FlashSound'
<1>1. CASE UNCHANGED vars
  BY <1>1 DEF vars, FlashSound
<1>2. CASE Next /\ "flash" \notin DOMAIN mem
  BY <1>2, WorldSteps DEF FlashSound
<1> SUFFICES ASSUME Next, "flash" \in DOMAIN mem PROVE FlashSound'
  BY <1>1, <1>2
<1> DEFINE old == mem["flash"]
<1>3. /\ "sounds" \in DOMAIN old /\ "timer" \in DOMAIN old
      /\ IsSeq(old.sounds)
      /\ \A i \in DOMAIN old.sounds : old.sounds[i] \in {"horn", "chime"}
  BY DEF FlashSound
<1>4. ASSUME NEW m, "sounds" \in DOMAIN m, "timer" \in DOMAIN m,
             \/ m.sounds = old.sounds
             \/ \E w \in {"horn", "chime"} : m.sounds = Append(old.sounds, w)
             \/ \E i \in DOMAIN old.sounds : m.sounds = RemoveAt(old.sounds, i),
             mem' = [mem EXCEPT !["flash"] = m]
      PROVE  FlashSound'
  <2>1. mem'["flash"] = m
    BY <1>4
  <2> HIDE DEF old
  <2>2. IsSeq(m.sounds) /\ \A i \in DOMAIN m.sounds : m.sounds[i] \in {"horn", "chime"}
    <3>1. CASE m.sounds = old.sounds
      BY <1>3, <3>1
    <3>2. ASSUME NEW w \in {"horn", "chime"}, m.sounds = Append(old.sounds, w)
          PROVE  IsSeq(m.sounds) /\ \A i \in DOMAIN m.sounds : m.sounds[i] \in {"horn", "chime"}
      BY <1>3, <3>2, AppendPlaces, SeqPlaces
    <3>3. ASSUME NEW i \in DOMAIN old.sounds, m.sounds = RemoveAt(old.sounds, i)
          PROVE  IsSeq(m.sounds) /\ \A j \in DOMAIN m.sounds : m.sounds[j] \in {"horn", "chime"}
      <4> DEFINE ss == old.sounds
                 rr == RemoveAt(ss, i)
      <4>1. /\ IsSeq(ss) /\ i \in DOMAIN ss
            /\ \A j \in DOMAIN ss : ss[j] \in {"horn", "chime"}
        BY <1>3, <3>3
      <4> HIDE DEF ss
      <4>2. /\ IsSeq(rr) /\ Len(rr) = Len(ss) - 1
            /\ \A j \in 1..(Len(ss) - 1) : rr[j] = IF j < i THEN ss[j] ELSE ss[j + 1]
        BY <4>1, RemovedPlaces
      <4> HIDE DEF rr
      <4>3. \A j \in DOMAIN rr : rr[j] \in {"horn", "chime"}
        BY SMTT(30), <4>1, <4>2, SeqPlaces
      <4>4. m.sounds = rr
        BY <3>3 DEF ss, rr
      <4> QED
        BY <4>2, <4>3, <4>4
    <3> QED
      BY <1>4, <3>1, <3>2, <3>3
  <2> QED
    BY <1>4, <2>1, <2>2 DEF FlashSound
<1>5. ASSUME NEW t, t # "flash", Only(t) PROVE FlashSound'
  BY <1>5 DEF Only, FlashSound
<1>6. ASSUME UNCHANGED mem PROVE FlashSound'
  BY <1>6 DEF FlashSound
<1>7. CASE TimePasses
  <2>1. mem'["flash"] = [old EXCEPT !.timer = Passed(@)]
    BY <1>7, TimeForms
  <2> QED
    BY <1>3, <2>1 DEF FlashSound
<1>8. CASE Reboots
  <2>1. PICK b : mem' = [t \in DOMAIN mem |-> ComfortTask(t, b, world.saved).mem]
    BY <1>8, Zenon DEF Reboots
  <2>2. mem'["flash"] = FlashTask(b).mem
    BY <2>1 DEF ComfortTask
  <2> QED
    BY <2>2, FlashStarts DEF FlashSound
<1>9. CASE FlashStep
  <2>1. FlashForms
    BY <1>3, <1>9, FlashSteps
  <2> QED
    BY <1>4, <2>1 DEF FlashForms
<1> QED
  BY StepCases, OnlyForms, <1>5, <1>6, <1>7, <1>8, <1>9 DEF Others
=============================================================================
