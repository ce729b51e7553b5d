----------------------------- MODULE KeyFeatures -----------------------------
(***************************************************************************)
(* The features that search for keys and then lock, unlock, pop the trunk  *)
(* or warn: SmartUnlock ("smart"), SmartTrunkPop ("pop"), WalkAwayLock     *)
(* ("walk"), KeypadLock ("pad"), ExteriorTrunkButton ("button") and        *)
(* KeyLostWarning ("lost"), all in src/vss-bridge/src/features.            *)
(*                                                                         *)
(* All but the last await the answer in their loop: what they have read    *)
(* before is used after it, and meanwhile they read nothing.               *)
(***************************************************************************)
EXTENDS LockWorld

CONSTANTS
    Debounce,    \* DEBOUNCE of the lock pad, in ticks
    WarningTime, \* WARNING_DURATION
    Period,      \* PERIODIC_INTERVAL
    MaxMissed    \* bound of the periods counted while the power is off

ASSUME KeyFeaturesAssumption == {Debounce, WarningTime, Period, MaxMissed} \subseteq Nat \ {0}

Quiescent(ignition) == ignition \in {"OFF", "LOCK"}

InCabin(found) == \E k \in DOMAIN found : found[k] = "Cabin"

\* is_outside_zone and is_outside_cabin
Outside(found) == \E k \in DOMAIN found : found[k] \in {"Left", "Right", "Trunk", "Approach"}

\* The loop of t goes on with the answer numbered i.
Resumes(t, i) == i \in Answers(t)

-----------------------------------------------------------------------------
(* SmartUnlock.                                                            *)

SmartOrder == <<"status", "requestor", "ignition", "eventNum">>

SmartKeeps(s) ==
    /\ s # "eventNum"
    /\ ReadsInTurn("smart", SmartOrder, s)
    /\ Keeps("smart", s)

\* EXTERNAL_LOCK_SOURCES and the other gates.
SmartGates ==
    /\ Quiescent(mem["smart"].ignition)
    /\ mem["smart"].status \in Locked
    /\ mem["smart"].requestor \in {"PhoneApp", "SlamLock"}

SmartEvent ==
    /\ ReadsInTurn("smart", SmartOrder, "eventNum")
    /\ React("smart", "eventNum", mem["smart"], <<>>)
    /\ IF SmartGates THEN Ask("smart", {"Cabin", "AllApproach"}) ELSE UNCHANGED world

\* A key in the cabin and none outside: the lock is undone.
SmartDecides(i) ==
    /\ Resumes("smart", i)
    /\ LET found == world.searches[i].found
           undo  == InCabin(found) /\ ~Outside(found)
       IN  /\ Act("smart", mem["smart"],
                  IF undo THEN << <<"feedback", "mislock">>, <<"feedback", "unlock">> >> ELSE <<>>)
           /\ world' = IF undo THEN Ordered(Taken(world, i), "SmartUnlock", "UnlockAll")
                               ELSE Taken(world, i)

Smart == \/ \E s \in {"status", "requestor", "ignition"} : SmartKeeps(s)
         \/ SmartEvent
         \/ \E i \in Answers("smart") : SmartDecides(i)

-----------------------------------------------------------------------------
(* SmartTrunkPop.                                                          *)

PopOrder == <<"status", "requestor", "ignition", "trunkOpen", "eventNum">>

PopSources == {"KeyfobRke", "KeyfobPeps", "PassiveEntry", "KeypadLock",
               "PhoneApp", "PhoneBle", "NfcCard", "NfcPhone"}

\* The latch of path B survives only while the car is locked and at rest.
PopKeeps(s) ==
    /\ s \in {"status", "requestor", "ignition"}
    /\ ReadsInTurn("pop", PopOrder, s)
    /\ LET m == [mem["pop"] EXCEPT ![s] = Val("pop", s)] IN
        React("pop", s,
              [m EXCEPT !.pending = @ /\ (s = "status" => m.status \in Locked)
                                      /\ (s = "ignition" => Quiescent(m.ignition))], <<>>)
    /\ UNCHANGED world

\* gates_still_hold, with the dealer's setting.
PopGates ==
    /\ bus["popEnabled"]
    /\ Quiescent(mem["pop"].ignition)
    /\ mem["pop"].status \in Locked
    /\ mem["pop"].requestor \in PopSources

PopTrunk ==
    /\ ReadsInTurn("pop", PopOrder, "trunkOpen")
    /\ LET open   == Val("pop", "trunkOpen")
           closes == mem["pop"].trunkOpen /\ ~open /\ mem["pop"].pending
       IN  /\ React("pop", "trunkOpen",
                    [mem["pop"] EXCEPT !.trunkOpen = open, !.pending = @ /\ ~closes], <<>>)
           /\ IF closes /\ PopGates THEN Ask("pop", {"TrunkInside"}) ELSE UNCHANGED world

PopEvent ==
    /\ ReadsInTurn("pop", PopOrder, "eventNum")
    /\ React("pop", "eventNum",
             [mem["pop"] EXCEPT !.pending = bus["popEnabled"]
                                               /\ (@ \/ (PopGates /\ mem["pop"].trunkOpen))], <<>>)
    /\ IF PopGates /\ ~mem["pop"].trunkOpen THEN Ask("pop", {"TrunkInside"}) ELSE UNCHANGED world

PopDecides(i) ==
    /\ Resumes("pop", i)
    /\ Act("pop", mem["pop"],
           IF world.searches[i].found = <<>> THEN <<>>
           ELSE << <<"feedback", "mislock_trunk">> >> \o TrunkPulse)
    /\ world' = Taken(world, i)

Pop == \/ \E s \in {"status", "requestor", "ignition"} : PopKeeps(s)
       \/ PopTrunk
       \/ PopEvent
       \/ \E i \in Answers("pop") : PopDecides(i)

-----------------------------------------------------------------------------
(* WalkAwayLock; the three kinds of openings are one signal.               *)

WalkHearsOpening ==
    /\ Reads("walk", "open")
    /\ Keeps("walk", "open")

\* zone_is_in_approach: every zone but OutOfRange, as no search observes RfRange.
IsNear(z) == z # "Out"

\* Every armed key has left, and this one has just done so.
AllLeft(m, k) ==
    /\ mem["walk"].near[k] /\ ~m.near[k]
    /\ \E j \in Keys : m.armed[j]
    /\ \A j \in Keys : m.armed[j] => ~m.near[j]

CabinOnly == {"Cabin"}

\* Where a key must not be when the car locks itself.
InteriorLegs == {"Cabin", "TrunkInside"}

WalkHearsKey(k) ==
    /\ Reads("walk", Of("observed", k))
    /\ LET near == IsNear(Val("walk", Of("observed", k)))
           m    == [mem["walk"] EXCEPT !.near[k] = near, !.armed[k] = @ \/ near]
       IN  /\ React("walk", Of("observed", k), m, <<>>)
           /\ IF AllLeft(m, k) /\ ~m.open THEN Ask("walk", InteriorLegs)
                                          ELSE UNCHANGED world

WalkDecides(i) ==
    /\ Resumes("walk", i)
    /\ IF world.searches[i].found # <<>>
       THEN /\ Act("walk", mem["walk"], << <<"feedback", "mislock">> >>)
            /\ world' = Taken(world, i)
       ELSE /\ Act("walk", [mem["walk"] EXCEPT !.armed = [k \in Keys |-> FALSE]],
                   << <<"feedback", "lock">> >>)
            /\ world' = Ordered(Taken(world, i), "WalkAwayLock", "LockAll")

Walk == \/ WalkHearsOpening
        \/ \E k \in Keys : WalkHearsKey(k)
        \/ \E i \in Answers("walk") : WalkDecides(i)

-----------------------------------------------------------------------------
(* KeypadLock: a pad held for Debounce, left or right.                     *)

Pads == {"leftPad", "rightPad"}

PadHears(s) ==
    /\ Reads("pad", s)
    /\ React("pad", s,
             [mem["pad"] EXCEPT !.timer[s] = IF Val("pad", s) THEN Debounce ELSE Off], <<>>)
    /\ UNCHANGED world

\* The pads that are done are remembered while the search is awaited.
PadHeld ==
    /\ "pad" \notin Waiting
    /\ \E s \in Pads : Due("pad", s)
    /\ Act("pad", [mem["pad"] EXCEPT
                !.done = {s \in Pads : Due("pad", s)},
                !.timer = [s \in Pads |-> IF Due("pad", s) THEN Off ELSE mem["pad"].timer[s]]], <<>>)
    /\ Ask("pad", {"Cabin", "AllApproach"})

PadDecides(i) ==
    /\ Resumes("pad", i)
    /\ LET allowed == Outside(world.searches[i].found) IN
        /\ Act("pad", [mem["pad"] EXCEPT !.done = {}],
               << <<"feedback", IF allowed THEN "lock" ELSE "lock_denied">> >>)
        /\ world' = IF allowed THEN Ordered(Taken(world, i), "KeypadLock", "LockAll")
                               ELSE Taken(world, i)

Pad == \/ \E s \in Pads : PadHears(s)
       \/ PadHeld
       \/ \E i \in Answers("pad") : PadDecides(i)

-----------------------------------------------------------------------------
(* ExteriorTrunkButton.                                                    *)

ButtonKeeps(s) ==
    /\ s \in {"status", "valet"}
    /\ Reads("button", s)
    /\ Keeps("button", s)

\* on_press: refused in valet mode, a pulse when unlocked, else a search.
ButtonPress ==
    /\ Reads("button", "button")
    /\ LET m     == mem["button"]
           press == Val("button", "button") /\ ~m.valet
           free  == m.status \in {"UNLOCKED", "DRIVER_UNLOCKED"}
       IN  /\ React("button", "button", m,
                    IF press /\ free THEN TrunkPulse \o << <<"feedback", "trunk_unlock">> >> ELSE <<>>)
           /\ IF press /\ ~free THEN Ask("button", {"Trunk"}) ELSE UNCHANGED world

ButtonDecides(i) ==
    /\ Resumes("button", i)
    /\ Act("button", mem["button"],
           IF world.searches[i].found = <<>> THEN <<>>
           ELSE TrunkPulse \o << <<"feedback", "trunk_unlock">> >>)
    /\ world' = Taken(world, i)

Button == \/ \E s \in {"status", "valet"} : ButtonKeeps(s)
          \/ ButtonPress
          \/ \E i \in Answers("button") : ButtonDecides(i)

-----------------------------------------------------------------------------
(* KeyLostWarning.                                                         *)

PowerOn(v) == v \in {"ON", "START"}

Sealed(m) == ~m.open /\ ~m.trunkOpen

WarningIs(b) == IF b THEN << <<"lostKey", TRUE>>, <<"chime", TRUE>> >>
                     ELSE << <<"chime", FALSE>>, <<"lostKey", FALSE>> >>

\* clear_state, and what an opening edge does.
Cleared(m) == [m EXCEPT !.latched = FALSE, !.timer.warning = IF m.latched THEN Off ELSE @]

ClearedSilently(m) == <<>>

ClearedNews(m) == IF m.latched /\ m.timer.warning # Off THEN WarningIs(FALSE) ELSE <<>>

LostScan == Ask("lost", {"Cabin"})

\* The periodic interval runs only while the power is on, but its next tick is
\* not moved: one that has passed meanwhile is due at once.
LostHearsPower ==
    /\ Has("lost", "ignition")
    /\ LET m  == mem["lost"]
           on == PowerOn(Val("lost", "ignition"))
           n  == [m EXCEPT !.power = on]
       IN  IF m.power /\ ~on
           THEN React("lost", "ignition", Cleared(n), ClearedNews(m)) /\ UNCHANGED world
           ELSE /\ React("lost", "ignition", n, <<>>)
                /\ IF on /\ ~m.power /\ Sealed(n) THEN LostScan ELSE UNCHANGED world

\* handle_seal_edge and handle_door_edge; a closing edge that seals the cabin
\* starts a search.
LostHearsOpening(s) ==
    /\ s \in {"open", "trunkOpen"}
    /\ Has("lost", s)
    /\ LET m == mem["lost"]
           n == [m EXCEPT ![s] = Val("lost", s)]
       IN  IF ~m[s] /\ n[s]
           THEN React("lost", s, Cleared(n), ClearedNews(m)) /\ UNCHANGED world
           ELSE /\ React("lost", s, n, <<>>)
                /\ IF m[s] /\ ~n[s] /\ m.power /\ Sealed(n) THEN LostScan ELSE UNCHANGED world

LostPeriod ==
    /\ mem["lost"].power
    /\ \/ /\ mem["lost"].missed > 0
          /\ Act("lost", [mem["lost"] EXCEPT !.missed = @ - 1], <<>>)
       \/ /\ mem["lost"].missed = 0
          /\ Due("lost", "period")
          /\ Act("lost", [mem["lost"] EXCEPT !.timer.period = Period], <<>>)
    /\ IF Sealed(mem["lost"]) THEN LostScan ELSE UNCHANGED world

\* While the power is off nobody polls the interval: its ticks add up.
LostMisses ==
    /\ Due("lost", "period")
    /\ ~mem["lost"].power
    /\ Act("lost", [mem["lost"] EXCEPT !.missed = Min({@ + 1, MaxMissed}),
                                        !.timer.period = Period], <<>>)
    /\ UNCHANGED world

LostResult(i) ==
    /\ i \in Answers("lost")
    /\ LET m    == mem["lost"]
           gone == world.searches[i].found = <<>>
       IN  Act("lost",
               CASE gone /\ m.power /\ Sealed(m) /\ ~m.latched ->
                        [m EXCEPT !.latched = TRUE, !.timer.warning = WarningTime]
                 [] ~gone -> Cleared(m)
                 [] OTHER -> m,
               CASE gone /\ m.power /\ Sealed(m) /\ ~m.latched -> WarningIs(TRUE)
                 [] ~gone -> ClearedNews(m)
                 [] OTHER -> <<>>)
    /\ world' = Taken(world, i)

LostExpires ==
    /\ Due("lost", "warning")
    /\ Act("lost", [mem["lost"] EXCEPT !.timer.warning = Off], WarningIs(FALSE))
    /\ UNCHANGED world

Lost ==
    /\ Runs("lost")
    /\ \/ LostHearsPower
       \/ \E s \in {"open", "trunkOpen"} : LostHearsOpening(s)
       \/ LostPeriod
       \/ LostMisses
       \/ \E i \in Answers("lost") : LostResult(i)
       \/ LostExpires

-----------------------------------------------------------------------------

\* What each task follows, and its variables when it starts.
SmartTask(b) ==
    [follows |-> {"status", "requestor", "ignition", "eventNum"},
     mem |-> [status |-> b["status"], requestor |-> b["requestor"], ignition |-> b["ignition"],
              timer |-> NoTimer]]

PopTask(b) ==
    [follows |-> {"status", "requestor", "ignition", "trunkOpen", "eventNum"},
     mem |-> [status |-> b["status"], requestor |-> b["requestor"], ignition |-> b["ignition"],
              trunkOpen |-> b["trunkOpen"], pending |-> FALSE, timer |-> NoTimer]]

WalkTask(b) ==
    [follows |-> {"open"} \cup OfAll("observed", Keys),
     mem |-> [open |-> b["open"], near |-> [k \in Keys |-> FALSE],
              armed |-> [k \in Keys |-> FALSE], timer |-> NoTimer]]

PadTask ==
    [follows |-> Pads,
     mem |-> [done |-> {}, timer |-> Timers(Pads)]]

ButtonTask(b) ==
    [follows |-> {"button", "status", "valet"},
     mem |-> [status |-> b["status"], valet |-> b["valet"], timer |-> NoTimer]]

LostTask(b) ==
    [follows |-> {"ignition", "trunkOpen", "open"},
     mem |-> [power |-> PowerOn(b["ignition"]), open |-> b["open"],
              trunkOpen |-> b["trunkOpen"], latched |-> FALSE, missed |-> 0,
              timer |-> [warning |-> Off, period |-> Period]]]

KeyFeaturesStep == Smart \/ Pop \/ Walk \/ Pad \/ Button \/ Lost
=============================================================================
