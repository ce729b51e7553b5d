----------------------------- MODULE DoorHandle -----------------------------
(***************************************************************************)
(* The handle plant of one rear door ("door"), its lock in the door-lock   *)
(* plant ("locks"), PowerChildLock ("childPower") and the hood ("hood").   *)
(* Both plants of the door follow signals that they publish too, and so    *)
(* read their own changes and each other's.                                *)
(***************************************************************************)
EXTENDS Claims

CONSTANT PullWindow \* DOUBLE_PULL_WINDOW, in ticks

ASSUME DoorHandleAssumption == PullWindow \in Nat \ {0}

DoorGoesOn(s, m, news) == React("door", s, m, news) /\ UNCHANGED world

Opened(m) == [m EXCEPT !.latched = FALSE, !.open = TRUE]

OpenNews == << <<"latch", FALSE>>, <<"doorOpen", TRUE>> >>

\* A held handle opens the door when the lock lets go, child lock or not.
DoorHearsLock ==
    /\ Reads("door", "isLocked")
    /\ LET m == [mem["door"] EXCEPT !.locked = Val("door", "isLocked")]
           frees == mem["door"].locked /\ ~m.locked
       IN  IF frees /\ ~m.double /\ ~m.open /\ (m.outside \/ m.inside)
           THEN DoorGoesOn("isLocked", Opened(m), OpenNews)
           ELSE DoorGoesOn("isLocked", m, <<>>)

DoorKeeps(s) ==
    /\ s \in {"double", "child"}
    /\ Reads("door", s)
    /\ Keeps("door", s)

DoorSeesOpen ==
    /\ Reads("door", "doorOpen")
    /\ LET v == Val("door", "doorOpen")
           m == [mem["door"] EXCEPT !.open = v]
       IN  IF mem["door"].open /\ ~v
           THEN DoorGoesOn("doorOpen", [m EXCEPT !.latched = TRUE], << <<"latch", TRUE>> >>)
           ELSE DoorGoesOn("doorOpen", m, <<>>)

DoorHearsInside ==
    /\ Reads("door", "insideHandle")
    /\ LET m == [mem["door"] EXCEPT !.inside = Val("door", "insideHandle")]
           pull(n, news) == DoorGoesOn("insideHandle", n, news)
       IN  CASE m.inside /\ (m.child \/ m.double) -> pull(m, <<>>)
             [] m.inside /\ ~m.child /\ ~m.double /\ m.locked ->
                    pull([m EXCEPT !.latched = FALSE],
                         IF m.latched THEN << <<"latch", FALSE>> >> ELSE <<>>)
             [] m.inside /\ ~m.child /\ ~m.double /\ ~m.locked -> pull(Opened(m), OpenNews)
             [] ~m.inside /\ m.locked /\ ~m.double /\ ~m.open ->
                    pull([m EXCEPT !.latched = TRUE], << <<"latch", TRUE>> >>)
             [] OTHER -> pull(m, <<>>)

DoorHearsOutside ==
    /\ Reads("door", "outsideHandle")
    /\ LET m == [mem["door"] EXCEPT !.outside = Val("door", "outsideHandle")] IN
        IF m.outside /\ ~m.locked
        THEN DoorGoesOn("outsideHandle", Opened(m), OpenNews)
        ELSE DoorGoesOn("outsideHandle", m, <<>>)

DoorHearsSoldierQuietly ==
    /\ Reads("door", "soldier")
    /\ DoorGoesOn("soldier", IF mem["door"].double THEN mem["door"]
                             ELSE [mem["door"] EXCEPT !.locked = ~Val("door", "soldier")], <<>>)

DoorHearsSoldier ==
    /\ Reads("door", "soldier")
    /\ LET locked == ~Val("door", "soldier") IN
        IF mem["door"].double
        THEN DoorGoesOn("soldier", mem["door"], <<>>)
        ELSE DoorGoesOn("soldier", [mem["door"] EXCEPT !.locked = locked], << <<"isLocked", locked>> >>)

\* It publishes the lock as it knows it.  excused is history: that was not as the bus
\* had it, and the knob, which corrects it after a command, would not be heard.
DoorHearsClose ==
    /\ Reads("door", "closeDoor")
    /\ LET m == mem["door"]
           stale == /\ bus["isLocked"] # m.locked
                    /\ m.double \/ ~Has("door", "soldier")
       IN
        IF Val("door", "closeDoor") /\ m.open
        THEN DoorGoesOn("closeDoor",
                        [m EXCEPT !.open = FALSE, !.latched = TRUE, !.excused = @ \/ stale],
                        << <<"doorOpen", FALSE>>, <<"latch", TRUE>>, <<"isLocked", m.locked>> >>)
        ELSE DoorGoesOn("closeDoor", m, <<>>)

-----------------------------------------------------------------------------
(* The lock of the door, door_lock.rs.                                     *)

\* apply_lock_cmd: the soldier knob moves with the lock, and unlocking ends the
\* superlock.
LockNews(m, locked) ==
    IF m.locked = locked THEN <<>>
    ELSE (IF locked THEN <<>> ELSE << <<"double", FALSE>> >>)
         \o << <<"isLocked", locked>>, <<"soldier", ~locked>> >>

LockedTo(m, locked) ==
    IF m.locked = locked THEN m ELSE [m EXCEPT !.locked = locked, !.double = locked /\ @]

\* apply_double_lock_cmd: it locks, but leaves the knob.
DoubleNews(m, double) ==
    IF m.double = double THEN <<>>
    ELSE (IF double THEN << <<"isLocked", TRUE>> >> ELSE <<>>) \o << <<"double", double>> >>

DoubledTo(m, double) ==
    IF m.double = double THEN m ELSE [m EXCEPT !.double = double, !.locked = double \/ @]

\* run.  Driver-only unlock ends the superlock of a rear door.  excused is history: a
\* command came before both plants had read what was published of the door before it, or
\* superlocked a door that was not locked.
LocksHearCommand ==
    /\ Reads("locks", "command")
    /\ LET c == Val("locks", "command")
           m == [mem["locks"] EXCEPT !.excused =
                    \/ @
                    \/ \E s \in {"isLocked", "double"} : Has("locks", s) \/ Has("door", s)
                    \/ Has("door", "soldier")
                    \/ c = "DoubleLockAll" /\ ~mem["locks"].locked]
           goes(n, news) == React("locks", "command", n, news)
       IN  CASE c = "UnlockAll"     -> goes(LockedTo(m, FALSE), LockNews(m, FALSE))
             [] c = "LockAll"       -> goes(LockedTo(m, TRUE), LockNews(m, TRUE))
             [] c = "DoubleLockAll" -> goes(DoubledTo(m, TRUE), DoubleNews(m, TRUE))
             [] OTHER               -> goes(DoubledTo(m, FALSE), DoubleNews(m, FALSE))
    /\ UNCHANGED world

\* The mirror subscriptions.
LocksSee(s) ==
    /\ Reads("locks", s)
    /\ React("locks", s, IF s = "isLocked" THEN [mem["locks"] EXCEPT !.locked = Val("locks", s)]
                         ELSE [mem["locks"] EXCEPT !.double = Val("locks", s)], <<>>)
    /\ UNCHANGED world

LocksTask(b) ==
    [follows |-> {"command", "isLocked", "double"},
     mem |-> [locked |-> b["isLocked"], double |-> b["double"], excused |-> FALSE, timer |-> NoTimer]]

-----------------------------------------------------------------------------
(* The child lock.                                                         *)

\* PowerChildLock: each press toggles the child locks of the rear doors.
ChildPowerHears ==
    /\ Reads("childPower", "childPress")
    /\ LET v == Val("childPower", "childPress")
           m == [mem["childPower"] EXCEPT !.pressed = v]
           toggles == v /\ ~mem["childPower"].pressed
       IN  React("childPower", "childPress", IF toggles THEN [m EXCEPT !.latched = ~@] ELSE m,
                 IF toggles THEN << <<"child", ~m.latched>> >> ELSE <<>>)
    /\ UNCHANGED world

-----------------------------------------------------------------------------
(* The hood.                                                               *)

HoodMoves(s, latch) ==
    /\ React("hood", s, [mem["hood"] EXCEPT !.latch = latch, !.timer.pull = Off],
             << <<"hoodLatch", latch>> >>)
    /\ world' = [world EXCEPT !.saved.hood = latch]

\* apply: two pulls free the hood, and only an open hood can be closed.
HoodHears(s) ==
    /\ Reads("hood", s)
    /\ LET m == mem["hood"]
           on == Val("hood", s)
       IN  CASE on /\ s = "hoodPull" /\ m.latch = "LATCHED" /\ m.timer.pull # Off ->
                    HoodMoves(s, "HALF_LATCHED")
             [] on /\ s = "hoodPull" /\ m.latch = "LATCHED" /\ m.timer.pull = Off ->
                    React("hood", s, [m EXCEPT !.timer.pull = PullWindow], <<>>) /\ UNCHANGED world
             [] on /\ s = "hoodOpen" /\ m.latch = "HALF_LATCHED" -> HoodMoves(s, "OPEN")
             [] on /\ s = "hoodClose" /\ m.latch = "OPEN" -> HoodMoves(s, "LATCHED")
             [] OTHER -> Passes("hood", s)

HoodForgetsPull ==
    /\ Due("hood", "pull")
    /\ Act("hood", [mem["hood"] EXCEPT !.timer.pull = Off], <<>>)
    /\ UNCHANGED world

\* What each task follows, and its variables when it starts.
DoorTask(b) ==
    [follows |-> {"isLocked", "double", "child", "doorOpen", "insideHandle", "outsideHandle",
                  "soldier", "closeDoor"},
     mem |-> [locked |-> b["isLocked"], double |-> b["double"], child |-> b["child"],
              latched |-> TRUE, open |-> FALSE, outside |-> FALSE, inside |-> FALSE,
              excused |-> FALSE, timer |-> NoTimer]]

ChildPowerTask(b) ==
    [follows |-> {"childPress"},
     mem |-> [latched |-> b["child"], pressed |-> FALSE, timer |-> NoTimer]]

HoodTask(saved) ==
    [follows |-> {"hoodPull", "hoodOpen", "hoodClose"},
     mem |-> [latch |-> saved.hood, timer |-> Timers({"pull"})]]

DoorsStep ==
    \/ DoorHearsLock
    \/ \E s \in {"double", "child"} : DoorKeeps(s)
    \/ DoorSeesOpen
    \/ DoorHearsInside
    \/ DoorHearsOutside
    \/ DoorHearsSoldier
    \/ DoorHearsClose
    \/ LocksHearCommand
    \/ \E s \in {"isLocked", "double"} : LocksSee(s)
    \/ ChildPowerHears
    \/ \E s \in {"hoodPull", "hoodOpen", "hoodClose"} : HoodHears(s)
    \/ HoodForgetsPull
=============================================================================
