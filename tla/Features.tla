------------------------------ MODULE Features ------------------------------
(***************************************************************************)
(* Any of the features of Entry and Comfort around one bus.  A behaviour   *)
(* runs the tasks of one team.                                             *)
(***************************************************************************)
EXTENDS Entry, Comfort

\* The signals of a key, a door, a side or a panel, and the others.
Stems ==
    {"placed", "observed", "resp", "rssi", "button", "rf", "handle", "lock", "unlock", "tap",
     "signal", "lamp", "defect", "foldCmd", "folded", "detent", "at", "move", "tilt", "yaw",
     "aimCmd"}

Bearers == Keys \cup Doors \cup Taps \cup Sides \cup Sources \cup Panels

PlainSignals ==
    DOMAIN EntrySignals \cup DOMAIN ComfortSignals
    \cup {"puddle", "dome", "lowBeam", "highBeam", "parking", "plate", "drl", "horn", "motor"}

\* No two signals have one name.
ASSUME NamesAssumption ==
    \A s \in Stems, k \in Bearers :
        /\ Of(s, k) \notin PlainSignals
        /\ \A r \in Stems, j \in Bearers : Of(s, k) = Of(r, j) => s = r /\ k = j

\* What only the tasks publish, their arbiters show and the fobs send, of the window, the
\* roof, the lost-key warning and the radio.
TaskSignals ==
    {"motor", "lostKey", "chime"}
    \cup OfAll("at", Panels) \cup OfAll("move", Panels) \cup OfAll("rf", Fobs)

\* No value is none of these.
ASSUME NoneAssumption == None \notin Doors \cup {"UP", "DOWN", "STOPPED", "OPEN", "CLOSE", "STOP"}

\* Around a team happens what people, sensors and other features do.
ASSUME TeamsAssumption ==
    \A name \in DOMAIN Teams :
        LET team == Teams[name] IN
        /\ team.placed \in [Keys -> STRING]
        /\ DOMAIN team.bus \cap TaskSignals = {}
        /\ \A o \in team.offers : o[1] \notin TaskSignals
        /\ \A m \in team.moves : m[1] \in Keys
        /\ \A r \in team.radio : r[2] \in Nat
        /\ \A o \in team.orders : o[1] \notin {"WalkAwayLock", "PassiveEntry"}

\* What the plants of the rear door publish of its lock, and the arbiter for it.
LockSignals == {"isLocked", "double", "soldier", "command", "status"}

\* Where both plants of the rear door run, nobody else publishes these, the car does not
\* restart, and the status says at first what the door and its knob show.
ASSUME DoorTeamsAssumption ==
    \A name \in DOMAIN Teams :
        LET team == Teams[name]
            b    == Over(team.bus, Over(EntryBus, ComfortBus))
        IN
        {"door", "locks"} \subseteq team.tasks =>
            /\ ~team.reboots
            /\ \A o \in team.offers : o[1] \notin LockSignals
            /\ {b["isLocked"], b["double"], b["soldier"]} \subseteq BOOLEAN
            /\ b["soldier"] = ~b["isLocked"]
            /\ b["status"] = "UNLOCKED" => ~b["isLocked"]
            /\ b["status"] \in Locked => b["isLocked"]
            /\ b["status"] = "DOUBLE_LOCKED" => b["double"]
            /\ b["double"] => b["status"] \in Locked

Task(t, b, w) == IF t \in EntryTasks THEN EntryTask(t, b, w.placed) ELSE ComfortTask(t, b, w.saved)

World(name) ==
    Over(EntryWorld(name), [claims |-> [s \in Claimable |-> <<>>], saved |-> FactoryState])

Init ==
    \E name \in DOMAIN Teams :
        LET b == Over(Teams[name].bus, Over(EntryBus, ComfortBus)) IN
        /\ world = World(name)
        /\ bus = b
        /\ mem = [t \in Teams[name].tasks |-> Task(t, b, world).mem]
        /\ unread = [t \in Teams[name].tasks |-> [s \in Task(t, b, world).follows |-> <<>>]]

Next ==
    \/ EntryTasksStep
    \/ ComfortTasksStep
    \/ EntryHappens
    \/ Team.reboots /\ Reboots
    \/ TimePasses

Spec == Init /\ [][Next]_vars
=============================================================================
