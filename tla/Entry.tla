-------------------------------- MODULE Entry --------------------------------
(***************************************************************************)
(* The lock features together: the tasks of KeyFeatures, PassiveEntry, Rke *)
(* and CabinLocks with the PEPS plant, the trunk, the arbiter and the key  *)
(* search.                                                                 *)
(*                                                                         *)
(* A behaviour runs one team: some of the tasks, what the bus holds at     *)
(* first, and what may happen around them, budget times.                   *)
(***************************************************************************)
EXTENDS KeyFeatures, PassiveEntry, Rke, CabinLocks

CONSTANT Teams \* by name

EntryTasks == {"smart", "pop", "walk", "pad", "button", "lost", "peps", "passive",
               "rke", "slam", "trim", "nfc", "release", "auth", "trunk"}

\* Task t as it starts when it has read what b holds.
EntryTask(t, b, placed) ==
    CASE t = "smart"   -> SmartTask(b)
      [] t = "pop"     -> PopTask(b)
      [] t = "walk"    -> WalkTask(b)
      [] t = "pad"     -> PadTask
      [] t = "button"  -> ButtonTask(b)
      [] t = "lost"    -> LostTask(b)
      [] t = "peps"    -> PepsTask(placed)
      [] t = "passive" -> PassiveTask(b)
      [] t = "rke"     -> RkeTask
      [] t = "slam"    -> SlamTask(b)
      [] t = "trim"    -> TrimTask(b)
      [] t = "nfc"     -> NfcTask(b)
      [] t = "release" -> ReleaseTask
      [] t = "auth"    -> AuthTask(b)
      [] t = "trunk"   -> TrunkTask(b)

\* What the signals hold before anything has happened.
EntrySignals ==
    [command |-> "", status |-> "UNLOCKED", requestor |-> "", eventNum |-> None, ignition |-> "OFF",
     open |-> FALSE, trunkOpen |-> FALSE, openCmd |-> FALSE, closeCmd |-> FALSE,
     valet |-> FALSE, feedback |-> "", leftPad |-> FALSE, rightPad |-> FALSE,
     button |-> FALSE, trunkSwitch |-> FALSE, lostKey |-> FALSE, chime |-> FALSE,
     bypass |-> FALSE, startStop |-> FALSE, authChannel |-> "Unknown", lf |-> 0, ble |-> 0,
     panicEventNum |-> 0, popEnabled |-> TRUE, rearHandles |-> FALSE, twoStage |-> TRUE,
     protect |-> TRUE, doubleLock |-> TRUE, panicMode |-> "Single"]

EntryBus ==
    Over(EntrySignals,
    Over([s \in OfAll("placed", Keys) \cup OfAll("observed", Keys) |-> "Out"],
    Over([s \in OfAll("handle", Doors) \cup OfAll("lock", Sides) \cup OfAll("unlock", Sides) |-> FALSE],
    Over([s \in OfAll("resp", Keys) |-> 0],
    Over([s \in OfAll("rssi", Keys) \cup OfAll("rf", Fobs) |-> None],
    Over([s \in OfAll("button", Fobs) |-> "NONE"],
         [s \in OfAll("tap", Taps) |-> "NotPresent"]))))))

EntryWorld(name) ==
    [team |-> name, budget |-> Teams[name].budget,
     orders |-> <<>>, stage |-> "taken",
     searches |-> <<>>, snapshot |-> None, recent |-> None,
     placed |-> Teams[name].placed, observed |-> [k \in Keys |-> "Out"],
     known |-> [t \in Teams[name].tasks \cap Askers |-> [k \in Keys |-> {}]],
     sent |-> [f \in Fobs |-> 0], heard |-> [f \in Fobs |-> <<>>]]

EntryTasksStep ==
    \/ KeyFeaturesStep
    \/ PepsStep
    \/ PassiveStep
    \/ RkeStep
    \/ CabinLocksStep
    \/ \E s \in {"openCmd", "closeCmd"} : MoveTrunk(s)
    \/ PublishOrder
    \/ BeginSearch
    \/ EndSearch
    \/ Coalesce

Team == Teams[world.team]

\* What happens around the team.
EntryHappens ==
    \/ \E o \in Team.offers : Happens(o[1], o[2])
    \/ \E m \in Team.moves : MoveKey(m[1], m[2])
    \/ \E o \in Team.orders : OrderElsewhere(o[1], o[2])
    \/ Team.polls /\ Poll
    \/ \E f \in Fobs, r \in Team.radio : Radio(f, r[1], r[2])
    \/ \E f \in Fobs : Team.radio # {} /\ RadioRepeats(f)

-----------------------------------------------------------------------------
(* Properties.                                                             *)

Orders(who) == Len(world'.orders) > Len(world.orders) /\ Last(world'.orders).by = who

\* WalkAwayLock does not lock in a key: when it locks, no paired key has stayed
\* in the cabin or in the trunk since it asked for the search.
NoKeyLockedIn ==
    [][Orders("WalkAwayLock") =>
        \A k \in Paired, z \in {"Cabin", "TrunkInside"} : world.known["walk"][k] # {z}]_vars

\* A handle opens the car only for a paired key that was at that door at some moment
\* since it was pulled or, where the pull shares the answer of an equal search that had
\* just ended (passive_entry.rs:603), when that search looked; not for one it remembers
\* there, nor for one that answers from elsewhere.
OpensForKeySearched ==
    [][Orders("PassiveEntry") =>
        \E k \in Paired : ZoneAt(mem["passive"].door) \in world.known["passive"][k]]_vars

\* No fob is locked out by its rolling code: of as many codes in a row as a resync
\* takes, the first newer than the last accepted and the last inside the resync
\* window, one is accepted.
NoFobIsLockedOut ==
    Runs("rke") => \A f \in Fobs :
        LET heard == world.heard[f]
            n     == Len(heard)
            first == n - ResyncRequired + 1
            last  == mem["rke"].code[f].last
        IN  ~ /\ first >= 1
              /\ \A i \in first..(n - 1) : heard[i + 1] = heard[i] + 1
              /\ heard[first] > last
              /\ heard[n] - last <= WindowResync

\* A lost-key warning that shows is being timed, so it ends.
LostWarningIsTimed ==
    Runs("lost") /\ bus["lostKey"] => mem["lost"].timer.warning # Off /\ bus["chime"]

\* Nothing is left to do until something happens.
AtRest ==
    /\ world.orders = <<>>
    /\ world.searches = <<>>
    /\ ~TimerRuns
    /\ \A t \in DOMAIN mem :
        CaughtUp(t) /\ \A n \in DOMAIN mem[t].timer : mem[t].timer[n] = Off

\* With slam-lock protection a car whose open door is not moved comes to rest
\* unlocked, whichever outside source or trim button has locked it, how often and
\* how close together.
OpenCarRestsUnlocked ==
    /\ Runs("slam")
    /\ AtRest
    /\ bus["protect"]
    /\ bus["open"] /\ <<"open", FALSE>> \notin Team.offers
    /\ bus["requestor"] \in {"KeyfobRke", "PhoneApp", "DoorTrimButton"}
    => bus["status"] \notin Locked
=============================================================================
