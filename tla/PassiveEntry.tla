---------------------------- MODULE PassiveEntry ----------------------------
(***************************************************************************)
(* features/passive_entry.rs ("passive"): a pulled handle searches at that *)
(* door, challenges the keys found there and unlocks for the first that    *)
(* answers.  While it searches and waits for answers it reads nothing      *)
(* else.                                                                   *)
(*                                                                         *)
(* mem.passive has zones (device_zones), status (last_lock_status), door   *)
(* (the handle being served), candidates and nonce of the challenge, and   *)
(* pending (pending_stage_two).                                            *)
(***************************************************************************)
EXTENDS Peps

CONSTANTS
    AnswerTime, \* CHALLENGE_TIMEOUT_MS
    StageWindow \* TWO_STAGE_WINDOW_SECS

ASSUME PassiveEntryAssumption == {AnswerTime, StageWindow} \subseteq Nat \ {0}

\* DOORS: the driver sits on the left.
Doors == {"driver", "passenger", "rear"}
ZoneAt(d) == IF d = "passenger" THEN "Right" ELSE "Left"

\* is_rear_door, and is_driver_door of a car that is driven on the left.
IsRear(d) == d = "rear"

IsDriver(d) == d = "driver"

\* The streams in the order select_all looks at them.
PassiveOrder == <<Of("handle", "driver"), Of("handle", "passenger"), Of("handle", "rear")>>
                \o SetToSeq({Of("observed", k) : k \in Paired}) \o <<"status">>

PassiveReads(s) == Runs("passive") /\ ReadsInTurn("passive", PassiveOrder, s)

\* auth_needed_for_door
AuthNeeded(d, status) ==
    CASE status = "UNLOCKED"        -> FALSE
      [] status = "DRIVER_UNLOCKED" -> ~IsDriver(d)
      [] OTHER                      -> TRUE

PassiveHearsHandle(d) ==
    /\ PassiveReads(Of("handle", d))
    /\ LET serves == /\ Val("passive", Of("handle", d))
                     /\ IsRear(d) => bus["rearHandles"]
                     /\ AuthNeeded(d, mem["passive"].status)
       IN  /\ React("passive", Of("handle", d),
                    [mem["passive"] EXCEPT !.door = IF serves THEN d ELSE None], <<>>)
           /\ IF serves THEN Ask("passive", {ZoneAt(d)}) ELSE UNCHANGED world

PassiveHearsZone(k) ==
    /\ PassiveReads(Of("observed", k))
    /\ React("passive", Of("observed", k),
             [mem["passive"] EXCEPT !.zones[k] = Val("passive", Of("observed", k))], <<>>)
    /\ UNCHANGED world

PassiveHearsStatus ==
    /\ PassiveReads("status")
    /\ Keeps("passive", "status")

RefreshedByFinds(zones, found, z) ==
    [k \in Paired |-> IF k \in DOMAIN found THEN found[k] ELSE zones[k]]

\* refresh_zone_cache_for_door: what was found, and what was cached at the door
\* and not found.
Refreshed(zones, found, z) ==
    [k \in Paired |-> CASE k \in DOMAIN found -> found[k]
                        [] k \notin DOMAIN found /\ zones[k] = z -> "Out"
                        [] OTHER -> zones[k]]

CandidatesAt(zones, z) == {k \in Paired : zones[k] = z}

\* One nonce goes to the fobs and the phones.
Challenge(nonce) == << <<"lf", nonce>>, <<"ble", nonce>> >>

\* The search is answered: the candidates in the door's zone are challenged.
PassiveChallenges(i) ==
    /\ i \in Answers("passive")
    /\ LET m     == mem["passive"]
           zones == Refreshed(m.zones, world.searches[i].found, ZoneAt(m.door))
           cand  == CandidatesAt(zones, ZoneAt(m.door))
           nonce == m.nonce + 1
       IN  IF cand = {}
           THEN Act("passive", [m EXCEPT !.zones = zones, !.door = None], <<>>)
           ELSE Act("passive", [m EXCEPT !.zones = zones, !.candidates = cand, !.nonce = nonce,
                                         !.timer.answer = AnswerTime],
                    Challenge(nonce))
    /\ world' = Taken(world, i)

\* dispatch_unlock, for the first candidate whose answer fits the nonce.
PassiveUnlocks(k) ==
    /\ Runs("passive")
    /\ LET m   == mem["passive"]
           all == \/ ~bus["twoStage"]
                  \/ ~IsDriver(m.door)
                  \/ m.pending = k /\ m.timer.stage > 0
       IN  /\ k \in m.candidates
           /\ bus[Of("resp", k)] = m.nonce
           /\ Act("passive",
                  [m EXCEPT !.door = None, !.candidates = {}, !.timer.answer = Off,
                            !.pending = IF all THEN None ELSE k,
                            !.timer.stage = IF all THEN Off ELSE StageWindow],
                  << <<"feedback", "unlock">> >>)
           /\ Order("PassiveEntry", IF all THEN "UnlockAll" ELSE "UnlockDriver")

\* await_first_verified_response gives up.
PassiveGivesUp ==
    /\ Due("passive", "answer")
    /\ Act("passive", [mem["passive"] EXCEPT !.door = None, !.candidates = {}, !.timer.answer = Off],
           <<>>)
    /\ UNCHANGED world

\* The window of pending_stage_two passes unnoticed.
PassiveForgets ==
    /\ Due("passive", "stage")
    /\ Act("passive", [mem["passive"] EXCEPT !.pending = None, !.timer.stage = Off], <<>>)
    /\ UNCHANGED world

\* What the task follows, and its variables when it starts.
PassiveTask(b) ==
    [follows |-> {"status"} \cup OfAll("handle", Doors) \cup OfAll("observed", Paired),
     mem |-> [zones |-> [k \in Paired |-> "Out"], status |-> b["status"], door |-> None,
              candidates |-> {}, nonce |-> 0, pending |-> None,
              timer |-> Timers({"answer", "stage"})]]

PassiveStep == \/ \E d \in Doors : PassiveHearsHandle(d)
               \/ \E k \in Paired : PassiveHearsZone(k) \/ PassiveUnlocks(k)
               \/ PassiveHearsStatus
               \/ \E i \in Answers("passive") : PassiveChallenges(i)
               \/ PassiveGivesUp
               \/ PassiveForgets
=============================================================================
