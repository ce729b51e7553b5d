------------------------------ MODULE LockWorld ------------------------------
(***************************************************************************)
(* What the lock features of features/*.rs act on and are told by:         *)
(*   - the door-lock arbiter (arbiter.rs), as its subscribers see it: a    *)
(*     request becomes a LockStatus, a LastRequestor and an EventNum, one  *)
(*     publish after the other (what it drops for other reasons is in       *)
(*     DoorLockArbiter);                                                   *)
(*   - the key search (key_search_arbiter.rs), as its requesters see it:   *)
(*     the answer names the keys that were in the covered zones at one     *)
(*     moment since the request, or since that of a search whose answer it *)
(*     shares (how it is made is in KeySearch);                            *)
(*   - the trunk (plant_models/trunk.rs) and who walks where with a key.   *)
(***************************************************************************)
EXTENDS Streams, FiniteSetsExt

CONSTANTS
    Fobs,   \* the key fobs
    Phones, \* the phones
    Paired, \* those of them that are paired
    None,   \* no value
    Patience \* a search is answered within so many ticks

Keys == Fobs \cup Phones

ASSUME LockWorldAssumption ==
    /\ IsFiniteSet(Keys)
    /\ Paired \subseteq Keys
    /\ Patience \in Nat

Sides == {"left", "right"}

Locked == {"LOCKED", "DOUBLE_LOCKED"}

-----------------------------------------------------------------------------
(* The door-lock arbiter.                                                  *)

\* lock_status_for
StatusFor(c) ==
    CASE c = "UnlockAll"     -> "UNLOCKED"
      [] c = "UnlockDriver"  -> "DRIVER_UNLOCKED"
      [] c = "DoubleLockAll" -> "DOUBLE_LOCKED"
      [] OTHER               -> "LOCKED"

\* door_lock_allow_list
Requestors ==
    {"KeyfobPeps", "AutoLock", "DoorTrimButton", "KeyfobRke", "PhoneApp", "PhoneBle", "NfcCard",
     "NfcPhone", "AutoRelock", "CrashUnlock", "WalkAwayLock", "KeypadLock",
     "DoubleLockRelease", "PassiveEntry", "SlamLock", "SmartUnlock"}

\* What another one asks for is rejected.
Ordered(w, who, c) ==
    IF who \in Requestors THEN [w EXCEPT !.orders = Append(@, [by |-> who, command |-> c])] ELSE w

\* Task t asks the arbiter for c.
Order(who, c) == world' = Ordered(world, who, c)

\* The four publishes of dispatch_lock_command; a subscriber may run between them, but
\* none follows the first two.  The plant acknowledges a command when it has carried
\* it out, and then the next one is dispatched.
PublishOrder ==
    /\ world.orders # <<>>
    /\ LET o == Head(world.orders) IN
        \/ /\ world.stage = "taken"
           /\ ~Has("locks", "command")
           /\ Publish(<< <<"command", o.command>>, <<"status", StatusFor(o.command)>> >>)
           /\ world' = [world EXCEPT !.stage = "status"]
        \/ /\ world.stage = "status"
           /\ Publish(<< <<"requestor", o.by>> >>)
           /\ world' = [world EXCEPT !.stage = "requestor"]
        \/ /\ world.stage = "requestor"
           /\ Publish(<< <<"eventNum", o>> >>)
           /\ world' = [world EXCEPT !.stage = "taken", !.orders = Tail(@)]
    /\ UNCHANGED mem

-----------------------------------------------------------------------------
(* Key searches.                                                           *)

\* coverage_zones; a set of antennas that covers one zone has its name: the
\* handle's "Left" or "Right", the trunk lid's "Trunk", "Cabin" and "TrunkInside".
CoverageOf(a) == IF a = "AllApproach" THEN {"Approach", "Left", "Right", "Trunk"} ELSE {a}

Coverage(legs) == UNION {CoverageOf(a) : a \in legs}

\* publish_last_observed: keys found are published where they were, keys last seen
\* in a covered zone and not found as gone.
ObservedAfter(found, legs) ==
    [k \in Keys |-> CASE k \in DOMAIN found                      -> found[k]
                      [] k \notin DOMAIN found
                         /\ world.observed[k] \in Coverage(legs) -> "Out"
                      [] OTHER                                    -> world.observed[k]]

PublishObserved(after) ==
    Publish(SetToSeq({<<Of("observed", k), after[k]>> :
                        k \in {j \in Keys : after[j] # world.observed[j]}}))

\* The tasks that ask for searches.
Askers == {"smart", "pop", "walk", "pad", "button", "lost", "passive", "welcome"}

\* submit: the search t awaits, or has a task of its own await.  known is history: per
\* task where each key has been since it asked, and where it was for the search whose
\* answer the task shares; the lost-key warning may ask again before it is answered, so
\* what is known for its first search is kept.
Asked(w, t, legs) ==
    [w EXCEPT !.searches = Append(@, [by |-> t, legs |-> legs, found |-> None, age |-> 0]),
              !.known[t] = [k \in Keys |->
                    {w.placed[k]} \cup (IF t = "lost" THEN @[k] ELSE {})]]

Ask(t, legs) == world' = Asked(world, t, legs)

Unanswered == {i \in DOMAIN world.searches : world.searches[i].found = None}

\* The searches are served in turn.
NextSearch == {i \in Unanswered : \A j \in Unanswered : i <= j}

\* handle_request and run_scan: the zones are copied, and the answer given when the
\* antennas have fired.
BeginSearch ==
    /\ Unanswered # {}
    /\ world.snapshot = None
    /\ world' = [world EXCEPT !.snapshot = world.placed]
    /\ UNCHANGED <<bus, unread, mem>>

EndSearch ==
    /\ world.snapshot # None
    /\ \E i \in NextSearch :
       LET s     == world.searches[i]
           seen  == {k \in Paired : world.snapshot[k] \in Coverage(s.legs)}
           found == [k \in seen |-> world.snapshot[k]]
           after == ObservedAfter(found, s.legs)
       IN  /\ world' = [world EXCEPT !.searches[i].found = found, !.observed = after,
                                     !.snapshot = None,
                                     !.recent = [legs |-> s.legs, found |-> found,
                                                 at |-> world.snapshot]]
           /\ PublishObserved(after)
    /\ UNCHANGED mem

\* PassiveEntry, for a handle pull, and Welcome allow coalescing: they share the answer
\* of an equal search that has just ended, whose zones were copied before they asked.
Coalesce ==
    /\ Unanswered # {}
    /\ world.snapshot = None
    /\ world.recent # None
    /\ \E i \in NextSearch :
        LET t == world.searches[i].by IN
        /\ t \in {"passive", "welcome"}
        /\ world.searches[i].legs = world.recent.legs
        /\ world' = [world EXCEPT
                !.searches[i].found = world.recent.found,
                !.known[t] = [k \in Keys |-> @[k] \cup {world.recent.at[k]}]]
    /\ UNCHANGED <<bus, unread, mem>>

\* Another requester's search in the approach zones (Welcome's, mostly).
Poll ==
    /\ world.budget > 0
    /\ LET legs  == {"AllApproach"}
           seen  == {k \in Keys : world.placed[k] \in Coverage(legs)}
           after == ObservedAfter([k \in seen |-> world.placed[k]], legs)
       IN
        /\ after # world.observed
        /\ world' = [world EXCEPT !.observed = after, !.budget = @ - 1]
        /\ PublishObserved(after)
    /\ UNCHANGED mem

\* The answer with number i is taken from the channel.
Taken(w, i) == [w EXCEPT !.searches = RemoveAt(@, i)]

Answers(t) == {i \in DOMAIN world.searches : world.searches[i].by = t /\ world.searches[i].found # None}

\* The tasks whose loop awaits an answer, of the search or of a key; KeyLostWarning
\* has a task of its own await each search.
Waiting ==
    ({world.searches[i].by : i \in DOMAIN world.searches} \ {"lost"})
    \cup {t \in DOMAIN mem \cap {"passive"} : mem[t].door # None}

\* Task t turns to stream s.
Reads(t, s) == Has(t, s) /\ t \notin Waiting

\* A biased select turns to s when the streams before it in order are empty.
ReadsInTurn(t, order, s) ==
    /\ Reads(t, s)
    /\ \E i \in DOMAIN order :
        /\ order[i] = s
        /\ \A j \in 1..(i - 1) : unread[t][order[j]] = <<>>

\* The searches grow older.
Aged(searches) == [i \in DOMAIN searches |-> [searches[i] EXCEPT !.age = @ + 1]]

TimePasses ==
    /\ \A i \in DOMAIN world.searches :
        i \in Unanswered /\ world.searches[i].age < Patience
    /\ Tick(Waiting)
    /\ world' = [world EXCEPT !.searches = Aged(@), !.recent = None]

-----------------------------------------------------------------------------
(* The world.                                                              *)

\* Every history notes where the key is now.
SeenAt(known, k, z) == [t \in DOMAIN known |-> [known[t] EXCEPT ![k] = @ \cup {z}]]

MoveKey(k, z) ==
    /\ world.budget > 0
    /\ world.placed[k] # z
    /\ world' = [world EXCEPT
            !.budget = @ - 1,
            !.placed[k] = z,
            !.known = SeenAt(@, k, z)]
    /\ Publish(<< <<Of("placed", k), z>> >>)
    /\ UNCHANGED mem

\* Another feature asks the arbiter for c.
OrderElsewhere(who, c) ==
    /\ world.budget > 0
    /\ world' = [Ordered(world, who, c) EXCEPT !.budget = @ - 1]
    /\ UNCHANGED <<bus, unread, mem>>

-----------------------------------------------------------------------------
(* The trunk.                                                              *)

\* A feature requests TRUE of the trunk's domain arbiter and releases it at once;
\* the arbiter's gate holds while valet mode is on.
TrunkPulse ==
    IF bus["valet"] THEN <<>> ELSE << <<"openCmd", TRUE>>, <<"openCmd", FALSE>> >>

\* TrunkPlantModel.run
MoveTrunk(s) ==
    /\ Has("trunk", s)
    /\ LET goal  == s = "openCmd"
           moves == Val("trunk", s) /\ mem["trunk"].open # goal
       IN  React("trunk", s, [mem["trunk"] EXCEPT !.open = IF moves THEN goal ELSE @],
                 IF moves THEN << <<"trunkOpen", goal>> >> ELSE <<>>)
    /\ UNCHANGED world

\* What the task follows, and its variables when it starts.
TrunkTask(b) ==
    [follows |-> {"openCmd", "closeCmd"},
     mem |-> [open |-> b["trunkOpen"], timer |-> NoTimer]]
=============================================================================
