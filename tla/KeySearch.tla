----------------------------- MODULE KeySearch -----------------------------
(***************************************************************************)
(* KeySearchArbiter (src/vss-bridge/src/features/key_search_arbiter.rs):   *)
(* one task that serves key searches one after the other.  A search fires  *)
(* antennas for some ticks (of 50 ms) and answers with the keys that were  *)
(* in the covered zones when it began; a request that allows it takes the  *)
(* result of an equal search that has just ended.                          *)
(*                                                                         *)
(* An AntennaSet::Sequence is the set of its legs, which never differ in   *)
(* their mode; SingleHandle stands for one handle, "Out" for every zone    *)
(* that no antenna covers.  Which keys are paired does not change: nothing *)
(* in the program publishes a Paired signal while it runs.                 *)
(***************************************************************************)
EXTENDS Naturals, Sequences, FiniteSetsExt

CONSTANTS
    Keys,         \* the slots of the fobs and phones
    None,         \* no value
    Window        \* COALESCE_WINDOW, in ticks

Zones == {"Cabin", "Cylinder", "Approach", "Handle", "Out"}

Antennas == {"Cabin", "Cylinder", "AllApproach", "SingleHandle"}

Scan == [legs : (SUBSET Antennas) \ {{}}, mode : {"Presence", "Authenticated"}]

\* The start control awaits its answers; nobody here uses those of the others.
Request == [by : {"start", "other"}, scan : Scan, reuse : BOOLEAN]

ASSUME SearchAssumption ==
    /\ Window \in Nat
    /\ None \notin Request
    /\ \A found \in SUBSET Keys : found # None

VARIABLES
    placed,   \* per key: PlacedZone
    paired,   \* the paired keys
    zoneQ,    \* per key: values of PlacedZone the arbiter has not read
    zones,    \* per key: the arbiter's copy
    searchQ,  \* the request channel
    search,   \* the request whose antennas fire, or None
    ticks,    \* how many ticks they will
    snapshot, \* per key: zones_snapshot
    cache,    \* finished searches, with their age in ticks
    observed, \* per key: LastObservedZone
    answer,   \* the start control's one-shot answer, or None
    known     \* history: per key, where the arbiter had it since the start control
              \* requested the search it awaits

keyVars    == <<placed, paired, zoneQ>>
searchVars == <<zones, searchQ, search, ticks, snapshot, cache, observed, answer, known>>

-----------------------------------------------------------------------------

\* coverage_zones of one antenna set.
CoverageOf(a) ==
    CASE a = "AllApproach"  -> {"Approach", "Handle"}
      [] a = "SingleHandle" -> {"Handle"}
      [] OTHER              -> {a}

Coverage(s) == UNION {CoverageOf(a) : a \in s.legs}

\* latency: 150 ms, 50 ms or 100 ms.
LegTicks(a, mode) ==
    CASE a = "AllApproach" /\ mode = "Authenticated" -> 3
      [] a = "Cylinder" \/ mode = "Presence"         -> 1
      [] OTHER                                       -> 2

Latency(s) == MapThenSumSet(LAMBDA a : LegTicks(a, s.mode), s.legs)

\* run_scan: an authenticated search does not find unpaired keys.
Found(s) ==
    {k \in Keys : snapshot[k] \in Coverage(s) /\ (s.mode = "Authenticated" => k \in paired)}

\* What the arbiter has, or will have read, of where a key is.
Unfinished(k) == {zones[k]} \cup {zoneQ[k][i] : i \in DOMAIN zoneQ[k]}

\* submit; the channel (64) is not filled by the handful of requesters.
Submit(r) ==
    /\ searchQ' = Append(searchQ, r)
    /\ known' = IF r.by = "start" THEN [k \in Keys |-> Unfinished(k)] ELSE known

ReplyIfFound(r, found) == answer' = IF r.by = "start" /\ found # {} THEN found ELSE answer

\* The one-shot answer.
Reply(r, found) == answer' = IF r.by = "start" THEN found ELSE answer

-----------------------------------------------------------------------------
(* The tasks that follow PlacedZone, and the arbiter's loop.               *)

SeeZone(k) ==
    /\ zoneQ[k] # <<>>
    /\ zones' = [zones EXCEPT ![k] = Head(zoneQ[k])]
    /\ zoneQ' = [zoneQ EXCEPT ![k] = Tail(@)]
    /\ UNCHANGED <<placed, paired, searchQ, search, ticks, snapshot, cache, observed, answer, known>>

Recent == SelectSeq(cache, LAMBDA c : c.age <= Window)

HitsAlways(r) == {i \in DOMAIN cache : cache[i].age <= Window /\ cache[i].scan = r.scan}

\* The results the request may take.
Hits(r) == {i \in DOMAIN cache : r.reuse /\ cache[i].age <= Window /\ cache[i].scan = r.scan}

\* It takes the oldest.
Coalesce ==
    /\ search = None
    /\ searchQ # <<>>
    /\ searchQ' = Tail(searchQ)
    /\ cache' = Recent
    /\ Hits(Head(searchQ)) # {}
    /\ Reply(Head(searchQ), cache[Min(Hits(Head(searchQ)))].found)
    /\ UNCHANGED <<keyVars, zones, search, ticks, snapshot, observed, known>>

\* The zones are copied before the antennas fire.
BeginSearch ==
    /\ search = None
    /\ searchQ # <<>>
    /\ Hits(Head(searchQ)) = {}
    /\ searchQ' = Tail(searchQ)
    /\ cache' = Recent
    /\ search' = Head(searchQ)
    /\ ticks' = Latency(Head(searchQ).scan)
    /\ snapshot' = zones
    /\ UNCHANGED <<keyVars, zones, observed, answer, known>>

\* A key that was found is published where it was; one that was not, and had
\* been seen in the covered zones, is published as gone.
PublishObserved(found, s) ==
    observed' = [k \in Keys |->
        CASE k \in found                                     -> snapshot[k]
          [] k \notin found /\ observed[k] \in Coverage(s) -> "Out"
          [] OTHER                                           -> observed[k]]

EndSearch ==
    /\ search # None
    /\ ticks = 0
    /\ LET s == search.scan IN
        /\ PublishObserved(Found(s), s)
        /\ cache' = Append(cache, [scan |-> s, found |-> Found(s), age |-> 0])
        /\ Reply(search, Found(s))
    /\ search' = None
    /\ snapshot' = [k \in Keys |-> "Out"]
    /\ UNCHANGED <<keyVars, zones, searchQ, ticks, known>>

\* 50 ms pass.
SearchTick ==
    /\ ticks' = IF search # None THEN ticks - 1 ELSE ticks
    /\ cache' = [i \in DOMAIN Recent |-> [Recent[i] EXCEPT !.age = @ + 1]]
    /\ UNCHANGED <<keyVars, zones, searchQ, search, snapshot, observed, answer, known>>
=============================================================================
