------------------------------- MODULE Claims -------------------------------
(***************************************************************************)
(* The domain arbiters of arbiter.rs as the features meet them: a feature  *)
(* claims an actuator signal with a value and a priority, or releases it,  *)
(* and the signal shows the latest claim of the highest priority.  A       *)
(* handler's requests are served at its end here, in the order it made     *)
(* them; the arbiter's own loop, channel and gates are in DomainArbiter.   *)
(*                                                                         *)
(* world.claims holds, per signal, the claims in the order they were made. *)
(***************************************************************************)
EXTENDS LockWorld

\* Priority
Low    == 1
Medium == 2
High   == 3

Claimable ==
    {"puddle", "dome", "lowBeam", "highBeam", "parking", "plate", "drl", "horn", "motor"}
    \cup {Of("signal", side) : side \in Sides}

\* The allow-lists: who may claim which signals of an arbiter, and with what priority.
Entries(features, signals, priority) == [by : features, signal : signals, priority : {priority}]

Alarms == {"PanicAlarm", "PerimeterAlarm"}

LightingAllows ==
    LET indicators == {Of("signal", side) : side \in Sides}
    IN  Entries({"Hazard", "LockFeedback"} \cup Alarms, indicators, High)
        \cup Entries({"TurnIndicator"}, indicators, Medium)

LowBeamAllows ==
    LET home == {"lowBeam", "parking", "plate"}
    IN  Entries({"LowBeam"}, home, Medium) \cup Entries({"FollowMeHome"}, home, High)
        \cup Entries({"HighBeam"}, {"highBeam"}, Medium)
        \cup Entries({"AutoHighBeam"}, {"highBeam"}, High)
        \cup Entries({"Drl"}, {"drl"}, Medium)

HornAllows == Entries(Alarms, {"horn"}, High) \cup Entries({"ManualHorn"}, {"horn"}, Medium)

CourtesyAllows ==
    Entries({"Welcome", "Farewell"}, {"dome"}, Medium)
    \cup Entries({"PerimeterAlarm"}, {"dome"}, High) \cup Entries({"DomeSwitch"}, {"dome"}, Low)

PuddleAllows ==
    Entries({"Welcome", "Farewell"}, {"puddle"}, Medium)
    \cup Entries({"PerimeterAlarm"}, {"puddle"}, High)
    \cup Entries({"DoorOpenAssist"}, {"puddle"}, Low)

WindowAllows == Entries({"PowerWindow"}, {"motor"}, Medium)

AllowList ==
    LightingAllows \cup LowBeamAllows \cup HornAllows \cup CourtesyAllows
    \cup PuddleAllows \cup WindowAllows

\* What a signal shows when nobody claims it.
Unclaimed(s) == IF s = "motor" THEN "STOPPED" ELSE FALSE

\* The latest of the highest of the claims cs on signal s.
Winner(cs) ==
    CHOOSE i \in DOMAIN cs : \A j \in DOMAIN cs :
        cs[j].priority <= cs[i].priority /\ (j > i => cs[j].priority < cs[i].priority)

Shown(cs, s) == IF cs = <<>> THEN Unclaimed(s) ELSE cs[Winner(cs)].value

\* Requests, as values: each names who makes it.
Claim(who, s, priority, v) == [by |-> who, signal |-> s, priority |-> priority, value |-> v]

Release(who, s) == [by |-> who, signal |-> s, priority |-> 0, value |-> None]

ClaimEach(who, ss, priority, v) == [i \in DOMAIN ss |-> Claim(who, ss[i], priority, v)]

ReleaseEach(who, ss) == [i \in DOMAIN ss |-> Release(who, ss[i])]

\* TRUE is claimed and FALSE is a release.
ClaimOrRelease(who, s, priority, v) == IF v THEN Claim(who, s, priority, TRUE) ELSE Release(who, s)

\* A claim that the allow-list does not have changes nothing.
Allows(r) == r.value = None \/ [by |-> r.by, signal |-> r.signal, priority |-> r.priority] \in AllowList

\* A feature has at most one claim on a signal, its new one is the latest.
Without(cs, who) ==
    IF \E i \in DOMAIN cs : cs[i].by = who
    THEN RemoveAt(cs, CHOOSE i \in DOMAIN cs : cs[i].by = who) ELSE cs

Served(cs, r) == Without(cs, r.by) \o (IF r.value = None THEN <<>> ELSE <<r>>)

\* The claims after the requests of a handler, which has at most one for a signal.
AllServed(requests) ==
    [s \in DOMAIN world.claims |->
        LET own == {i \in DOMAIN requests : requests[i].signal = s /\ Allows(requests[i])}
        IN  IF own = {} THEN world.claims[s]
            ELSE Served(world.claims[s], requests[CHOOSE i \in own : TRUE])]

\* What the signals show then that show another value.
Changed(claims) ==
    [s \in {x \in DOMAIN claims : Shown(claims[x], x) # Shown(world.claims[x], x)} |->
        Shown(claims[s], s)]

ShownTo(queues, shown) ==
    [t \in DOMAIN queues |-> [s \in DOMAIN queues[t] |->
        IF s \in DOMAIN shown THEN Append(queues[t][s], shown[s]) ELSE queues[t][s]]]

\* The requests are served after news has been published.
Requesting(queues, news, requests) ==
    LET claims == AllServed(requests)
        shown  == Changed(claims)
    IN  /\ bus' = Over(shown, BusAfter(news))
        /\ unread' = ShownTo(Delivered(queues, news), shown)
        /\ world' = [world EXCEPT !.claims = claims]

\* Task t handles the next value of s: it publishes news and makes requests.
ReactClaiming(t, s, m, news, requests) ==
    /\ mem' = [mem EXCEPT ![t] = m]
    /\ Requesting([unread EXCEPT ![t][s] = Tail(@)], news, requests)

ActClaiming(t, m, news, requests) ==
    /\ mem' = [mem EXCEPT ![t] = m]
    /\ Requesting(unread, news, requests)
=============================================================================
