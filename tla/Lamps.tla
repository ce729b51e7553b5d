-------------------------------- MODULE Lamps --------------------------------
(***************************************************************************)
(* The direction indicators: the BlinkRelay plant ("relay") and its users  *)
(* TurnIndicator ("turn"), HazardLighting ("hazard") and LockFeedback      *)
(* ("flash").  The three lamps of a side are one, and so are their         *)
(* defects; the four doors are one signal.                                 *)
(***************************************************************************)
EXTENDS Claims

CONSTANTS
    PeriodNormal, \* PERIOD_NORMAL, in ticks
    PeriodDefect, \* PERIOD_DEFECT
    FlashCount,   \* lane_change_flash_count
    LeadIn,       \* LEAD_IN_MS
    FlashOn,      \* FLASH_ON_MS
    Gap,          \* GAP_MS
    Honk,         \* MISLOCK_HONK_MS
    LockChime     \* LOCK_CHIME_MS

ASSUME LampsAssumption ==
    {PeriodNormal, PeriodDefect, FlashCount, LeadIn, FlashOn, Gap, Honk, LockChime} \subseteq Nat \ {0}

OtherSide(side) == IF side = "left" THEN "right" ELSE "left"

Ignited(power) == power \in {"ON", "START"}

-----------------------------------------------------------------------------
(* BlinkRelay.                                                             *)

\* period_for
BlinkPeriod(m, side) ==
    IF m.defect[side] /\ ~m.signaling[OtherSide(side)] THEN PeriodDefect ELSE PeriodNormal

\* A side that blinks already keeps its rhythm.
RearmedAlone(m) ==
    [m EXCEPT !.timer = [side \in Sides |->
        CASE ~m.signaling[side]                         -> Off
          [] m.signaling[side] /\ m.timer[side] = Off   -> BlinkPeriod(m, side)
          [] OTHER                                      -> m.timer[side]]]

\* Both sides start a new period together.
Rearmed(m) ==
    [m EXCEPT !.timer = [side \in Sides |->
        IF m.signaling[side] THEN BlinkPeriod(m, side) ELSE Off]]

\* handle_intent_change
RelayHears(side) ==
    /\ Reads("relay", Of("signal", side))
    /\ LET v   == Val("relay", Of("signal", side))
           m   == [mem["relay"] EXCEPT !.signaling[side] = v]
           lit == {side} \cup {x \in {OtherSide(side)} : m.signaling[x]}
       IN  CASE v /\ ~mem["relay"].signaling[side] ->
                    React("relay", Of("signal", side),
                          [Rearmed(m) EXCEPT !.lamp =
                                [x \in Sides |-> IF x \in lit THEN TRUE ELSE @[x]]],
                          << <<Of("lamp", side), TRUE>> >> \o
                          SetToSeq({<<Of("lamp", x), TRUE>> : x \in {y \in lit \ {side} : ~m.lamp[y]}}))
             [] ~v /\ mem["relay"].signaling[side] ->
                    React("relay", Of("signal", side), [Rearmed(m) EXCEPT !.lamp[side] = FALSE],
                          << <<Of("lamp", side), FALSE>> >>)
             [] OTHER -> React("relay", Of("signal", side), m, <<>>)
    /\ UNCHANGED world

\* rearm_on_defect
RelayHearsDefect(side) ==
    /\ Reads("relay", Of("defect", side))
    /\ LET m == [mem["relay"] EXCEPT !.defect[side] = Val("relay", Of("defect", side))]
       IN  React("relay", Of("defect", side), IF m.signaling[side] THEN Rearmed(m) ELSE m, <<>>)
    /\ UNCHANGED world

RelayTicks(side) ==
    /\ Due("relay", side)
    /\ mem["relay"].signaling[side]
    /\ LET m == mem["relay"] IN
        Act("relay", [m EXCEPT !.lamp[side] = ~@, !.timer[side] = BlinkPeriod(m, side)],
            << <<Of("lamp", side), ~m.lamp[side]>> >>)
    /\ UNCHANGED world

-----------------------------------------------------------------------------
(* TurnIndicator.  comfort is the side of a comfort blink and remaining    *)
(* its flashes; active is the side the stalk shows.                        *)

\* set_both, for the one side that signals or for none.
Signal(one) ==
    <<ClaimOrRelease("TurnIndicator", Of("signal", "left"), Medium, one = "left"),
      ClaimOrRelease("TurnIndicator", Of("signal", "right"), Medium, one = "right")>>

Shows(stalk) == IF stalk = "OFF" THEN None ELSE stalk

TurnHearsStalk ==
    /\ Reads("turn", "stalk")
    /\ LET m    == [mem["turn"] EXCEPT !.stalk = Val("turn", "stalk")]
           rest == IF FlashCount > m.counted THEN FlashCount - m.counted ELSE 0
           Then(n, requests) == ReactClaiming("turn", "stalk", n, <<>>, requests)
       IN  CASE ~m.ignition -> Then(m, <<>>)
             [] m.ignition /\ m.stalk # "OFF" ->
                    Then([m EXCEPT !.comfort = None, !.counted = 0, !.active = m.stalk],
                         Signal(m.stalk))
             [] m.ignition /\ m.stalk = "OFF" /\ m.active # None /\ rest > 0 ->
                    Then([m EXCEPT !.active = None, !.comfort = m.active, !.remaining = rest], <<>>)
             [] m.ignition /\ m.stalk = "OFF" /\ m.active # None /\ rest = 0 ->
                    Then([m EXCEPT !.active = None, !.counted = 0], Signal(None))
             [] OTHER -> Then(m, IF m.comfort # None THEN <<>> ELSE Signal(None))

TurnHearsPower ==
    /\ Reads("turn", "ignition")
    /\ LET on == Ignited(Val("turn", "ignition"))
           m  == [mem["turn"] EXCEPT !.ignition = on]
       IN  CASE mem["turn"].ignition /\ ~on ->
                    ReactClaiming("turn", "ignition",
                                  [m EXCEPT !.comfort = None, !.active = None, !.counted = 0],
                                  <<>>, Signal(None))
             [] ~mem["turn"].ignition /\ on ->
                    ReactClaiming("turn", "ignition", [m EXCEPT !.active = Shows(m.stalk)],
                                  <<>>, Signal(Shows(m.stalk)))
             [] OTHER -> ReactClaiming("turn", "ignition", m, <<>>, <<>>)

\* A falling edge of the front lamp is a flash.
TurnHearsLamp(side) ==
    /\ Reads("turn", Of("lamp", side))
    /\ LET on    == Val("turn", Of("lamp", side))
           m     == [mem["turn"] EXCEPT !.lamp[side] = on]
           flash == mem["turn"].lamp[side] /\ ~on
           Then(n, requests) == ReactClaiming("turn", Of("lamp", side), n, <<>>, requests)
       IN  CASE flash /\ m.comfort = side /\ m.remaining > 1 ->
                    Then([m EXCEPT !.remaining = @ - 1], <<>>)
             [] flash /\ m.comfort = side /\ m.remaining <= 1 ->
                    Then([m EXCEPT !.remaining = 0, !.comfort = None, !.counted = 0], Signal(None))
             [] flash /\ m.comfort # side /\ m.active = side ->
                    Then([m EXCEPT !.counted = Min({@ + 1, FlashCount})], <<>>)
             [] OTHER -> Then(m, <<>>)

-----------------------------------------------------------------------------
(* HazardLighting.                                                         *)

BothSignals == <<Of("signal", "left"), Of("signal", "right")>>

HazardHears ==
    /\ Reads("hazard", "hazardSwitch")
    /\ ReactClaiming("hazard", "hazardSwitch", mem["hazard"], <<>>,
            IF Val("hazard", "hazardSwitch") THEN ClaimEach("Hazard", BothSignals, High, TRUE)
                                             ELSE ReleaseEach("Hazard", BothSignals))

-----------------------------------------------------------------------------
(* LockFeedback.  timer[1] is the sleep of the flash task, whose remaining *)
(* claims are in plan; the other sleeps are those of the sounds, which go  *)
(* straight to the bus.                                                    *)

\* play_sequence: what is claimed, and for how long.
Flash == << <<FALSE, LeadIn>>, <<TRUE, FlashOn>> >>

Plan(kind) == IF kind = "lock" THEN Flash ELSE Flash \o << <<FALSE, Gap>> >> \o Flash

\* preempt_and_start
Starts(m, kind) == [m EXCEPT !.plan = Plan(kind), !.timer[1] = 0]

StopsOneSide == <<Release("LockFeedback", Of("signal", "left"))>>

StopFlash == ReleaseEach("LockFeedback", BothSignals)

Sounds(m, signal, time) == [m EXCEPT !.sounds = Append(@, signal), !.timer = Append(@, time)]

FlashHearsFeedback ==
    /\ Reads("flash", "feedback")
    /\ LET v      == Val("flash", "feedback")
           m      == mem["flash"]
           kind   == IF v = "lock" THEN "lock" ELSE "unlock"
           chimes == v = "lock" /\ bus["chirp"] /\ ~(bus["protect"] /\ m.open)
           n      == [Starts(m, kind) EXCEPT !.outside = @ \/ v = "trunk_unlock"]
       IN  CASE v = "mislock" ->
                    ReactClaiming("flash", "feedback", Sounds(m, "horn", Honk), << <<"horn", TRUE>> >>, <<>>)
             [] v \in {"lock", "unlock", "trunk_unlock"} ->
                    ReactClaiming("flash", "feedback",
                                  IF chimes THEN Sounds(n, "chime", LockChime) ELSE n,
                                  IF chimes THEN << <<"chime", TRUE>> >> ELSE <<>>, StopFlash)
             [] OTHER -> ReactClaiming("flash", "feedback", m, <<>>, <<>>)

FlashHearsTrunk ==
    /\ Reads("flash", "trunkOpen")
    /\ LET m == mem["flash"] IN
        IF ~Val("flash", "trunkOpen") /\ m.outside
        THEN ReactClaiming("flash", "trunkOpen",
                           [Starts(m, IF m.locked THEN "lock" ELSE "unlock") EXCEPT !.outside = FALSE],
                           <<>>, StopFlash)
        ELSE ReactClaiming("flash", "trunkOpen", m, <<>>, <<>>)

FlashKeeps(s) ==
    /\ s \in {"locked", "open"}
    /\ Reads("flash", s)
    /\ Keeps("flash", s)

FlashPlays ==
    /\ Due("flash", 1)
    /\ LET m == mem["flash"] IN
        IF m.plan = <<>>
        THEN ActClaiming("flash", [m EXCEPT !.timer[1] = Off], <<>>, StopFlash)
        ELSE ActClaiming("flash", [m EXCEPT !.plan = Tail(@), !.timer[1] = Head(m.plan)[2]], <<>>,
                         ClaimEach("LockFeedback", BothSignals, High, Head(m.plan)[1]))

FlashSilences(i) ==
    /\ Due("flash", i + 1)
    /\ LET m == mem["flash"] IN
        Act("flash", [m EXCEPT !.sounds = RemoveAt(@, i), !.timer = RemoveAt(@, i + 1)],
            << <<m.sounds[i], FALSE>> >>)
    /\ UNCHANGED world

\* What each task follows, and its variables when it starts.
RelayTask ==
    [follows |-> OfAll("signal", Sides) \cup OfAll("defect", Sides),
     mem |-> [signaling |-> [x \in Sides |-> FALSE], lamp |-> [x \in Sides |-> FALSE],
              defect |-> [x \in Sides |-> FALSE], timer |-> Timers(Sides)]]

TurnTask(b) ==
    [follows |-> {"stalk", "ignition"} \cup OfAll("lamp", Sides),
     mem |-> [stalk |-> b["stalk"], ignition |-> Ignited(b["ignition"]), active |-> None,
              counted |-> 0, comfort |-> None, remaining |-> 0,
              lamp |-> [x \in Sides |-> FALSE], timer |-> NoTimer]]

HazardTask ==
    [follows |-> {"hazardSwitch"},
     mem |-> [timer |-> NoTimer]]

FlashTask(b) ==
    [follows |-> {"feedback", "trunkOpen", "locked", "open"},
     mem |-> [locked |-> b["locked"], open |-> b["open"], outside |-> FALSE, plan |-> <<>>,
              sounds |-> <<>>, timer |-> <<Off>>]]

LampsStep ==
    \/ \E side \in Sides : RelayHears(side) \/ RelayHearsDefect(side) \/ RelayTicks(side)
    \/ TurnHearsStalk
    \/ TurnHearsPower
    \/ \E side \in Sides : TurnHearsLamp(side)
    \/ HazardHears
    \/ FlashHearsFeedback
    \/ FlashHearsTrunk
    \/ \E s \in {"locked", "open"} : FlashKeeps(s)
    \/ FlashPlays
    \/ Runs("flash") /\ \E i \in DOMAIN mem["flash"].sounds : FlashSilences(i)
=============================================================================
