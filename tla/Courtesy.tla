------------------------------ MODULE Courtesy ------------------------------
(***************************************************************************)
(* The other lights and small outputs: Welcome ("welcome"), Farewell       *)
(* ("farewell"), FollowMeHome ("home"), DomeSwitch ("dome"),               *)
(* DoorOpenAssist ("assist"), ManualLighting ("beams"), AutoHighBeam       *)
(* ("autoBeam"), FogLamps ("fog"), BrakeReverseLamps ("rearLamps"),        *)
(* ManualHorn ("honk"), DelayedAccessory ("accessory") and the plants      *)
(* behind the chime, the start button's LED, the day/night mode and the    *)
(* brake.  The four doors are one signal, open when one of them is, and    *)
(* the puddle lamps are one.                                               *)
(***************************************************************************)
EXTENDS Lamps

CONSTANTS
    WelcomeHold,  \* WELCOME_HOLD_SECS, in ticks
    PollFast,     \* APPROACH_POLL_FAST
    PollSlow,     \* APPROACH_POLL_SLOW
    ArmWindow,    \* ARM_WINDOW_SECS
    FarewellHold, \* DEFAULT_HOLD_SECS
    HomeTime,     \* FMH_DURATION_SECS
    Accessory,    \* DEFAULT_TIMEOUT of the delayed accessory power
    Dark,         \* the lux thresholds
    PressAt,      \* PRESS_THRESHOLD_PCT
    ReleaseAt     \* RELEASE_THRESHOLD_PCT

ASSUME CourtesyAssumption ==
    /\ {WelcomeHold, PollFast, PollSlow, ArmWindow, FarewellHold, HomeTime, Accessory}
            \subseteq Nat \ {0}
    /\ {Dark, PressAt, ReleaseAt} \subseteq Nat
    /\ ReleaseAt < PressAt

CourtesyLights == <<"puddle", "dome">>

-----------------------------------------------------------------------------
(* Welcome.                                                                *)

WelcomeOrder == [i \in 1..Cardinality(Paired) |-> Of("observed", SetToSeq(Paired)[i])]
                \o <<"ignition", "open">>

WelcomeGoesDark(m) == [m EXCEPT !.timer.hold = Off]

WelcomeReleases == ReleaseEach("Welcome", CourtesyLights)

\* has_lf: only a key that is out of range has none of these zones.
WelcomeHearsZone(k) ==
    /\ ReadsInTurn("welcome", WelcomeOrder, Of("observed", k))
    /\ LET near == Val("welcome", Of("observed", k)) # "Out"
           m    == [mem["welcome"] EXCEPT !.near[k] = near]
           arms == near /\ ~mem["welcome"].near[k] /\ m.timer.hold = Off
           Then(n, requests) == ReactClaiming("welcome", Of("observed", k), n, <<>>, requests)
       IN  CASE arms -> Then([m EXCEPT !.timer.hold = WelcomeHold],
                             ClaimEach("Welcome", CourtesyLights, Medium, TRUE))
             [] ~arms /\ m.timer.hold # Off /\ (\A j \in Paired : ~m.near[j]) ->
                    Then(WelcomeGoesDark(m), WelcomeReleases)
             [] OTHER -> Then(m, <<>>)

\* The poll is suspended while the car is on or in accessory mode.
WelcomeHearsPower ==
    /\ ReadsInTurn("welcome", WelcomeOrder, "ignition")
    /\ LET v    == Val("welcome", "ignition")
           lit  == mem["welcome"].timer.hold # Off /\ Ignited(v)
           m    == IF lit THEN WelcomeGoesDark(mem["welcome"]) ELSE mem["welcome"]
           stop == v \in {"ACC", "ON", "START"}
       IN  CASE stop /\ ~m.suspended ->
                    ReactClaiming("welcome", "ignition",
                                  [m EXCEPT !.suspended = TRUE, !.keys = 0, !.timer.poll = Off],
                                  << <<"approachKeys", 0>>, <<"approachInterval", 0>> >>,
                                  IF lit THEN WelcomeReleases ELSE <<>>)
             [] ~stop /\ m.suspended ->
                    ReactClaiming("welcome", "ignition",
                                  [m EXCEPT !.suspended = FALSE, !.timer.poll = 0], <<>>, <<>>)
             [] OTHER -> ReactClaiming("welcome", "ignition", m, <<>>,
                                       IF lit THEN WelcomeReleases ELSE <<>>)

WelcomeHearsDoor ==
    /\ ReadsInTurn("welcome", WelcomeOrder, "open")
    /\ IF Val("welcome", "open") /\ mem["welcome"].timer.hold # Off
       THEN ReactClaiming("welcome", "open", WelcomeGoesDark(mem["welcome"]), <<>>, WelcomeReleases)
       ELSE ReactClaiming("welcome", "open", mem["welcome"], <<>>, <<>>)

WelcomeExpires ==
    /\ Due("welcome", "hold")
    /\ "welcome" \notin Waiting
    /\ CaughtUp("welcome")
    /\ ActClaiming("welcome", WelcomeGoesDark(mem["welcome"]), <<>>, WelcomeReleases)

WelcomePolls ==
    /\ Due("welcome", "poll")
    /\ "welcome" \notin Waiting
    /\ CaughtUp("welcome")
    /\ mem["welcome"].timer.hold # 0
    /\ Ask("welcome", {"AllApproach"})
    /\ UNCHANGED <<bus, unread, mem>>

PollEvery(n) == IF n > 0 THEN PollSlow ELSE PollFast

\* The next poll is counted from the start of this one.
WelcomeCounts ==
    \E i \in Answers("welcome") :
        LET n    == Cardinality(DOMAIN world.searches[i].found)
            rest == PollEvery(n) - world.searches[i].age
        IN  /\ Act("welcome",
                   [mem["welcome"] EXCEPT !.keys = n, !.timer.poll = IF rest > 0 THEN rest ELSE 0],
                   IF n = mem["welcome"].keys THEN <<>>
                   ELSE << <<"approachKeys", n>>, <<"approachInterval", PollEvery(n)>> >>)
            /\ world' = Taken(world, i)

Welcome == \/ \E k \in Paired : WelcomeHearsZone(k)
           \/ WelcomeHearsPower
           \/ WelcomeHearsDoor
           \/ WelcomeExpires
           \/ WelcomePolls
           \/ WelcomeCounts

-----------------------------------------------------------------------------
(* Farewell.  state is "Idle", "Armed" or "Holding"; timer.state its end.  *)

Enters(m, state, time) == [m EXCEPT !.state = state, !.timer.state = time]

FarewellReleases(m) ==
    IF m.state = "Holding" THEN ReleaseEach("Farewell", CourtesyLights) ELSE <<>>

FarewellHearsPower ==
    /\ Reads("farewell", "ignition")
    /\ LET on == Ignited(Val("farewell", "ignition"))
           m  == [mem["farewell"] EXCEPT !.on = on]
       IN  CASE mem["farewell"].on /\ ~on ->
                    ReactClaiming("farewell", "ignition", Enters(m, "Armed", ArmWindow), <<>>, <<>>)
             [] ~mem["farewell"].on /\ on ->
                    ReactClaiming("farewell", "ignition", Enters(m, "Idle", Off), <<>>,
                                  FarewellReleases(m))
             [] OTHER -> ReactClaiming("farewell", "ignition", m, <<>>, <<>>)

FarewellHearsLock ==
    /\ Reads("farewell", "status")
    /\ LET m == mem["farewell"] IN
        IF Val("farewell", "status") \in Locked /\ m.state = "Holding"
        THEN ReactClaiming("farewell", "status", Enters(m, "Idle", Off), <<>>, FarewellReleases(m))
        ELSE ReactClaiming("farewell", "status", m, <<>>, <<>>)

FarewellHearsDoor ==
    /\ Reads("farewell", "open")
    /\ LET m == mem["farewell"] IN
        IF Val("farewell", "open") /\ m.state = "Armed"
        THEN ReactClaiming("farewell", "open", Enters(m, "Holding", FarewellHold), <<>>,
                           ClaimEach("Farewell", CourtesyLights, Medium, TRUE))
        ELSE ReactClaiming("farewell", "open", m, <<>>, <<>>)

FarewellExpires ==
    /\ Due("farewell", "state")
    /\ ActClaiming("farewell", Enters(mem["farewell"], "Idle", Off), <<>>,
                   FarewellReleases(mem["farewell"]))

Farewell == FarewellHearsPower \/ FarewellHearsLock \/ FarewellHearsDoor \/ FarewellExpires

-----------------------------------------------------------------------------
(* FollowMeHome.                                                           *)

HomeLights == <<"lowBeam", "parking", "plate">>

HomeReleases == ReleaseEach("FollowMeHome", HomeLights)

HomeHearsPower ==
    /\ Reads("home", "ignition")
    /\ LET on == Ignited(Val("home", "ignition"))
           m  == [mem["home"] EXCEPT !.armed = ~on]
       IN  IF on /\ m.timer.home # Off
           THEN ReactClaiming("home", "ignition", [m EXCEPT !.timer.home = Off], <<>>, HomeReleases)
           ELSE ReactClaiming("home", "ignition", m, <<>>, <<>>)

HomeHearsDoor ==
    /\ Reads("home", "open")
    /\ LET m == [mem["home"] EXCEPT !.open = Val("home", "open")] IN
        IF m.open /\ ~mem["home"].open /\ m.armed /\ m.lux < Dark
        THEN ReactClaiming("home", "open", [m EXCEPT !.timer.home = HomeTime], <<>>,
                           ClaimEach("FollowMeHome", HomeLights, High, TRUE))
        ELSE ReactClaiming("home", "open", m, <<>>, <<>>)

HomeExpires ==
    /\ Due("home", "home")
    /\ ActClaiming("home", [mem["home"] EXCEPT !.timer.home = Off], <<>>, HomeReleases)

Home == HomeHearsPower \/ HomeHearsDoor \/ HomeExpires \/ (Reads("home", "lux") /\ Keeps("home", "lux"))

-----------------------------------------------------------------------------
(* DomeSwitch and DoorOpenAssist.                                          *)

\* resolve
DomeWants(m) == m.domeSwitch = "ON" \/ (m.domeSwitch = "DOOR" /\ m.open)

DomeClaims(m) ==
    IF m.claimed = DomeWants(m) THEN <<>> ELSE <<Claim("DomeSwitch", "dome", Low, DomeWants(m))>>

DomeStarts ==
    /\ Runs("dome")
    /\ mem["dome"].claimed = None
    /\ ActClaiming("dome", [mem["dome"] EXCEPT !.claimed = DomeWants(mem["dome"])], <<>>,
                   DomeClaims(mem["dome"]))

DomeHears(s) ==
    /\ Reads("dome", s)
    /\ mem["dome"].claimed # None
    /\ LET m == [mem["dome"] EXCEPT ![s] = Val("dome", s)] IN
        IF m # mem["dome"] /\ (s = "domeSwitch" \/ m.domeSwitch = "DOOR")
        THEN ReactClaiming("dome", s, [m EXCEPT !.claimed = DomeWants(m)], <<>>, DomeClaims(m))
        ELSE ReactClaiming("dome", s, m, <<>>, <<>>)

\* reconcile
AssistHears(s) ==
    /\ Reads("assist", s)
    /\ LET m    == [mem["assist"] EXCEPT ![s] = Val("assist", s)]
           want == m.lux <= Dark /\ m.open
       IN  ReactClaiming("assist", s, [m EXCEPT !.claimed = want], <<>>,
                         IF want = m.claimed THEN <<>>
                         ELSE <<ClaimOrRelease("DoorOpenAssist", "puddle", Low, want)>>)

-----------------------------------------------------------------------------
(* ManualLighting, AutoHighBeam, ManualHorn.                               *)

\* apply
Beams(m) ==
    LET on   == Ignited(m.ignition)
        low  == on /\ (m.lightSwitch = "BEAM" \/ (m.lightSwitch = "AUTO" /\ m.lux < Dark))
    IN  <<ClaimOrRelease("LowBeam", "lowBeam", Medium, low),
          ClaimOrRelease("LowBeam", "parking", Medium, low \/ (on /\ m.lightSwitch = "POSITION")),
          ClaimOrRelease("LowBeam", "plate", Medium, low),
          ClaimOrRelease("HighBeam", "highBeam", Medium, low /\ m.highSwitch),
          ClaimOrRelease("Drl", "drl", Medium, low \/ (on /\ m.lightSwitch = "DRL"))>>

BeamsHear(s) ==
    /\ Reads("beams", s)
    /\ LET m == [mem["beams"] EXCEPT ![s] = Val("beams", s)]
       IN  ReactClaiming("beams", s, m, <<>>, Beams(m))

\* A task that claims one value while the signal it follows is TRUE.
ClaimsWhile(t, s, request, release) ==
    /\ Reads(t, s)
    /\ LET v == Val(t, s) IN
        ReactClaiming(t, s, [mem[t] EXCEPT !.claimed = v], <<>>,
                      CASE v /\ ~mem[t].claimed -> <<request>>
                        [] ~v /\ mem[t].claimed -> <<release>>
                        [] OTHER                -> <<>>)

AutoBeamHears == ClaimsWhile("autoBeam", "oncoming", Claim("AutoHighBeam", "highBeam", High, FALSE),
                             Release("AutoHighBeam", "highBeam"))

HonkHears == ClaimsWhile("honk", "hornSwitch", Claim("ManualHorn", "horn", Medium, TRUE),
                         Release("ManualHorn", "horn"))

-----------------------------------------------------------------------------
(* FogLamps, BrakeReverseLamps and DelayedAccessory publish directly.      *)

FogHears(s) ==
    /\ Reads("fog", s)
    /\ LET m  == [mem["fog"] EXCEPT ![s] = Val("fog", s)]
           on == Ignited(m.ignition)
       IN  React("fog", s, m, << <<"frontFog", on /\ m.frontSwitch>>, <<"rearFog", on /\ m.rearSwitch>> >>)
    /\ UNCHANGED world

RearLampsHear(s) ==
    /\ Reads("rearLamps", s)
    /\ LET m == [mem["rearLamps"] EXCEPT ![s] = Val("rearLamps", s)]
       IN  React("rearLamps", s, m,
                 << <<"brakeLamp", m.pedalPressed>>,
                    <<"reverseLamp", Ignited(m.ignition) /\ m.gear < 0>> >>)
    /\ UNCHANGED world

AccessoryOrder == <<"ignition", "open">>

\* compute and publish: whether the accessories have power, when it has changed.
AccessoryNews(m) ==
    LET power(n) == n.on \/ n.timer.window # Off
    IN  IF power(m) = power(mem["accessory"]) THEN <<>> ELSE << <<"dap", power(m)>> >>

AccessoryHears(s) ==
    /\ ReadsInTurn("accessory", AccessoryOrder, s)
    /\ mem["accessory"].timer.window # 0
    /\ LET v == Val("accessory", s)
           m == mem["accessory"]
           n == CASE s = "ignition" /\ Ignited(v) # m.on ->
                        [m EXCEPT !.on = Ignited(v),
                                  !.timer.window = IF Ignited(v) THEN Off ELSE Accessory]
                  [] s = "open" /\ v /\ ~m.on -> [m EXCEPT !.timer.window = Off]
                  [] OTHER -> m
       IN  React("accessory", s, n, AccessoryNews(n))
    /\ UNCHANGED world

AccessoryExpires ==
    /\ Due("accessory", "window")
    /\ LET m == [mem["accessory"] EXCEPT !.timer.window = Off]
       IN  Act("accessory", m, AccessoryNews(m))
    /\ UNCHANGED world

-----------------------------------------------------------------------------
(* The plants that show a value when it changes.                           *)

\* Task t shows v, derived from the value of s, on the signal out.
Copies(t, s, out, v) ==
    /\ React(t, s, [mem[t] EXCEPT !.shown = v], IF v = mem[t].shown THEN <<>> ELSE << <<out, v>> >>)
    /\ UNCHANGED world

Sounder == Reads("sounder", "chime") /\ Copies("sounder", "chime", "sounding", Val("sounder", "chime"))

Led == Reads("led", "duty") /\ Copies("led", "duty", "intensity", Min({Val("led", "duty"), 100}))

DayNight ==
    /\ Reads("dayNight", "lowBeam")
    /\ Copies("dayNight", "lowBeam", "mode", IF Val("dayNight", "lowBeam") THEN "NIGHT" ELSE "DAY")

\* next_state: applied from PressAt on, until ReleaseAt.
Brake ==
    /\ Reads("brake", "pedal")
    /\ LET pct == Val("brake", "pedal") IN
        Copies("brake", "pedal", "applied",
               IF mem["brake"].shown THEN pct > ReleaseAt ELSE pct >= PressAt)

\* What each task follows, and its variables when it starts.
WelcomeTask(b) ==
    [follows |-> {"ignition", "open"} \cup OfAll("observed", Paired),
     mem |-> [near |-> [k \in Paired |-> FALSE], suspended |-> b["ignition"] # "OFF",
              keys |-> 0,
              timer |-> [hold |-> Off, poll |-> IF b["ignition"] # "OFF" THEN Off ELSE PollFast]]]

FarewellTask(b) ==
    [follows |-> {"ignition", "status", "open"},
     mem |-> [on |-> Ignited(b["ignition"]), state |-> "Idle", timer |-> Timers({"state"})]]

HomeTask(b) ==
    [follows |-> {"ignition", "open", "lux"},
     mem |-> [armed |-> ~Ignited(b["ignition"]), open |-> b["open"], lux |-> b["lux"],
              timer |-> Timers({"home"})]]

DomeTask(b) ==
    [follows |-> {"domeSwitch", "open"},
     mem |-> [domeSwitch |-> b["domeSwitch"], open |-> b["open"], claimed |-> None,
              timer |-> NoTimer]]

AssistTask(b) ==
    [follows |-> {"lux", "open"},
     mem |-> [open |-> b["open"], lux |-> b["lux"], claimed |-> FALSE, timer |-> NoTimer]]

BeamsTask(b) ==
    [follows |-> {"ignition", "lightSwitch", "highSwitch", "lux"},
     mem |-> [ignition |-> b["ignition"], lightSwitch |-> b["lightSwitch"],
              highSwitch |-> b["highSwitch"], lux |-> b["lux"], timer |-> NoTimer]]

AutoBeamTask ==
    [follows |-> {"oncoming"},
     mem |-> [claimed |-> FALSE, timer |-> NoTimer]]

HonkTask ==
    [follows |-> {"hornSwitch"},
     mem |-> [claimed |-> FALSE, timer |-> NoTimer]]

FogTask(b) ==
    [follows |-> {"ignition", "frontSwitch", "rearSwitch"},
     mem |-> [ignition |-> b["ignition"], frontSwitch |-> FALSE, rearSwitch |-> FALSE,
              timer |-> NoTimer]]

RearLampsTask(b) ==
    [follows |-> {"ignition", "pedalPressed", "gear"},
     mem |-> [ignition |-> b["ignition"], pedalPressed |-> FALSE, gear |-> 0,
              timer |-> NoTimer]]

AccessoryTask(b) ==
    [follows |-> {"ignition", "open"},
     mem |-> [on |-> Ignited(b["ignition"]), timer |-> Timers({"window"})]]

SounderTask ==
    [follows |-> {"chime"},
     mem |-> [shown |-> FALSE, timer |-> NoTimer]]

LedTask ==
    [follows |-> {"duty"},
     mem |-> [shown |-> 0, timer |-> NoTimer]]

DayNightTask ==
    [follows |-> {"lowBeam"},
     mem |-> [shown |-> "DAY", timer |-> NoTimer]]

BrakeTask ==
    [follows |-> {"pedal"},
     mem |-> [shown |-> FALSE, timer |-> NoTimer]]

CourtesyStep ==
    \/ Welcome
    \/ Farewell
    \/ Home
    \/ DomeStarts
    \/ \E s \in {"domeSwitch", "open"} : DomeHears(s)
    \/ \E s \in {"lux", "open"} : AssistHears(s)
    \/ \E s \in {"ignition", "lightSwitch", "highSwitch", "lux"} : BeamsHear(s)
    \/ AutoBeamHears
    \/ HonkHears
    \/ \E s \in {"ignition", "frontSwitch", "rearSwitch"} : FogHears(s)
    \/ \E s \in {"ignition", "pedalPressed", "gear"} : RearLampsHear(s)
    \/ \E s \in {"ignition", "open"} : AccessoryHears(s)
    \/ AccessoryExpires
    \/ Sounder
    \/ Led
    \/ DayNight
    \/ Brake
=============================================================================
