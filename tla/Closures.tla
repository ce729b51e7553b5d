------------------------------ MODULE Closures ------------------------------
(***************************************************************************)
(* What opens and moves: PowerWindow ("window") with the window plant      *)
(* ("glass") of one rear window, SunroofControl ("roofSwitch") with its    *)
(* plant ("roof"), MirrorFold ("fold") and MirrorAdjust ("adjust") with    *)
(* their plants ("mirrors", "aim").                                        *)
(*                                                                         *)
(* A detent is <<kind, direction>>, and so is the state of a switch.       *)
(* world.saved is what the plants and MirrorFold keep in their files.      *)
(***************************************************************************)
EXTENDS Claims

CONSTANTS
    StuckTime,  \* DEFAULT_STUCK_TIMEOUT, in ticks
    Travel,     \* the steps of a window's way
    FullPct,    \* the whole way of the sunroof, as published
    Settle,     \* MOTOR_SETTLE
    Reach       \* the steps a mirror tilts or turns from its middle

ASSUME ClosuresAssumption ==
    {StuckTime, Travel, FullPct, Settle, Reach} \subseteq Nat \ {0}

Neutral == <<"NEUTRAL", None>>
Idle    == <<"Idle", None>>
Awaiting == <<"AwaitingRelease", None>>
Stuck   == <<"Stuck", None>>

Moving(state) == state[1] \in {"Holding", "Auto"}

\* transition and on_detent, the same for a window and for the sunroof.
Switched(state, d) ==
    CASE state = Idle -> IF d = Neutral THEN Idle
                         ELSE <<IF d[1] = "HOLD" THEN "Holding" ELSE "Auto", d[2]>>
      [] state[1] = "Holding" -> CASE d = Neutral            -> Idle
                                   [] d = <<"HOLD", state[2]>> -> state
                                   [] OTHER                  -> Awaiting
      [] state[1] = "Auto" -> IF d = Neutral THEN state ELSE Awaiting
      [] OTHER -> IF d = Neutral THEN Idle ELSE state

-----------------------------------------------------------------------------
(* PowerWindow.                                                            *)

Sources == {"driver", "local"}

WindowOrder == <<Of("detent", "driver"), Of("detent", "local"), "position", "child", "dap">>

\* The sources whose intent counts.
Heard(m) == {src \in Sources : Moving(m.state[src]) /\ ~(src = "local" /\ m.child)}

\* The driver's switch wins.
ResolvedForDriver(m) ==
    IF Heard(m) # Sources THEN m
    ELSE [m EXCEPT !.state["local"] = IF m.detent["local"] = Neutral THEN Idle ELSE Awaiting]

\* resolve_conflict: both intents are dropped.
ResolvedConflict(m) ==
    IF Heard(m) # Sources THEN m
    ELSE [m EXCEPT !.state = [src \in Sources |-> IF m.detent[src] = Neutral THEN Idle ELSE Awaiting]]

\* evaluate_window_motor_cmds
MotorFor(m) ==
    IF m.dap /\ Cardinality(Heard(m)) = 1
    THEN m.state[CHOOSE src \in Heard(m) : TRUE][2]
    ELSE "STOPPED"

MotorRequests(m) ==
    CASE MotorFor(m) = m.motor     -> <<>>
      [] MotorFor(m) # m.motor /\ MotorFor(m) = "STOPPED" -> <<Release("PowerWindow", "motor")>>
      [] OTHER                     -> <<Claim("PowerWindow", "motor", Medium, MotorFor(m))>>

WindowGoesOn(s, m) ==
    ReactClaiming("window", s, [m EXCEPT !.motor = MotorFor(m)], <<>>, MotorRequests(m))

WindowReads(s) ==
    /\ ReadsInTurn("window", WindowOrder, s)
    /\ \A src \in Sources : mem["window"].timer[src] # 0

WindowFindsStuck ==
    /\ Runs("window")
    /\ \E src \in Sources : mem["window"].timer[src] = 0
    /\ LET m     == mem["window"]
           stuck == {src \in Sources : m.timer[src] = 0}
           n     == [m EXCEPT !.state = [src \in Sources |-> IF src \in stuck THEN Stuck ELSE @[src]],
                              !.timer = [src \in Sources |-> IF src \in stuck THEN Off ELSE @[src]]]
       IN  ActClaiming("window", [n EXCEPT !.motor = MotorFor(n)], <<>>, MotorRequests(n))

\* on_detent
WindowHearsDetent(src) ==
    /\ WindowReads(Of("detent", src))
    /\ LET d == Val("window", Of("detent", src))
           m == mem["window"]
       IN  WindowGoesOn(Of("detent", src), ResolvedConflict(
                [m EXCEPT !.detent[src] = d,
                          !.state[src]  = Switched(@, d),
                          !.timer[src]  = CASE d = Neutral -> Off
                                            [] d # Neutral /\ m.detent[src] = Neutral -> StuckTime
                                            [] OTHER -> @]))

WindowHearsPosition ==
    /\ WindowReads("position")
    /\ LET p == Val("window", "position")
           ended == {x \in {<<"Auto", "UP">>, <<"Auto", "DOWN">>} :
                        p = (IF x[2] = "UP" THEN Travel ELSE 0)}
       IN  WindowGoesOn("position",
                [mem["window"] EXCEPT !.state = [src \in Sources |-> IF @[src] \in ended THEN Idle ELSE @[src]]])

WindowHearsChildLock ==
    /\ WindowReads("child")
    /\ LET v == Val("window", "child") IN
        IF v = mem["window"].child
        THEN Passes("window", "child")
        ELSE WindowGoesOn("child", ResolvedConflict([mem["window"] EXCEPT !.child = v]))

WindowHearsPower ==
    /\ WindowReads("dap")
    /\ LET v == Val("window", "dap")
           m == [mem["window"] EXCEPT !.dap = v]
       IN  WindowGoesOn("dap",
                IF v \/ v = mem["window"].dap THEN m
                ELSE [m EXCEPT !.state = [src \in Sources |-> Idle],
                               !.timer = [src \in Sources |-> Off]])

\* WindowPlant.run_window; it ticks while its motor runs, at an end stop too.
GlassHears ==
    /\ Reads("glass", "motor")
    /\ LET dir == Val("glass", "motor") IN
        React("glass", "motor",
              [mem["glass"] EXCEPT !.dir = dir,
                                   !.timer.tick = CASE dir = "STOPPED" -> Off
                                                    [] dir # "STOPPED" /\ @ = Off -> 1
                                                    [] OTHER -> @], <<>>)
    /\ UNCHANGED world

GlassMoves ==
    /\ Due("glass", "tick")
    /\ LET m == mem["glass"]
           p == IF m.dir = "UP" THEN Min({m.position + 1, Travel}) ELSE Max({m.position - 1, 0})
       IN  Act("glass", [m EXCEPT !.position = p, !.timer.tick = 1],
               IF p = m.position THEN <<>> ELSE << <<"position", p>> >>)
    /\ UNCHANGED world

Windows ==
    \/ WindowFindsStuck
    \/ \E src \in Sources : WindowHearsDetent(src)
    \/ WindowHearsPosition
    \/ WindowHearsChildLock
    \/ WindowHearsPower
    \/ GlassHears
    \/ GlassMoves

-----------------------------------------------------------------------------
(* The sunroof.  Its plant counts fifths of what it publishes, and a tick  *)
(* moves two of them.                                                      *)

Panels == {"roof", "shade"}

\* on_position
Arrived(m) ==
    IF \/ m.state = <<"Auto", "OPEN">> /\ \A p \in Panels : m.at[p] = FullPct
       \/ m.state = <<"Auto", "CLOSE">> /\ \A p \in Panels : m.at[p] = 0
    THEN [m EXCEPT !.state = Idle] ELSE m

\* The roof moves first.
CommandsRoofFirst(m) ==
    LET moving == Moving(m.state)
        goal   == IF m.state[2] = "OPEN" THEN FullPct ELSE 0
        dir    == m.state[2]
    IN  CASE moving /\ m.at["roof"] # goal -> [roof |-> dir, shade |-> "STOP"]
          [] moving /\ m.at["roof"] = goal /\ m.at["shade"] # goal -> [roof |-> "STOP", shade |-> dir]
          [] OTHER -> [roof |-> "STOP", shade |-> "STOP"]

\* drive: the shade opens before the roof and closes after it.
Commands(m) ==
    LET opens  == Moving(m.state) /\ m.state[2] = "OPEN"
        closes == Moving(m.state) /\ m.state[2] = "CLOSE"
    IN  CASE opens /\ m.at["shade"] < FullPct -> [roof |-> "STOP", shade |-> "OPEN"]
          [] opens /\ m.at["shade"] >= FullPct /\ m.at["roof"] < FullPct ->
                [roof |-> "OPEN", shade |-> "STOP"]
          [] closes /\ m.at["roof"] > 0 -> [roof |-> "CLOSE", shade |-> "STOP"]
          [] closes /\ m.at["roof"] = 0 /\ m.at["shade"] > 0 -> [roof |-> "STOP", shade |-> "CLOSE"]
          [] OTHER -> [roof |-> "STOP", shade |-> "STOP"]

CommandNews(m) ==
    LET c == Commands(m)
        news(p) == IF c[p] = m.last[p] THEN <<>> ELSE << <<Of("move", p), c[p]>> >>
    IN  news("roof") \o news("shade")

RoofSwitchGoesOn(s, m) ==
    /\ React("roofSwitch", s, [m EXCEPT !.last = Commands(m)], CommandNews(m))
    /\ UNCHANGED world

RoofSwitchHears ==
    /\ Reads("roofSwitch", "roofDetent")
    /\ RoofSwitchGoesOn("roofDetent",
            [mem["roofSwitch"] EXCEPT !.state = Switched(@, Val("roofSwitch", "roofDetent"))])

RoofSwitchSees(p) ==
    /\ Reads("roofSwitch", Of("at", p))
    /\ RoofSwitchGoesOn(Of("at", p),
            Arrived([mem["roofSwitch"] EXCEPT !.at[p] = Val("roofSwitch", Of("at", p))]))

\* pct: a fraction of a percent is rounded.
Pct(pos) == (2 * pos + 5) \div 10

\* What a motor moves in a tick.
RoofStep == 2

\* save_to_nvm
SavesRoof(m) == [world EXCEPT !.saved.roof = [p \in Panels |-> Pct(m.pos[p])]]

\* The motors tick every 20 ms while one of them runs.
Ticking(m) ==
    [m EXCEPT !.timer.tick = CASE \A p \in Panels : m.dir[p] = "STOP" -> Off
                               [] @ = Off                             -> 1
                               [] OTHER                               -> @]

RoofHears(p) ==
    /\ Reads("roof", Of("move", p))
    /\ LET m == [mem["roof"] EXCEPT !.dir[p] = Val("roof", Of("move", p))]
       IN  /\ React("roof", Of("move", p), Ticking(m), <<>>)
           /\ world' = IF m.dir[p] = "STOP" THEN SavesRoof(m) ELSE world

\* Motor.tick, of both motors.
RoofMoves ==
    /\ Due("roof", "tick")
    /\ LET m     == mem["roof"]
           to(p) == CASE m.dir[p] = "OPEN"  -> Min({m.pos[p] + RoofStep, 5 * FullPct})
                      [] m.dir[p] = "CLOSE" -> Max({m.pos[p] - RoofStep, 0})
                      [] OTHER              -> m.pos[p]
           stop(p) == to(p) = (IF m.dir[p] = "OPEN" THEN 5 * FullPct ELSE 0)
           n     == [m EXCEPT !.pos = [p \in Panels |-> to(p)],
                              !.dir = [p \in Panels |-> IF stop(p) THEN "STOP" ELSE @[p]],
                              !.shown = [p \in Panels |-> Pct(to(p))],
                              !.timer.tick = 1]
           news(p) == IF Pct(to(p)) = m.shown[p] THEN <<>> ELSE << <<Of("at", p), Pct(to(p))>> >>
       IN  /\ Act("roof", Ticking(n), news("roof") \o news("shade"))
           /\ world' = IF \E p \in Panels : m.dir[p] # "STOP" /\ n.dir[p] = "STOP"
                       THEN SavesRoof(n) ELSE world

Sunroof == RoofSwitchHears \/ RoofMoves \/ (\E p \in Panels : RoofSwitchSees(p) \/ RoofHears(p))

-----------------------------------------------------------------------------
(* The mirrors.                                                            *)

\* apply_target: only sides that are not seen there are told.
Folds(s, m, target) ==
    /\ React("fold", s, [m EXCEPT !.intent = target],
             LET told(side) == IF m.seen[side] = target THEN <<>> ELSE << <<Of("foldCmd", side), target>> >>
             IN  told("left") \o told("right"))
    /\ world' = [world EXCEPT !.saved.intent = target]

FoldHearsSwitch ==
    /\ Reads("fold", "foldSwitch")
    /\ LET v == Val("fold", "foldSwitch")
           m == [mem["fold"] EXCEPT !.pressed = v]
       IN  IF v /\ ~mem["fold"].pressed /\ bus["foldMode"] # "OFF"
           THEN Folds("foldSwitch", m, ~m.intent)
           ELSE React("fold", "foldSwitch", m, <<>>) /\ UNCHANGED world

FoldHearsLock ==
    /\ Reads("fold", "status")
    /\ LET v == Val("fold", "status")
           m == [mem["fold"] EXCEPT !.status = v]
       IN  IF v # mem["fold"].status /\ bus["foldMode"] = "AUTO"
           THEN Folds("status", m, v \in Locked)
           ELSE React("fold", "status", m, <<>>) /\ UNCHANGED world

FoldSees(side) ==
    /\ Reads("fold", Of("folded", side))
    /\ React("fold", Of("folded", side),
             [mem["fold"] EXCEPT !.seen[side] = Val("fold", Of("folded", side))], <<>>)
    /\ UNCHANGED world

\* handle_cmd
MirrorHears(side) ==
    /\ Reads("mirrors", Of("foldCmd", side))
    /\ LET v == Val("mirrors", Of("foldCmd", side))
           m == mem["mirrors"]
       IN  React("mirrors", Of("foldCmd", side),
                 IF m.timer[side] = Off /\ m.folded[side] = v THEN m
                 ELSE [m EXCEPT !.goal[side] = v, !.timer[side] = Settle], <<>>)
    /\ UNCHANGED world

\* process_settles
MirrorSettles(side) ==
    /\ Due("mirrors", side)
    /\ LET m == mem["mirrors"]
           n == [m EXCEPT !.folded[side] = m.goal[side], !.timer[side] = Off]
       IN  /\ Act("mirrors", n, IF n.folded = m.folded THEN <<>>
                                ELSE << <<Of("folded", side), n.folded[side]>> >>)
           /\ world' = [world EXCEPT !.saved.folded = n.folded]

\* resolve: the selected mirror is told the direction, the other none.
AdjustHears(s) ==
    /\ Reads("adjust", s)
    /\ LET m == [mem["adjust"] EXCEPT ![s] = Val("adjust", s)]
           cmd(side) == IF m.select = side THEN m.direction ELSE "NONE"
       IN  React("adjust", s, m,
                 IF m = mem["adjust"] THEN <<>>
                 ELSE << <<Of("aimCmd", "left"), cmd("left")>>, <<Of("aimCmd", "right"), cmd("right")>> >>)
    /\ UNCHANGED world

AimHears(side) ==
    /\ Reads("aim", Of("aimCmd", side))
    /\ LET m == [mem["aim"] EXCEPT !.dir[side] = Val("aim", Of("aimCmd", side))]
       IN  React("aim", Of("aimCmd", side),
                 [m EXCEPT !.timer.tick = IF \A x \in Sides : m.dir[x] = "NONE" THEN Off ELSE 1], <<>>)
    /\ UNCHANGED world

\* integrate_and_publish
AimMoves ==
    /\ Due("aim", "tick")
    /\ LET m == mem["aim"]
           tilt(side) == CASE m.dir[side] = "UP"   -> Min({m.tilt[side] + 1, Reach})
                           [] m.dir[side] = "DOWN" -> Max({m.tilt[side] - 1, -Reach})
                           [] OTHER                -> m.tilt[side]
           yaw(side)  == CASE m.dir[side] = "RIGHT" -> Min({m.yaw[side] + 1, Reach})
                           [] m.dir[side] = "LEFT"  -> Max({m.yaw[side] - 1, -Reach})
                           [] OTHER                 -> m.yaw[side]
       IN  Act("aim", [m EXCEPT !.tilt = [x \in Sides |-> tilt(x)], !.yaw = [x \in Sides |-> yaw(x)],
                                !.timer.tick = 1],
               SetToSeq({<<Of("tilt", x), tilt(x)>> : x \in {y \in Sides : tilt(y) # m.tilt[y]}}
                        \cup {<<Of("yaw", x), yaw(x)>> : x \in {y \in Sides : yaw(y) # m.yaw[y]}}))
    /\ UNCHANGED world

Mirrors ==
    \/ FoldHearsSwitch
    \/ FoldHearsLock
    \/ \E side \in Sides :
        FoldSees(side) \/ MirrorHears(side) \/ MirrorSettles(side) \/ AimHears(side)
    \/ \E s \in {"select", "direction"} : AdjustHears(s)
    \/ AimMoves

\* What each task follows, and its variables when it starts.
WindowTask(b) ==
    [follows |-> OfAll("detent", Sources) \cup {"position", "child", "dap"},
     mem |-> [state |-> [x \in Sources |-> Idle], detent |-> [x \in Sources |-> Neutral],
              child |-> b["child"], dap |-> b["dap"], motor |-> "STOPPED",
              timer |-> Timers(Sources)]]

GlassTask ==
    [follows |-> {"motor"},
     mem |-> [position |-> 0, dir |-> "STOPPED", timer |-> Timers({"tick"})]]

RoofSwitchTask ==
    [follows |-> {"roofDetent"} \cup OfAll("at", Panels),
     mem |-> [state |-> Idle, at |-> [p \in Panels |-> 0], last |-> [p \in Panels |-> None],
              timer |-> NoTimer]]

RoofTask(saved) ==
    [follows |-> OfAll("move", Panels),
     mem |-> [pos |-> [p \in Panels |-> 5 * saved.roof[p]], shown |-> saved.roof,
              dir |-> [p \in Panels |-> "STOP"], timer |-> Timers({"tick"})]]

FoldTask(saved) ==
    [follows |-> {"foldSwitch", "status"} \cup OfAll("folded", Sides),
     mem |-> [pressed |-> FALSE, status |-> "UNLOCKED", intent |-> saved.intent,
              seen |-> [x \in Sides |-> FALSE], timer |-> NoTimer]]

MirrorsTask(saved) ==
    [follows |-> OfAll("foldCmd", Sides),
     mem |-> [folded |-> saved.folded, goal |-> saved.folded, timer |-> Timers(Sides)]]

AdjustTask ==
    [follows |-> {"select", "direction"},
     mem |-> [select |-> "NONE", direction |-> "NONE", timer |-> NoTimer]]

AimTask ==
    [follows |-> OfAll("aimCmd", Sides),
     mem |-> [dir |-> [x \in Sides |-> "NONE"], tilt |-> [x \in Sides |-> 0],
              yaw |-> [x \in Sides |-> 0], timer |-> Timers({"tick"})]]

ClosuresStep == Windows \/ Sunroof \/ Mirrors
=============================================================================
