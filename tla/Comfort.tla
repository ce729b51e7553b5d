------------------------------- MODULE Comfort -------------------------------
(***************************************************************************)
(* The lighting and body features of Courtesy, Closures and DoorHandle     *)
(* together: what each task follows, what it starts with, and what must    *)
(* hold of them.                                                           *)
(***************************************************************************)
EXTENDS Courtesy, Closures, DoorHandle

ComfortTasks ==
    {"relay", "turn", "hazard", "flash", "welcome", "farewell", "home", "dome", "assist", "beams",
     "autoBeam", "fog", "rearLamps", "honk", "accessory", "sounder", "led", "dayNight", "brake",
     "window", "glass", "roofSwitch", "roof", "fold", "mirrors", "adjust", "aim", "door",
     "locks", "childPower", "hood"}

\* The files of a new car.
FactoryState ==
    [roof |-> [p \in Panels |-> 0], folded |-> [x \in Sides |-> FALSE], intent |-> FALSE,
     hood |-> "LATCHED"]

\* Task t as it starts when it has read what b holds and its file.
ComfortTask(t, b, saved) ==
    CASE t = "relay"      -> RelayTask
      [] t = "turn"       -> TurnTask(b)
      [] t = "hazard"     -> HazardTask
      [] t = "flash"      -> FlashTask(b)
      [] t = "welcome"    -> WelcomeTask(b)
      [] t = "farewell"   -> FarewellTask(b)
      [] t = "home"       -> HomeTask(b)
      [] t = "dome"       -> DomeTask(b)
      [] t = "assist"     -> AssistTask(b)
      [] t = "beams"      -> BeamsTask(b)
      [] t = "autoBeam"   -> AutoBeamTask
      [] t = "honk"       -> HonkTask
      [] t = "fog"        -> FogTask(b)
      [] t = "rearLamps"  -> RearLampsTask(b)
      [] t = "accessory"  -> AccessoryTask(b)
      [] t = "sounder"    -> SounderTask
      [] t = "led"        -> LedTask
      [] t = "dayNight"   -> DayNightTask
      [] t = "brake"      -> BrakeTask
      [] t = "window"     -> WindowTask(b)
      [] t = "glass"      -> GlassTask
      [] t = "roofSwitch" -> RoofSwitchTask
      [] t = "roof"       -> RoofTask(saved)
      [] t = "fold"       -> FoldTask(saved)
      [] t = "mirrors"    -> MirrorsTask(saved)
      [] t = "adjust"     -> AdjustTask
      [] t = "aim"        -> AimTask
      [] t = "door"       -> DoorTask(b)
      [] t = "locks"      -> LocksTask(b)
      [] t = "childPower" -> ChildPowerTask(b)
      [] t = "hood"       -> HoodTask(saved)

\* What the signals of these features hold before anything has happened.
ComfortSignals ==
    [stalk |-> "OFF", hazardSwitch |-> FALSE, locked |-> FALSE, chirp |-> TRUE, lux |-> 2,
     domeSwitch |-> "OFF", lightSwitch |-> "OFF", highSwitch |-> FALSE, oncoming |-> FALSE,
     frontSwitch |-> FALSE, rearSwitch |-> FALSE, frontFog |-> FALSE, rearFog |-> FALSE,
     pedalPressed |-> FALSE, gear |-> 0, brakeLamp |-> FALSE, reverseLamp |-> FALSE,
     hornSwitch |-> FALSE, dap |-> FALSE, sounding |-> FALSE, duty |-> 0, intensity |-> 0,
     mode |-> "DAY", pedal |-> 0, applied |-> FALSE, approachKeys |-> 0, approachInterval |-> PollFast,
     position |-> 0, child |-> FALSE, roofDetent |-> Neutral, foldSwitch |-> FALSE,
     foldMode |-> "AUTO", select |-> "NONE", direction |-> "NONE", isLocked |-> FALSE,
     double |-> FALSE, doorOpen |-> FALSE, latch |-> TRUE, insideHandle |-> FALSE,
     outsideHandle |-> FALSE, soldier |-> TRUE, closeDoor |-> FALSE, childPress |-> FALSE,
     hoodPull |-> FALSE, hoodOpen |-> FALSE, hoodClose |-> FALSE, hoodLatch |-> "LATCHED"]

ComfortBus ==
    Over(ComfortSignals,
    Over([s \in Claimable |-> Unclaimed(s)],
    Over([s \in OfAll("lamp", Sides) \cup OfAll("defect", Sides) |-> FALSE],
    Over([s \in OfAll("foldCmd", Sides) \cup OfAll("folded", Sides) |-> FALSE],
    Over([s \in OfAll("detent", Sources) |-> Neutral],
    Over([s \in OfAll("at", Panels) \cup OfAll("tilt", Sides) \cup OfAll("yaw", Sides) |-> 0],
    Over([s \in OfAll("move", Panels) |-> "STOP"],
         [s \in OfAll("aimCmd", Sides) |-> "NONE"])))))))

ComfortTasksStep == LampsStep \/ CourtesyStep \/ ClosuresStep \/ DoorsStep

\* The process restarts: the tasks know what their files say, and read what the
\* plants and the door-lock arbiter publish at boot; nothing is claimed.
Reboots ==
    /\ world.budget > 0
    /\ DOMAIN mem \subseteq ComfortTasks
    /\ LET boot == Over([s \in Claimable |-> Unclaimed(s)],
                   [bus EXCEPT
                        ![Of("at", "roof")]      = world.saved.roof["roof"],
                        ![Of("at", "shade")]     = world.saved.roof["shade"],
                        ![Of("folded", "left")]  = world.saved.folded["left"],
                        ![Of("folded", "right")] = world.saved.folded["right"],
                        !["hoodLatch"]           = world.saved.hood])
           said == OfAll("at", Panels) \cup OfAll("folded", Sides) \cup {"status"}
       IN  /\ bus' = boot
           /\ mem' = [t \in DOMAIN mem |-> ComfortTask(t, boot, world.saved).mem]
           /\ unread' = [t \in DOMAIN mem |->
                [s \in DOMAIN unread[t] |-> IF s \in said THEN <<boot[s]>> ELSE <<>>]]
    /\ world' = [world EXCEPT !.budget = @ - 1, !.claims = [s \in Claimable |-> <<>>]]

-----------------------------------------------------------------------------
(* Properties.                                                             *)

\* As long as no lamp is broken, lamps that blink on both sides blink together,
\* whatever made each side blink and in whatever order.
SoundLampsBlinkTogether ==
    /\ Runs("relay")
    /\ CaughtUp("relay")
    /\ \A side \in Sides : /\ mem["relay"].signaling[side]
                           /\ ~mem["relay"].defect[side]
                           /\ mem["relay"].timer[side] # 0
    => mem["relay"].lamp["left"] = mem["relay"].lamp["right"]

\* No sleep runs but those of the indicators' relay and of Welcome's poll.
NothingIsTimed ==
    /\ \A t \in DOMAIN mem \ {"relay"} : CaughtUp(t)
    /\ \A t \in DOMAIN mem \ {"relay", "welcome"} :
        \A n \in DOMAIN mem[t].timer : mem[t].timer[n] = Off
    /\ Runs("welcome") => mem["welcome"].timer.hold = Off

\* The lights of a parked car go out: with the ignition off, the doors closed, the
\* dome switch not on and no hazard warning, only a light that is timed burns.
ParkedCarGoesDark ==
    /\ NothingIsTimed
    /\ ~Runs("dome") \/ mem["dome"].claimed # None
    /\ bus["ignition"] = "OFF" /\ ~bus["open"]
    /\ bus["domeSwitch"] # "ON" /\ ~bus["hazardSwitch"]
    => \A s \in Claimable \ {"horn", "motor"} : ~bus[s]

\* A window's motor stops before it turns the other way, whichever switches ask,
\* and whatever the child lock, the end stops and the power do meanwhile.
WindowStopsBeforeReversing ==
    [][{bus["motor"], bus'["motor"]} # {"UP", "DOWN"}]_vars

\* The roof opens under an open shade, whatever the switch asks for and also when the
\* car restarts in the middle of a move: but for the percent that rounding may hide,
\* a roof that is open has the whole shade open.
RoofOpensUnderOpenShade ==
    Runs("roof") /\ Pct(mem["roof"].pos["roof"]) > 1
    => Pct(mem["roof"].pos["shade"]) >= FullPct - 1

\* A door rests as the last command left it, and its knob shows it, although both plants
\* read their own and each other's publishes late, and although the handle plant
\* publishes the lock as it knows it when somebody closes the door meanwhile: provided
\* that a command finds them done with what was published before it, and that no door
\* was closed while the handle plant knew another lock than the bus and would not hear
\* the knob.
DoorRestsAsCommanded ==
    /\ Runs("locks") /\ Runs("door") /\ ~mem["locks"].excused /\ ~mem["door"].excused
    /\ world.orders = <<>>
    /\ CaughtUp("locks") /\ CaughtUp("door")
    => /\ bus["status"] = "UNLOCKED" => ~bus["isLocked"]
       /\ bus["status"] \in Locked => bus["isLocked"]
       /\ bus["status"] = "DOUBLE_LOCKED" => bus["double"]
       /\ bus["double"] => bus["status"] \in Locked
       /\ bus["soldier"] = ~bus["isLocked"]

\* A door opens while its child lock is known to hold only from outside.
ChildLockHolds ==
    [][Runs("door") /\ mem["door"].child /\ ~mem["door"].open /\ mem'["door"].open
        => mem'["door"].outside]_vars
=============================================================================
