---------------------------- MODULE MCFeatures ----------------------------
(***************************************************************************)
(* Instances of Features for TLC: each team runs the tasks of one or two   *)
(* features with what surrounds them.                                      *)
(***************************************************************************)
EXTENDS Features

Quiet ==
    [tasks |-> {}, bus |-> <<>>, placed |-> [k \in Keys |-> "Out"], offers |-> {}, moves |-> {},
     orders |-> {}, polls |-> FALSE, radio |-> {}, reboots |-> FALSE, budget |-> 3]

At(z) == [k \in Keys |-> z]

Both(s) == {<<s, FALSE>>, <<s, TRUE>>}

Power == {<<"ignition", "OFF">>, <<"ignition", "ON">>}

-----------------------------------------------------------------------------
(* The lock features.                                                      *)

EntryTeams ==
    [smart |-> [Quiet EXCEPT
        !.tasks = {"smart"}, !.placed = At("Cabin"), !.offers = Power,
        !.moves = {"fob"} \X {"Cabin", "Left"},
        !.orders = {<<"PhoneApp", "LockAll">>, <<"KeyfobRke", "LockAll">>}],
     pop |-> [Quiet EXCEPT
        !.tasks = {"pop", "trunk"}, !.placed = At("TrunkInside"),
        !.offers = {<<"ignition", "ON">>, <<"valet", TRUE>>, <<"closeCmd", TRUE>>, <<"openCmd", TRUE>>},
        !.moves = {"fob"} \X {"TrunkInside", "Left"},
        !.orders = {<<"PhoneApp", "LockAll">>, <<"PhoneApp", "UnlockAll">>}],
     walk |-> [Quiet EXCEPT
        !.tasks = {"walk"}, !.placed = At("Cabin"), !.polls = TRUE, !.offers = Both("open"),
        !.moves = ({"fob"} \X {"Approach", "Out"}) \cup ({"phone"} \X {"TrunkInside", "Out"}),
        !.budget = 6],
     pad |-> [Quiet EXCEPT
        !.tasks = {"pad"}, !.placed = At("Left"), !.offers = Both("leftPad") \cup {<<"rightPad", TRUE>>},
        !.moves = {"fob"} \X {"Cabin", "Left"}],
     button |-> [Quiet EXCEPT
        !.tasks = {"button", "trunk"}, !.placed = At("Trunk"), !.bus = [status |-> "LOCKED"],
        !.offers = Both("button") \cup {<<"valet", TRUE>>, <<"closeCmd", TRUE>>},
        !.moves = {"fob"} \X {"Trunk", "Out"}, !.orders = {<<"PhoneApp", "UnlockAll">>}],
     lost |-> [Quiet EXCEPT
        !.tasks = {"lost"}, !.placed = [fob |-> "Cabin", phone |-> "Out"],
        !.offers = Power \cup Both("open") \cup Both("trunkOpen"), !.moves = {"fob"} \X {"Cabin", "Out"}],
     passive |-> [Quiet EXCEPT
        !.tasks = {"passive", "peps"}, !.placed = [fob |-> "Left", phone |-> "Right"],
        !.bus = [status |-> "LOCKED", rearHandles |-> TRUE],
        !.offers = Both("handle.driver") \cup {<<"handle.passenger", TRUE>>, <<"handle.rear", TRUE>>},
        !.moves = {"fob"} \X {"Cabin", "Left"}],
     fob |-> [Quiet EXCEPT
        !.tasks = {"peps"}, !.placed = At("Left"), !.moves = {"fob"} \X {"Left", "Out"},
        !.offers = {<<"button.fob", "LOCK">>, <<"button.fob", "NONE">>}],
     rke |-> [Quiet EXCEPT
        !.tasks = {"rke", "trunk"}, !.bus = [panicMode |-> "Double"],
        !.radio = {"LOCK", "UNLOCK", "TRUNK_RELEASE", "PANIC_ALARM"} \X {0, 2, 6}],
     slam |-> [Quiet EXCEPT
        !.tasks = {"slam", "trim"}, !.bus = [open |-> TRUE],
        !.offers = Both("lock.left") \cup {<<"lock.right", TRUE>>, <<"unlock.left", TRUE>>},
        !.orders = {<<"PhoneApp", "LockAll">>}, !.budget = 2],
     taps |-> [Quiet EXCEPT
        !.tasks = {"nfc", "auth", "release"},
        !.offers = ({"tap.NfcCard"} \X {"DriverHandle", "PushButton", "NotPresent"})
                   \cup ({"tap.NfcPhone"} \X {"DriverHandle", "PushButton"})
                   \cup {<<"trunkSwitch", TRUE>>},
        !.orders = {<<"PhoneApp", "LockAll">>, <<"KeyfobRke", "LockAll">>}]]

-----------------------------------------------------------------------------
(* The lights.                                                             *)

LightTeams ==
    [turn |-> [Quiet EXCEPT
        !.tasks = {"turn", "relay", "hazard"}, !.bus = [ignition |-> "ON"],
        !.offers = ({"stalk"} \X {"OFF", "left", "right"}) \cup Both("hazardSwitch")
                   \cup Power \cup {<<"defect.left", TRUE>>}],
     flash |-> [Quiet EXCEPT
        !.tasks = {"flash", "relay", "hazard", "sounder"}, !.bus = [trunkOpen |-> TRUE],
        !.offers = ({"feedback"} \X {"lock", "trunk_unlock", "mislock", "lock_denied"})
                   \cup {<<"trunkOpen", FALSE>>, <<"locked", TRUE>>, <<"open", TRUE>>, <<"hazardSwitch", TRUE>>},
        !.budget = 2],
     welcome |-> [Quiet EXCEPT
        !.tasks = {"welcome"}, !.moves = {"fob"} \X {"Approach", "Out"},
        !.offers = Power \cup {<<"ignition", "ACC">>} \cup Both("open")],
     farewell |-> [Quiet EXCEPT
        !.tasks = {"farewell", "dome", "assist"}, !.bus = [ignition |-> "ON", lux |-> 1],
        !.offers = Power \cup Both("open") \cup {<<"lux", 2>>, <<"status", "LOCKED">>, <<"status", "UNLOCKED">>}
                   \cup ({"domeSwitch"} \X {"OFF", "DOOR", "ON"}), !.budget = 4],
     home |-> [Quiet EXCEPT
        !.tasks = {"home", "beams", "autoBeam", "dayNight"},
        !.bus = [ignition |-> "ON", lux |-> 0, lightSwitch |-> "AUTO", highSwitch |-> TRUE],
        !.offers = Power \cup Both("open") \cup Both("oncoming")
                   \cup {<<"lux", 2>>, <<"lightSwitch", "POSITION">>, <<"highSwitch", FALSE>>}, !.budget = 4],
     small |-> [Quiet EXCEPT
        !.tasks = {"fog", "rearLamps", "honk", "led", "brake"},
        !.offers = Power \cup Both("frontSwitch") \cup Both("hornSwitch")
                   \cup {<<"rearSwitch", TRUE>>, <<"pedalPressed", TRUE>>, <<"gear", -1>>,
                         <<"duty", 120>>, <<"pedal", 3>>, <<"pedal", 5>>, <<"pedal", 2>>}]]

-----------------------------------------------------------------------------
(* What opens and moves.                                                   *)

Detents == {Neutral} \cup ({"HOLD", "AUTO"} \X {"UP", "DOWN"})

ClosureTeams ==
    [window |-> [Quiet EXCEPT
        !.tasks = {"window", "glass", "accessory"}, !.bus = [ignition |-> "ON", dap |-> TRUE],
        !.offers = {"detent.driver", "detent.local"} \X Detents \cup Both("child") \cup {<<"ignition", "OFF">>}],
     later |-> [Quiet EXCEPT
        !.tasks = {"window", "accessory"}, !.bus = [ignition |-> "ON", dap |-> TRUE],
        !.offers = {<<"detent.driver", <<"AUTO", "UP">>>>, <<"detent.driver", Neutral>>, <<"open", TRUE>>} \cup Power],
     roof |-> [Quiet EXCEPT
        !.tasks = {"roofSwitch", "roof"}, !.reboots = TRUE,
        !.offers = {"roofDetent"} \X ({Neutral} \cup ({"HOLD", "AUTO"} \X {"OPEN", "CLOSE"})), !.budget = 3],
     mirrors |-> [Quiet EXCEPT
        !.tasks = {"fold", "mirrors"}, !.reboots = TRUE,
        !.offers = Both("foldSwitch") \cup {<<"status", "LOCKED">>, <<"status", "UNLOCKED">>}, !.budget = 3],
     aim |-> [Quiet EXCEPT
        !.tasks = {"adjust", "aim"},
        !.offers = ({"select"} \X {"NONE", "left", "right"}) \cup ({"direction"} \X {"NONE", "UP", "DOWN", "LEFT", "RIGHT"})],
     door |-> [Quiet EXCEPT
        !.tasks = {"door", "childPower"}, !.bus = [isLocked |-> TRUE, soldier |-> FALSE],
        !.offers = Both("insideHandle") \cup Both("outsideHandle") \cup Both("childPress") \cup Both("soldier")
                   \cup Both("double") \cup {<<"closeDoor", TRUE>>, <<"isLocked", FALSE>>}],
     knob |-> [Quiet EXCEPT
        !.tasks = {"door", "locks"},
        !.offers = {<<"outsideHandle", TRUE>>, <<"closeDoor", TRUE>>},
        !.orders = {"PhoneApp"} \X {"LockAll", "UnlockAll"}],
     super |-> [Quiet EXCEPT
        !.tasks = {"door", "locks"},
        !.bus = [isLocked |-> TRUE, soldier |-> FALSE, status |-> "LOCKED"],
        !.offers = {<<"doorOpen", TRUE>>, <<"closeDoor", TRUE>>},
        !.orders = {"PhoneApp"} \X {"UnlockAll", "UnlockDriver", "DoubleLockAll"}],
     hood |-> [Quiet EXCEPT
        !.tasks = {"hood"}, !.reboots = TRUE,
        !.offers = Both("hoodPull") \cup {<<"hoodOpen", TRUE>>, <<"hoodClose", TRUE>>}, !.budget = 5]]

AllTeams == EntryTeams @@ LightTeams @@ ClosureTeams

\* For the disagreements with the documents.
ChildTeams == [door |-> ClosureTeams["door"]]
=============================================================================
