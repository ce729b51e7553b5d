----------------------------- MODULE CentralLock -----------------------------
(***************************************************************************)
(* Central locking from the request to the doors: the arbiter of           *)
(* DoorLockArbiter together with                                           *)
(*   - the door-lock plant (src/vss-bridge/src/plant_models/door_lock.rs), *)
(*     which plays the Locking SWC: it executes the commands, publishes    *)
(*     every door's IsLocked and IsDoubleLocked, and subscribes to those   *)
(*     same signals so that its copies follow the bus;                     *)
(*   - DoubleLockRelease (features/double_lock_release.rs), which asks for *)
(*     ReleaseDouble whenever the ignition comes on;                       *)
(*   - the HMI's direct write of CENTRAL_LOCK_CMD (ws_bridge.rs).          *)
(*                                                                         *)
(* door_lock.json is written in every step that changes the plant's arrays,*)
(* so locked and double are also the file's contents.  The soldier knobs,  *)
(* which move when apply_lock_cmd changes a lock and not when a superlock  *)
(* does, are in DoorHandle; the canonical sibling paths repeat the signals *)
(* and are left out.                                                       *)
(***************************************************************************)
EXTENDS DoorLockArbiter

CONSTANTS
    Doors,             \* the four doors
    DriverDoor,        \* the one on the driver's side (driver_door_idx)
    DoubleLockRelease, \* FeatureId::DoubleLockRelease
    Ignition,          \* TRUE: the ignition is switched
    HmiCommands,       \* the commands the HMI writes to CENTRAL_LOCK_CMD
    Reboots,           \* TRUE: the stack may be rebooted
    EchoCap,           \* bound: values of one signal the plant has not seen yet
    MaxUpsets,         \* bound: upsets, see below
    SwcCap,            \* bound: commands the plant has not taken yet
    PowerCap           \* bound: power states DoubleLockRelease has not seen yet

ASSUME DoorsAssumption ==
    /\ DriverDoor \in Doors
    /\ [feature |-> DoubleLockRelease, command |-> "ReleaseDouble"] \in Request
    /\ HmiCommands \subseteq {"DoubleLockAll", "ReleaseDouble"}
    /\ {Ignition, Reboots} \subseteq BOOLEAN
    /\ MaxUpsets \in Nat

VARIABLES
    locked,     \* the plant's locked array
    double,     \* the plant's double_locked array
    lockedEcho, \* per door: values of IsLocked published and not yet seen back
    doubleEcho, \* per door: the same for IsDoubleLocked
    lockedBus,  \* per door: the value of IsLocked on the bus
    doubleBus,  \* per door: the value of IsDoubleLocked on the bus
    powerQ,     \* power states DoubleLockRelease has not seen yet
    lastWasOff, \* DoubleLockRelease's last_was_off
    orderly,    \* history: every ReleaseDouble was dispatched to a superlocked car,
                \* the HMI sent no command, no reboot cut an operation short, and the
                \* plant had seen its own publishes whenever it took a command
    upsets      \* history: commands taken early or sent by the HMI, and reboots

plantVars   == <<locked, double, lockedEcho, doubleEcho, lockedBus, doubleBus>>
releaseVars == <<powerQ, lastWasOff>>
lockVars    == <<vars, plantVars, releaseVars, orderly, upsets>>

-----------------------------------------------------------------------------
(* The plant.  A door whose copy already shows the wanted value is skipped  *)
(* (the dedup guards of apply_lock_cmd and apply_double_lock_cmd).          *)

UnlockedByWrongSide(c) ==
    {d \in Doors : locked[d] /\ (c = "UnlockAll" \/ (c = "UnlockDriver" /\ d # DriverDoor))}

UnlockedBy(c) ==
    {d \in Doors : locked[d] /\ (c = "UnlockAll" \/ (c = "UnlockDriver" /\ d = DriverDoor))}

SuperlockedBy(c) == {d \in Doors : ~double[d] /\ c = "DoubleLockAll"}

\* Superlocking locks.
ClosedBy(c) == {d \in Doors : ~locked[d] /\ c = "LockAll"} \cup SuperlockedBy(c)

ReleasedByItself(c) == {d \in Doors : double[d] /\ c = "ReleaseDouble"}

\* UnlockDriver also downgrades the doors that stay locked, so that their
\* interior handles work again.
ReleasedBy(c) ==
    {d \in Doors : double[d] /\ (c = "ReleaseDouble" \/ (c = "UnlockDriver" /\ d # DriverDoor))}

\* Unlocking clears the superlock.
DowngradedBy(c) == UnlockedBy(c) \cup ReleasedBy(c)

EchoesSeen == \A d \in Doors : lockedEcho[d] = <<>> /\ doubleEcho[d] = <<>>

EchoRoom == \A d \in Doors : Len(lockedEcho[d]) < EchoCap /\ Len(doubleEcho[d]) < EchoCap

\* The doors D take the value b: in the plant's copy, on the bus, and as an
\* echo the plant will see later.
Put(f, D, b) == [d \in Doors |-> IF d \in D THEN b ELSE f[d]]
Send(e, D, b) == [d \in Doors |-> IF d \in D THEN Append(e[d], b) ELSE e[d]]

\* One command; every door it changes is published.
Apply(c) ==
    /\ locked' = Put(Put(locked, UnlockedBy(c), FALSE), ClosedBy(c), TRUE)
    /\ lockedEcho' = Send(Send(lockedEcho, UnlockedBy(c), FALSE), ClosedBy(c), TRUE)
    /\ lockedBus' = Put(Put(lockedBus, UnlockedBy(c), FALSE), ClosedBy(c), TRUE)
    /\ double' = Put(Put(double, DowngradedBy(c), FALSE), SuperlockedBy(c), TRUE)
    /\ doubleEcho' = Send(Send(doubleEcho, DowngradedBy(c), FALSE), SuperlockedBy(c), TRUE)
    /\ doubleBus' = Put(Put(doubleBus, DowngradedBy(c), FALSE), SuperlockedBy(c), TRUE)

Upset == upsets < MaxUpsets /\ upsets' = upsets + 1

\* The plant takes the oldest command, applies it to the doors and
\* acknowledges it.
PlantCommand ==
    /\ EchoRoom
    /\ SwcComplete
    /\ Apply(Head(swc))
    /\ IF EchoesSeen THEN UNCHANGED <<upsets, orderly>> ELSE Upset /\ orderly' = FALSE
    /\ UNCHANGED releaseVars

\* The mirror subscriptions: the plant's copy follows the bus.  select! picks
\* any stream that has a value, so a command may overtake an echo.
SeeLocked(d) ==
    /\ lockedEcho[d] # <<>>
    /\ locked' = [locked EXCEPT ![d] = Head(lockedEcho[d])]
    /\ lockedEcho' = [lockedEcho EXCEPT ![d] = Tail(@)]
    /\ UNCHANGED <<vars, double, doubleEcho, lockedBus, doubleBus, releaseVars, orderly, upsets>>

SeeDouble(d) ==
    /\ doubleEcho[d] # <<>>
    /\ double' = [double EXCEPT ![d] = Head(doubleEcho[d])]
    /\ doubleEcho' = [doubleEcho EXCEPT ![d] = Tail(@)]
    /\ UNCHANGED <<vars, locked, lockedEcho, lockedBus, doubleBus, releaseVars, orderly, upsets>>

-----------------------------------------------------------------------------
(* DoubleLockRelease and the HMI.                                          *)

SwitchIgnition(v) ==
    /\ Ignition
    /\ Len(powerQ) < PowerCap
    /\ powerQ' = Append(powerQ, v)
    /\ UNCHANGED <<vars, plantVars, lastWasOff, orderly, upsets>>

\* The first "on" after an "off" requests ReleaseDouble, whatever the doors'
\* state; the request waits for room in the arbiter's channel.
SeePower ==
    /\ powerQ # <<>>
    /\ powerQ' = Tail(powerQ)
    /\ lastWasOff' = (Head(powerQ) = "off")
    /\ IF Head(powerQ) = "on" /\ lastWasOff
       THEN Submit([feature |-> DoubleLockRelease, command |-> "ReleaseDouble"])
       ELSE UNCHANGED vars
    /\ UNCHANGED <<plantVars, orderly, upsets>>

\* The HMI's superlock toggle writes the arbiter's command signal itself.
HmiCommand(c) ==
    /\ Len(swc) < SwcCap
    /\ swc' = Append(swc, c)
    /\ Upset
    /\ orderly' = FALSE
    /\ UNCHANGED <<queueVars, busVars, cmdQ, acks, plantVars, releaseVars>>

-----------------------------------------------------------------------------

ArbiterStep ==
    /\ \/ \E r \in Submittable : Submit(r)
       \/ HandleMessage
       \/ ForwardAck
       \/ Tick
    /\ orderly' = (orderly /\ ~(swc' # swc /\ swc' = <<"ReleaseDouble">> /\ status # "DOUBLE_LOCKED"))
    /\ UNCHANGED <<plantVars, releaseVars, upsets>>

\* Both sides of a reboot: publish_all puts the persisted door state on the
\* fresh bus, where the plant's own subscriptions see it.
LockReboot ==
    /\ Reboots
    /\ Upset
    /\ Reboot
    /\ lockedEcho' = [d \in Doors |-> <<locked[d]>>]
    /\ doubleEcho' = [d \in Doors |-> <<double[d]>>]
    /\ lockedBus' = locked
    /\ doubleBus' = double
    /\ powerQ' = <<>>
    /\ lastWasOff' = TRUE
    /\ orderly' = (orderly /\ active = None)
    /\ UNCHANGED <<locked, double>>

\* A vehicle parked unlocked, locked or superlocked, its files in agreement.
LockInit ==
    /\ Init
    /\ nvm \in {"UNLOCKED", "LOCKED", "DOUBLE_LOCKED"}
    /\ locked = [d \in Doors |-> nvm # "UNLOCKED"]
    /\ double = [d \in Doors |-> nvm = "DOUBLE_LOCKED"]
    /\ lockedEcho = [d \in Doors |-> <<locked[d]>>]
    /\ doubleEcho = [d \in Doors |-> <<double[d]>>]
    /\ lockedBus = locked
    /\ doubleBus = double
    /\ powerQ = <<>>
    /\ lastWasOff = TRUE
    /\ orderly = TRUE /\ upsets = 0

LockNext ==
    \/ ArbiterStep
    \/ PlantCommand
    \/ \E d \in Doors : SeeLocked(d) \/ SeeDouble(d)
    \/ \E v \in {"on", "off"} : SwitchIgnition(v)
    \/ SeePower
    \/ \E c \in HmiCommands : HmiCommand(c)
    \/ LockReboot

LockSpec == LockInit /\ [][LockNext]_lockVars

-----------------------------------------------------------------------------
(* Properties.                                                             *)

\* Nothing is on its way to or from the plant and the plant has seen its own
\* publishes.
Settled ==
    /\ cmdQ = <<>> /\ acks = 0 /\ swc = <<>>
    /\ active = None
    /\ EchoesSeen

\* The purpose of the mirror subscriptions: whatever the order in which
\* commands and echoes are taken, once a door's echoes have been seen the
\* plant's copy is the value every other subscriber sees.
MirrorAgrees ==
    \A d \in Doors :
        /\ lockedEcho[d] = <<>> => locked[d] = lockedBus[d]
        /\ doubleEcho[d] = <<>> => double[d] = doubleBus[d]

\* The doors are where the vehicle-level LockStatus says they are.
DoorsAreAsStatus ==
    CASE status = "UNLOCKED"        -> \A d \in Doors : ~lockedBus[d]
      [] status = "DRIVER_UNLOCKED" -> ~lockedBus[DriverDoor]
      [] status = "LOCKED"          -> \A d \in Doors : lockedBus[d]
      [] OTHER                      -> \A d \in Doors : lockedBus[d] /\ doubleBus[d]

\* When everything has settled after an orderly life, reboots between the
\* operations included, the doors are where LockStatus says they are.
DoorsFollowStatus == Settled /\ orderly => DoorsAreAsStatus

\* Once the driver's door has been released no door keeps a superlock, which
\* would block its interior handle.
NoSuperlockOnceOpen ==
    Settled /\ orderly /\ status \in {"UNLOCKED", "DRIVER_UNLOCKED"} => \A d \in Doors : ~doubleBus[d]

\* In an orderly life a superlocked door is a locked door at all times.
SuperlockIsLock == orderly => \A d \in Doors : double[d] => locked[d]

\* LockStatus LOCKED is a statement about the doors, not about the last
\* command: when everything has settled, they are locked.
LockedMeansLocked == Settled /\ status = "LOCKED" => \A d \in Doors : lockedBus[d]
=============================================================================
