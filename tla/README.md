# Verification of the body-controller bridge

TLA+ models of the `vss-bridge` (`vss-bridge/src/`), the service that runs the
body features of a car - locks, alarms, starting, lights, windows, keyless entry -
over a bus of VSS signals. TLC checks the models on small instances, TLAPS proves
theorems about them for every value of their constants.

## The system

One process on a multi-threaded tokio runtime. `main.rs` builds a bus, spawns
every component as a task and waits; a reboot request aborts all tasks, drops the
bus and builds everything again, so that only the JSON files of `nvm.rs`
survive. Components talk in four ways:

- **signals**: `publish` / `subscribe` on the bus, one stream per signal, with no
  order between the streams of different signals;
- **requests**: features send claims or commands through a bounded `mpsc` channel
  to an arbiter, which alone publishes the actuator signals;
- **acknowledgements**: the door-lock plant answers the door-lock arbiter through a
  channel and a forwarding task;
- **key searches**: features ask `KeySearchArbiter` through a channel and await a
  one-shot answer.

| Component (source) | State | Operations | What makes it correct |
|---|---|---|---|
| Bus (`adapters/mock.rs`) | latest value and broadcast channel per signal | publish, subscribe (replay, then live) | a subscriber ends with the latest value |
| Domain arbiters (`arbiter.rs`) | claims per signal and feature, closed gates, copy of what was published | request, release, gate change | the bus shows the highest, latest claim, or off behind a closed gate |
| Door lock arbiter (`arbiter.rs`) | active and pending request, crash lockout, event number, stored status | request, acknowledgement | one command in flight; latest wins; a crash unlock has the last word |
| Door lock plant (`plant_models/door_lock.rs`) | locked, double-locked per door, mirrored from the bus | command, echo, reboot | doors follow the vehicle-level status |
| AutoRelock (`features/auto_relock.rs`) | caches of status, requestor and doors; timer; phase | ten streams, expiry | relock only after an outside unlock, never open, locked or crashed |
| Alarms (`panic_alarm.rs`, `perimeter_alarm.rs`) | phase, timers, claims, shared flag | lock events, door edges, fob button, engine | armed iff locked; nothing stays switched on |
| Starting (`vehicle_starting_control.rs`, `transmission.rs`, start taps of `nfc_entry.rs`) | power, session, caches, gear | button, cylinder, brake, gear, key search, tap | no power without a key; a locked car is parked |
| Key searches (`key_search_arbiter.rs`) | zones, queue, coalescing cache | search, key moves | answers describe the present |
| Lock features (`rke.rs`, `passive_entry.rs`, `keypad_lock.rs`, `door_trim_button.rs`, `slam_lock.rs`, `walk_away_lock.rs`, `smart_unlock.rs`, `nfc_entry.rs`) | caches, windows of two presses, rolling codes, nonces, a search being awaited | buttons, handles, radio, taps, key moves, lock events | who may move the locks: a key at hand opens, no key is locked in, no fob is locked out |
| Keys (`key_lost_warning.rs`, `smart_trunk_pop.rs`, `exterior_trunk_button.rs`, `peps/`) | zones, missed searches, warning timer | periodic search, challenge, trunk events | warnings and pops follow where the keys are |
| Lights (`blink_relay.rs`, `turn_indicator.rs`, `hazard_lighting.rs`, `lock_feedback.rs`, courtesy and exterior lights) | phase, timer, claims | switches, doors, power, light sensor, expiry | a claim made is released; both sides blink together |
| Body (`power_window.rs`, `sunroof_control.rs`, mirrors, trunk, hood, `door_handle.rs`) | switch states, motors, positions, latches, files | detents, ticks, end stops, handles, restarts | a motor stops before it reverses; the roof needs its shade open; a child lock holds |
| Boot loop (`main.rs`) and files (`nvm.rs`, `config.rs`) | boot number, reboot counter, files and their temporary files | boot, reboot, save step by step, power cut | files are whole; what was applied is what the next boot runs on |
| Bridge (`ws_bridge.rs`, `hmi_alias.rs`) | copy of the bus, readiness gate, connections | subscribe, batch, snapshot, write, config_set, reboot | every HMI ends with what the bus and the configuration hold |
| Broker and frames (`kuksa_sync.rs`, `ipc_message.rs`), `sleep_inhibit.rs` | backoff; claims, guards, waiter | reconnect, update; encode, damage, parse; acquire, drop, reap | no damaged frame is taken for another; no claim keeps the car awake for ever |

Hard behaviours: every component is a `select!` (sometimes `biased`) over independent
streams, so the events of one cause arrive in any order; streams that a phase does
not read keep a backlog; timers race the events that cancel them; values are
cached, and used after an awaited search; arbiters queue; reboots lose everything
but the files; publishes and acknowledgements may fail or be repeated.
`PROJECT.json` lists the hazards line by line with the properties that cover them.

## The modules

Names follow the code. In every module a definition whose name describes a fault
(`KeepFirstPending`, `YieldReplayLazy`) is a deliberately wrong variant of the
definition after it: putting it in that definition's place must break a property,
which shows that the property watches the code.

    LockMotor <- - - DoorLockArbiter <---- CentralLock
      (implemented by)                      (+ plant, DoubleLockRelease, HMI)
    DomainArbiter    AutoRelock (+ lock chain, doors, crash, power)
    PanicAlarm <---- PerimeterAlarm (+ arbiter's signals, doors, fob, engine)
    KeySearch  <---- Starting (+ transmission, start taps, driver)

    Streams <- LockWorld <- KeyFeatures, CabinLocks, Peps <- PassiveEntry, Rke
                               (all of them) <- Entry
               LockWorld <- Claims <- Lamps <- Courtesy
                            Claims <- Closures, DoorHandle
                               (all of them) <- Comfort
                                Entry, Comfort <- Features

    Storage <- Calibration <- Bridge <- Platform -> SleepInhibit, Wire    MockBus

An arrow points to the module that is extended. The upper modules model a component
each with all its interleavings. The features of the second group are small and many;
they share one frame (`Streams`), and what they need of the upper components is
repeated there in the short form their subscribers see (`LockWorld`, `Claims`).

### DoorLockArbiter, LockMotor
`door_lock_loop` with its request channel (`cmdQ`), the SWC that executes (`swc`),
the acknowledgement channel and its forwarding task (`acks`, `ForwardAck`), the two
slots, the lockout, the three published values, the stored status and the reboot.
One loop iteration is one action (`HandleMessage`, a disjunction of the branches of
the `match`), because nothing else writes the loop's state; senders, the plant, the
forwarding task, the clock and the reboot interleave with it. `LockMotor` is the
abstract specification: a motor with one task at a time and silence after the start
of a crash task. `accepted` is a history variable: the last request not refused.

### CentralLock
Extends DoorLockArbiter with the plant: its `locked` and `double` arrays, the
values on the bus, and per door the queue of echoes that its own mirror
subscription has not yet delivered; the select over commands and echoes is
unordered. `DoubleLockRelease` sees power changes late. `HmiCommand` is the HMI's
direct write of the command signal. Two history variables: `upsets` counts, up to a
bound, what disturbs the plant (a command taken before its echoes, an HMI command, a
reboot); `orderly` says that so far every ReleaseDouble went to a superlocked car,
the HMI was silent, no reboot cut an operation short and no command overtook an
echo. Properties of the doors are stated for orderly lives; the mirror's theorem
for all lives, and the run `_release` shows what happens in others.

### DomainArbiter
`arbiter_loop` for any allow list, gates and defaults: claims are keyed by signal
and feature and carry a sequence number; `Publish` has the duplicate filter and may
fail on the signals of `Fallible`. Gate watchers are tasks with a stream of their
own and send into the same bounded channel as the features. `wants` is a history
variable: per signal and feature the standing request, with its place in the order
in which they were sent (`asked` counts them). One module stands for
the eight arbiters of the program, which differ in their tables only.

### AutoRelock
The three phases of `run` (idle select, armed select, `wait_for_power_cycle`), each
reading the streams the code reads in the order of its `biased` select; the arbiter
and plant that publish the signals of a command one by one; doors, crash and power
as environment with a `Budget` of events. Time advances one tick (seconds) at a
time; with `Prompt` ticks happen only when nothing is unread (milliseconds).
`KeepsUp` says that they do not hold the signals of two commands either. The ignition's
stream is read in the lockout only, so its backlog starts with the OFF of the boot.
History: `crash` is how far the ignition has come in its cycle since the crash, `cycle`
the same of what the feature is given to read, the backlog included.

### PanicAlarm, PerimeterAlarm
`PanicAlarm` is the fob's panic button: latch, cached flag, and the claims of its
pulse task. `PerimeterAlarm` extends it with the anti-theft alarm: the four states,
the eight sources of its biased loop in their order, the alarm task with chime,
horn and light phases (asleep for half a pulse, or ready), every way to stop it,
the message of its natural end and the handle that is then awaited. The two share
`Alarm.IsActive` and the press stream, which each reads at its own pace. The
door-lock arbiter publishes status, requestor and event number one by one. A pulse
is abstracted to the claims it makes, since a claim for off is a claim as well.
History: `lastCommand`, `watched` (how long the car has been in PRE_ARMED or
after), `excuse` (why a locked car need not be watched).

### KeySearch, Starting
`KeySearch` is the arbiter of searches: queue, coalescing cache with its window,
latency in ticks of 50 ms, the snapshot of the zones taken before the antennas
fire, coverage, and `LastObservedZone`. Per key, a task follows `PlacedZone` late.
`Starting` extends it with `VehicleStartingControl` for both key sources: its
unordered select, press and brake logic, the searches it awaits without reading
anything (`phase`), the session of the cylinder, the removal inhibit, the brake's
pre-authentication tasks; with the transmission's interlock, the start taps of
`NfcEntry` (bypass, then press, then the end of the bypass) and the driver. DRIVE
stands for every gear but PARK. `known` is a history variable of where the arbiter
had a key, `proof` records that a key or a tap justified a start.

The driver is slower than the tasks: a lever or a key moves when the tasks that are
not awaiting a search have read what came before (`Calm`), and the lever only while
no turn is being decided. Presses, brakes, keys, taps and searches of other features
come at any time. Which keys are paired does not change while the process runs,
because nothing in it publishes a Paired signal.

### MockBus
One signal: `publish` in two steps (map, broadcast), `subscribe` in two steps
(receiver, map), the replayed value and the lagging receiver. With two writers of
one signal the map and the broadcast may disagree on their order; the properties
are stated for one writer, which is how actuator signals are used. It is checked in
MCPlatform, as one team beside the bridge, whose bus is a map already.

### Streams, LockWorld, Claims
The frame of the feature models. A task is a record of its local variables (`mem`),
its sleeps (`mem[t].timer`) and the queues of what its subscriptions have not
delivered (`unread`); a handler is an action that takes one value, changes the
record and publishes. `Reads` is an unordered `select!`, `ReadsInTurn` a biased one. A
tick passes when every task has read its streams and every sleep that is over has
been handled: milliseconds against the tenths of seconds of the program's timers.
A task that awaits a search reads nothing meanwhile and may be late.

`LockWorld` has the door-lock arbiter as subscribers see it (three publishes per
command, others in between), the key search as requesters see it (zones copied at
some moment since the request, the answer later, coalescing), the trunk, and people
who move keys. A handle pull may share the answer of an equal search that has just ended
(`Coalesce`). `known` is history: where each key has been since a task asked, and where
it was when the search looked whose answer the task shares.
`Claims` serves the claims and releases of a handler at its end, in their order, and
publishes on change; loop, channel and failing publishes of an arbiter are in
DomainArbiter. Of the gates only valet mode is here (`TrunkPulse`).

### KeyFeatures, CabinLocks, Peps, PassiveEntry, Rke, Entry
The lock and key features, one task each with the loop of its source file. `Peps`
is the fobs: they answer a challenge, and send radio messages with a rolling code
while they are out of reach too; the MAC of a message is taken to be right for the key
that sends it, and `world.heard` is history: the codes heard of each. `Entry` composes them. Each behaviour runs one *team* (`Teams`):
some tasks, what the bus holds at first, and what may happen around them, `budget`
times: presses, doors, key moves, orders of other features, radio messages.

### Lamps, Courtesy, Closures, DoorHandle, Comfort, Features
Indicators with their relay and the two-sided blinking, the other lights, what opens
and moves with its plants and files, handle and hood. `DoorHandle` has one rear door
with both plants that publish its `IsLocked`: the lock plant, which moves the lock
and its knob when the arbiter commands it, and the handle plant, which follows the
knob and publishes the lock as it remembers it when the door is closed. `Reboots`
restarts a team's tasks from their files (`world.saved`). `Features` is Entry and
Comfort around one bus, with 26 teams in MCFeatures.

### Storage, Calibration, Bridge, Platform
`Storage` has a file as what its name and its temporary name stand for: contents,
synced or not, and the renames a power cut may undo. A save is four actions, each of
which may fail; any two tasks may save at once. `Calibration` is `PlatformConfig`: what
the boot read, what `config_set` changes, what an HMI is told and sends back.
`Bridge` has the subscribers, the batching broadcaster and every connection as a task
with its phases, its channels of `Room` messages, the job it is in (`config_set` in
its three steps, `reboot` with its saves) and what its HMI shows; `unseen` and
`late` say what a connection knows of the reboot channel. `Platform` composes them
with the boot loop, a plant model with a file, and the broker.

A team of MCPlatform says who is connected and what they do. In the teams about files
and requests, bus and connection start go first (`calm`): those steps commute with
the steps of the saves and of the reboot channel, so nothing is lost.

### SleepInhibit, Wire
Checked beside the stack, since `main.rs` wires neither. `SleepInhibit`: one action per
critical section of the claims' mutex. `Wire`: a frame is the sequence of its fields,
the CRC is what it was computed over; the link changes one field, the magic number and the
CRC excepted, and cuts no frame (the slice's length is checked before anything is read).

## Runs

| Run | What it shows | Instance |
|---|---|---|
| MCDoorLockArbiter | the latest accepted request wins, refinement of LockMotor (one in flight, silence during the lockout), crash unlocks are served | 2 permitted features and CrashUnlock, one without permission; channels of 3 and 1, lockout of 2 ticks, 4 event numbers, reboots |
| MCCentralLock | doors follow the status, no leftover superlock | 2 doors, two-stage fob, ignition, HMI, reboots, 1 upset |
| MCCentralLock_release | a disagreement, below | 2 doors |
| AutoRelock | armed only from outside; never relocks an open car; a crash lockout takes a power cycle, read from a backlog or not; a relock happens if nothing cancels | 1 door, a requestor of each kind, timeout 2, 6 events |
| AutoRelock_crash | a disagreement, below | as AutoRelock |
| MCDomainArbiter | end-to-end delivery also after failed publishes, gates obeyed | a gated lamp with 3 claimants at 2 priorities, a motor whose publishes fail, channel of 2, 4 claims |
| PerimeterAlarm | watched when locked, silent for the owner, grace period kept, nothing left on, alarms end | 3 requestors (owner, trim button, SlamLock), grace 1, phases 2, 2, 4 ticks, 4 events |
| MCStarting | no power without proof, no key overlooked, a locked car is parked, searches are answered | 1 key, both key sources, searches of 2 other features, 3 events (push button) or 4 (cylinder) |
| MCFeatures | no key locked in, handles open for a key that was found at hand, no fob locked out, a lost-key warning is timed, an open car rests unlocked, sides blink together, a parked car goes dark, motors stop before reversing, the roof needs its shade, a door rests as commanded | 26 teams of 1 to 5 tasks, a fob and a phone, 2 to 6 events |
| MCFeatures_child | a disagreement, below | the door's team |
| MCPlatform | whole files, edits reach a boot, old connections close, HMIs converge on bus and configuration, stuck claims expire, no frame mistaken, late and lagging subscribers of a signal catch up and no stream starts stale | 11 teams, 2 HMIs, 2 calibrations, 1 plant file, up to 4 requests, failures, power cuts or moves; for the signal 1 publisher, 2 subscribers, 5 values, capacity 2 |
| MCPlatform_apply | a disagreement, below | 1 HMI, 1 request, calibrations of its own |

A run named after its module (AutoRelock, PerimeterAlarm) checks that module itself, its
configuration giving every constant a value; the others have an MC module for theirs.

The bounds are the smallest for which the interesting cases happen: queues that
fill, a request that replaces a pending one while a crash unlock executes, an event
number that wraps, an unlock overtaken by the door it opened, an alarm that ends
while a press is unread, a receiver that lags twice, a search that queues behind
another one while the key leaves. Counters (`MaxEventNum`, `Budget`, `MaxValues`,
`MaxSeq`, `MaxUpsets`, `EchoCap`, `SwcCap`, `PowerCap`) are bounded by named
constants in the guards. In MCStarting the cylinder has its own `Places` (cylinder or
away) and a larger budget, since a start there takes a turn per position;
`BypassTicks` (13) is longer than the searches of the instance take one after the
other, as the 3 s of the code (60 ticks) are longer than a dozen of its searches of
up to 5 ticks. Were it not, `NoPowerWithoutKey` would fail: a control that awaits a
search does not read that a tap's bypass is over, and takes the press for proved.

MCFeatures has one team per feature or per group whose signals meet: two features
that share no signal and no claim cannot disturb each other, so their product would
repeat states only. Timers are scaled down to 1, 2 or 3 ticks, keeping which of two
expires first (`ComboWindow` < `PressWindow`, `PeriodDefect` < `PeriodNormal`); the
resync window of the rolling code (6) exceeds the normal one (2) by more than the
three codes a resync takes. In MCPlatform two values of a calibration, of
which the HMI is told one field and not the other, are what the properties tell
apart; three requests, of two HMIs and a boot, are enough for one to be overtaken.

**Deadlock** is checked except where a budget or a bound lets the environment stop for
good (`CHECK_DEADLOCK FALSE`
in AutoRelock, PerimeterAlarm, Starting, Features, Platform).

**Fairness.** Weak fairness of tasks that are ready to run (the runtime's
scheduling), of the plant that executes a command and of the clock; a gate
watcher that waits for room in a channel has strong fairness, because tokio serves
waiting senders in order. In PerimeterAlarm and Starting one fairness condition
covers all tasks and the clock together: their steps use up finite streams, so
progress of any of them is progress. Nothing is assumed of features, drivers or doors.
Features and Platform state no fairness: what must happen in the end is stated there of
the states in which nothing is left to do (`AtRest`, `NothingIsTimed`, `Quiet`) or as
"is being timed", which needs no fairness to be violated.

**Disagreements** (runs that expect a violation, each with its quotation under
`findings` in `PROJECT.json`):
- `MCCentralLock_release`: `ReleaseDouble` on a car that is not superlocked publishes
  LOCKED over open doors;
- `AutoRelock_crash`: an OFF and an ON of before the crash, which nobody has read, end the
  lockout at once, and the crashed car is relocked without a power cycle;
- `MCFeatures_child`: an inside handle held while the car is unlocked opens a
  child-locked door;
- `MCPlatform_apply`: applying one staged value resets the calibration's fields that
  the HMI is not told of.

**Met while modelling**, without a run of their own. Where a property excludes one of
these, its comment or its hazard says so.

- *Lock chain.* A stale echo overwrites the plant's state and the next command is
  dropped, though `door_lock.rs:560` calls echoes harmless. A superlock of an unlocked
  door leaves its knob up (`apply_double_lock_cmd` publishes none), which
  `docs/signal-ownership-and-state-hydration.md:15-18` calls inconsistent; and if the
  door is closed just then, the handle plant's late `IsLocked` leaves it superlocked
  and unlocked, since no knob corrects it (why `excused` has this case). The acknowledgement of an
  HMI command completes whatever operation the arbiter has in flight (why `orderly`
  excludes HMI commands). AutoRelock may pair a status with the requestor of another
  command when it falls behind (why the run assumes `KeepsUp`), and restarts its timer on
  any message.
- *Alarms.* An alarm that ended by itself leaves `Alarm.IsActive` TRUE, and the panic
  button dead, through every later lock cycle.
- *Starting.* A start tap may be read before its own bypass and refused; the end of a
  first tap's bypass cuts that of a second one short; a press that turns the car off
  searches for a key like any other, while
  `docs/key-search-arbiter-and-ignition.md:264` calls ON to OFF unconditional, and the
  search queue is first come, first served where that document has priority classes.
- *Lock features.* WalkAwayLock (`walk_away_lock.rs:251`) and SmartUnlock
  (`smart_unlock.rs:237`) do not look again at what they checked before their search.
  A handle pull shares the answer of an equal search that has just ended
  (`passive_entry.rs:493, 603`), although `key_search_arbiter.rs:104-107` says that a pull
  must not: the car may open for a key that left between that search and the pull.
  `OpensForKeySearched` therefore counts, for such a pull, from when that search looked;
  stated from the pull on, TLC finds it violated in MCFeatures.
  A delayed inversion of SlamLock is not taken back. The first press of an RKE
  combination is executed although `rke.rs:381-382` says that neither is, and the window is
  300 ms where `rke.rs:28-30` says 3 s. LockFeedback ignores `mislock_trunk` and
  `lock_denied`, and turns the chime off after 300 ms under a running lost-key warning.
- *Lights.* A defect read between the ticks of the two sides leaves hazard lamps in
  antiphase. Welcome arms with the ignition ON; FollowMeHome stays armed after it
  expires; the count of a comfort blink is shortened by lamp edges of before.
- *Body.* An AUTO intent of a window survives its end stop, a child lock and a power
  cycle, and moves the window when they end (`power_window.rs:367-393`); a switch held
  through a power cycle and eased to HOLD has no stuck deadline. AUTO at the end stop
  of the roof swallows the next press. A superlocked door whose unlock is read
  before the end of the superlock never opens for a held handle. A mirror stays
  folded when the process restarts while it unfolds.
- *Platform.* A connection that lags behind its channel hears nothing more until its
  HMI sends something. One that subscribes after the reboot request stays on the dead
  bus; one that still waits at the gate of a boot that has ended (`ws_bridge.rs:711-716`)
  never comes to the loop that reads the request, and stays too. `OldConnectionsClose`
  names the first by `late`; of the second it says only that the request is there to be
  read, and the run's teams leave no gate closed. A request overtaken by two reboots puts the counter back and the following ones
  are ignored (beyond the run's bounds). Tasks spawned outside the JoinSet outlive
  reboots. `config_set` from two HMIs at once may lose an update; the dealer tier is
  never saved, so it is lost at every reboot, and the plants keep the vehicle
  orientation of the boot while features read the live one. Two connections that save
  one calibration share its temporary file; a rename may be undone by a power cut. The
  decoder knows no priority 0 and 4 (`ipc_message.rs:331-338`), which the encoder
  sends. Several signals are both inputs and outputs of the bridge, so that an HMI may
  overwrite what a plant publishes.

## Proofs

Eight modules hold proofs. Of every safety property that the passing runs check there
is a theorem, but for the three named below. Assumptions are the named ones of the
modules: positive capacities, times and lockouts, tags and `None` that differ from
values, membership of the special names, and for Features that no two signals have one
name, that the keys are finitely many, that a resync takes more than one code, and that
what happens around a team is said in signals that its tasks do not publish. Where a
theorem has a hypothesis of its own, it is a condition on timing or on who runs that the
property needs: without it the property is false.

- `CentralLock_proofs`, first the arbiter: the inductive invariant adds to the checked
  properties where the acknowledgement of the active command is (`Slots`), that a running
  lockout belongs to the status of a crash unlock, and that event number 0 means
  that nothing was dispatched. With it every safety property of the arbiter's run is a
  theorem, and the refinement of LockMotor is proved step by step: only dispatches
  and completions are visible to it. Then the plant: `MirrorFollowsBus` treats the two
  arrays alike: for each, the last echo under way tells the value on the bus
  (`Mirrored`), whatever the arbiter sends. The other three theorems need the arbiter's
  invariant: in an orderly life the plant takes a command in a calm state (its arrays are
  the bus), executes the active command and no other, and so makes the doors what `Shown`
  says of the status; a superlocked door is locked because ReleaseDouble reaches
  locked cars only.
- `DomainArbiter_proofs`: `CopyIsBus` is inductive alone; `BusIsResolved` needs that
  resolving one signal depends on its own claims only (`ResolvedLocal`); the
  uniqueness of the winner rests on distinct sequence numbers and on
  `LargestBelow`, the existence of a maximum of a bounded set. That features get what
  they want (`WantsAreDelivered`) needs `DeliveryInv`: the last word of a feature on a
  signal that is still in the channel says what it wants, and if there is none its
  claim does (`ClaimsFollow`); the order of claims and of such words is that of the
  requests (`OrderIsKept`), which decides between equal priorities; and a gate's last
  word is its signal (`GateFollows`). With an empty channel the loop then resolves
  among what is wanted.
- `PerimeterAlarm_proofs`: the invariant ties the clocks together (`Clock`, `Watch`:
  grace left and grace watched add up), says why the message of an ended alarm finds
  no other alarm running (`Ended`: no time passes while it is unread, so nothing can
  have been armed anew), that the unread values end in the arbiter's last command
  (`Order`), and what that command has done once its event number is read
  (`Handled`). All safety properties of the run follow, the grace period included.
- `AutoRelock_proofs`: one invariant per property, each with the assumption it needs.
  With `KeepsUp` the unread status is that of the requestor that follows it (`InStep`),
  so the cached status belongs to the command that arms the timer. What is last unread
  of a door is how it is (`DoorsFollow`); with `Prompt` nothing is unread when the timer
  expires. `CycleInv` follows a crash through the feature's phases: a feature that has
  not seen it has it still to read, and what a lockout has still to see of a power cycle is
  in its stream, so the lockout ends exactly when the stream has given it an OFF and then
  an ON (`LockoutIsServed`). That these came after the crash cannot be proved, for it is
  false (`AutoRelock_crash`).
- `Starting_proofs`: the types the proofs need (`Typed`); that the control has at most
  one search, and only while it awaits it, among any number of others (`OneSearch`);
  that all the search may see of a key, in the copy, the snapshot or unread, is known
  since the request (`KeysAreKnown`), so that its answer is true of a time since then;
  that a session began with a proof; and that lever and key, each of which is moved when
  the other rests, do not meet each other's unread values (`Parked`). For taps, `TapInv`
  says that what the control has read or will read of a bypass ends with the last tap.
  `PowerIsProved` assumes `SearchesAreShort`: a tap made while the control awaits a
  search outlasts that search (see the bounds above).
- `Platform_proofs`: `StackTypes` says what connections, files and boots hold, and one
  lemma per step of a connection says what the step does, since four invariants need
  it. `StorageInv`: a file is clean under its name and under every name that a power cut
  may bring back, and until it is synced what a saver writes is in its temporary file.
  `RebootInv`: whoever is connected to a boot that ends has its request in the channel, or
  has seen it.
  `ViewInv`: at most one connection sets the configuration, and the others are, or will
  be, told it. `ClientsAgree` takes three invariants: the last unread value is the bus's
  (`OutputInv`), the last update a client is told is what the bridge knows (`ShowInv`),
  and nobody is let in before the essential signals are there (`ReadyInv`). Beside the
  stack, `InhibitInv` adds the time a claim has waited to that of the reaper's sleep, and
  `WireInv` says that a frame on its way is as sent or damaged once, which its checksum
  shows wherever the damage is (`DamageShows`). Of one signal of the bus (`MockBus`)
  with one publisher, the broadcasts are 1, 2, 3 ... up to the stored
  value or one less (`InOrder`), and a stream has never yielded less than its
  receiver's position (`NotBehind`).

- `Features_proofs` and, on top of it, `FeatureTasks_proofs`, for every team of tasks and
  whatever happens around it. Two lemmas
  per task carry it: a task changes no variables but its own, asks and orders under its
  own name (`Local`), and leaves the signals of the others, the claims on them and their
  queues alone (`Mute`). On the first rest the properties of the searches: `SearchInv`
  says that an answer names where each key it found has been since the request, and of
  each other key some place it did not look at, also through the copied zones; where an
  answer is shared, it names where the key was when the search that found it looked. So WalkAwayLock locks no key in (`WalkLocksNoKeyIn`), and a handle
  opens for a key that was at hand for its search, whose `candidates` are those of the search of that pull
  (`PassiveSound`). `RelaySound`: the sleeps of two sides that blink end together, or one
  side has been switched and the other is about to be; a lamp found to be sound again
  (`LampMended`) rearms one side alone, which is the antiphase named above. On the second
  rest the others, in `FeatureTasks_proofs`. `RkeSound`: the state of a fob's rolling code follows the codes heard
  of it (`Follows`), so a run of new codes as long as a resync takes has been counted.
  `LostSound`: the telltale is on exactly while its deadline is set; that the chime is on
  with it holds where LockFeedback does not run, for LockFeedback ends a running chime.
  `MotorSound`: the motor is told what PowerWindow claims for the one switch that counts,
  and at most one does. `RoofSound`: the roof's switch knows or is about to read where the
  panels are, the plant's direction or the last command it has not read is what the
  switch last told it, and when the motors tick both have read everything, so that what
  the plant then does is safe where the panels are (`TickSound`); the file has the
  positions of one moment, so restarts restore no others. `DoorSound`, for the door's
  teams, which do not restart: unless the life is excused, both plants know or are about to
  read where the lock is (`DoorMirrors`), the knob has told the handle plant or is about to
  (`KnobSound`), and the status tells what lock and knob show, or the command it tells of
  waits for the lock's plant (`CommandSound`). `DoorRests` assumes plain orders: the
  release of a superlock publishes LOCKED whatever the doors are, which is the
  disagreement of `MCCentralLock_release`.

Model-checked only:
- liveness, and everything with fairness (`SearchIsAnswered`, the alarms' end, the
  arbiters' answers, `GatesAreObeyed`);
- `EditReachesBoot`, which holds within the run's bounds and not for all constants: a
  request that two reboots overtake puts the counter back, and the edits of the following
  requests reach no boot;
- `OpenCarRestsUnlocked` and `ParkedCarGoesDark`, which say how
  a team rests when every stream is read. What rests is what several tasks have made of
  the values of one cause, each in the order in which it read them, so an invariant would
  have to tell for every mixture of read and unread values what is still to come of it.

## Not modelled

JSON and gRPC themselves, the bytes of a frame, the cryptography of the fobs, the
tables of 200 signal names (a few stand for them), logging, the HMI's drawing. The
bus's `reset` and history, the shift lock's lamp,
the mapping of driver and passenger to sides (the driver sits on the left), several
rear doors and windows of one kind, the answers to NFC challenges and approach
polls (nothing sends those), what the tasks of a boot that is over still do to their
bus, and a receiver that lags further than its channel holds in the bridge. The
cloud, the SWC's firmware and the broker are outside the repository's service: they
are environment. `PROJECT.json` says per component what is left out.

## Plan

Done: the lock chain, the domain arbiters, the bus, AutoRelock, both alarms, starting
and the key searches, the lock features, lights and body motors around one bus, and
the platform with its files, boots, bridge and frames. Next, in this order:

1. Proofs: the other properties of Features at rest (`OpenCarRestsUnlocked`,
   `ParkedCarGoesDark`).
2. Two domain arbiters on one signal (Lighting and LowBeam), and the lock plant's
   per-door files.
3. The bridge's lagging receivers.
