------------------------------ MODULE Platform ------------------------------
(***************************************************************************)
(* The program around the features: main.rs boots a stack of tasks on a    *)
(* fresh bus, tears it down when an HMI asks for a reboot, and boots the   *)
(* next; the files of Storage outlive boots and power cuts, the            *)
(* connections of Bridge outlive boots.  One plant model with a file       *)
(* stands for them all, and kuksa_sync.rs publishes what its broker says.  *)
(* The sleep inhibitor and the frames between processors, which main.rs    *)
(* does not wire, are checked beside it.                                   *)
(*                                                                         *)
(* What the tasks of a boot that is over still do to their own, dead bus   *)
(* is left out.  A behaviour belongs to one team: what the users may do.   *)
(***************************************************************************)
EXTENDS Bridge, SleepInhibit, Wire

CONSTANTS
    Teams,      \* the teams: what happens in each
    MaxBackoff, \* KuksaSync's longest wait
    PlantFile,  \* the file of the plant model,
    PlantSignal,\* the signal it publishes,
    BootSignal  \* and one that main publishes at boot

VARIABLES
    team,  \* the behaviour's
    plant, \* the plant model's task: its value
    kuksa  \* KuksaSync: its phase and its backoff

stackVars == <<storageVars, configVars, bridgeVars, boot, counter, conn, overlap, left,
               plant, kuksa>>

vars == <<stackVars, inhibitVars, wire, team>>

May(op) == op \in team.does /\ left > 0

-----------------------------------------------------------------------------
(* What the variables hold.                                                *)

\* A plant model's file has a flag, the others a calibration.
Contents(f) == IF f \in NvmFiles THEN BOOLEAN ELSE Calibrations

\* What one of its names stands for, if for anything.
Written(f) == [holds : Contents(f) \cup {Torn}, synced : BOOLEAN]

\* What is on the bus, and what an HMI shows of it.
Values == Int \cup BOOLEAN \cup Numbers
States == [HmiNames -> Values \cup {None}]

\* What an HMI shows of the configuration.
ConfigMsgs ==
    [vehicle_line : [seen : Int], variant : [seen : Int], dealer : DealerConfigs]

\* A message of an HMI: its users write inputs, and set what may be set to 1.
Sections == [tier : ConfigFiles, section : [seen : Int]]

Messages ==
    [op : {"sensor"}, path : {ToHmi(s) : s \in Inputs}, value : Numbers]
    \cup {[op |-> "config_set", tier |-> k[1], field |-> k[2], value |-> 1] : k \in Settable}
    \cup [op : {"reboot"}, sections : Seq(Sections)]
    \cup [op : {"close"}]

\* What a connection may be busy with.
TierJobs ==
    [op : {"config_set"}, stage : {"copied", "stored"}, tier : {"variant"}, new : Calibrations]
    \cup [op : {"config_set"}, stage : {"copied", "stored"}, tier : {"dealer"},
          new : DealerConfigs]

Jobs ==
    TierJobs
    \cup [op : {"config_set"}, stage : {"built"}, msg : ConfigMsgs]
    \cup [op : {"reboot"}, stage : {"saving"}, sections : Seq(Sections)]
    \cup [op : {"reboot"}, stage : {"counted"}, new : Nat]

\* A connection.
Conns ==
    [phase : {"accepted", "waiting", "passed", "shown", "serving"},
     boot : Nat, unseen : BOOLEAN, late : BOOLEAN,
     updates : Seq(States), configs : Seq(ConfigMsgs),
     deaf : SUBSET {"updates", "configs"}, inbox : Seq(Messages),
     job : Jobs \cup {None}, shows : States, view : ConfigMsgs \cup {None}]

\* The plant model's file and signals exist, a connection and the plant model save, None
\* and Torn are no values, and the users do what users can.
ASSUME PlatformAssumption ==
    /\ PlantFile \in NvmFiles
    /\ {PlantSignal, BootSignal} \subseteq Signals
    /\ "plant" \notin Clients /\ Savers = Clients \cup {"plant"}
    /\ None \notin Values /\ None \notin Jobs /\ None \notin Conns
    /\ \A v \in {None, Torn} : v \notin BOOLEAN /\ v \notin Calibrations
    /\ \A f \in Files : None \notin Written(f)
    /\ \A t \in Teams :
        /\ t.clients \subseteq Clients
        /\ t.tiers \subseteq Seq(ConfigFiles) /\ t.values \subseteq Int
        /\ \A f \in Files : t.disk[f] \in Contents(f) \cup {None}

-----------------------------------------------------------------------------
(* The plant model.                                                        *)

\* It loads its file and publishes what it found.
PlantBoots ==
    /\ plant = None
    /\ boot.phase \in {"spawned", "running"}
    /\ plant' = Loaded(PlantFile, FALSE)
    /\ Publish(PlantSignal, plant')
    /\ UNCHANGED <<storageVars, configVars, output, dirty, batching, ready, boot, counter, conn,
                   overlap, left, kuksa>>

\* It moves, publishes and then saves.
PlantMoves ==
    /\ May("plant")
    /\ plant # None /\ ~Saves("plant")
    /\ plant' = ~plant
    /\ Publish(PlantSignal, plant')
    /\ BeginSave("plant", PlantFile, plant')
    /\ left' = left - 1
    /\ UNCHANGED <<disk, configVars, output, dirty, batching, ready, boot, counter, conn, overlap,
                   kuksa>>

-----------------------------------------------------------------------------
(* KuksaSync.                                                              *)

NewKuksa == [phase |-> "trying", backoff |-> 1]

KuksaUp == boot.phase = "running" /\ team.kuksa

Lesser(m, n) == IF m < n THEN m ELSE n

\* datapoint_to_signal_value skips a number that is too wide.
Deliverable(v) == v \notin Int \/ v <= 65535

KuksaTurns ==
    /\ KuksaUp
    /\ \/ /\ kuksa.phase = "trying"
          /\ kuksa' = [kuksa EXCEPT !.phase = "synced"]
          /\ UNCHANGED left
       \/ /\ kuksa.phase \in {"trying", "synced"} \* an error
          /\ May("kuksa")
          /\ left' = left - 1
          /\ kuksa' = [kuksa EXCEPT !.phase = "sleeping"]
       \/ /\ kuksa.phase = "synced"               \* the broker closes
          /\ kuksa' = [phase |-> "sleeping", backoff |-> 1]
          /\ UNCHANGED left
       \/ /\ kuksa.phase = "sleeping"
          /\ kuksa' = [phase |-> "trying", backoff |-> Lesser(2 * kuksa.backoff, MaxBackoff)]
          /\ UNCHANGED left
    /\ UNCHANGED <<storageVars, configVars, bridgeVars, boot, counter, conn, overlap, plant>>

\* handle_inbound_entry: any signal of the catalog, which has those of the bridge, an
\* output too; another is skipped.
ALL_SIGNALS == Signals

KuksaDelivers(path, v) ==
    /\ KuksaUp
    /\ kuksa.phase = "synced"
    /\ May("kuksa")
    /\ left' = left - 1
    /\ IF path \in ALL_SIGNALS /\ Deliverable(v) THEN Publish(path, v)
       ELSE UNCHANGED <<bus, behind>>
    /\ UNCHANGED <<storageVars, configVars, output, dirty, batching, ready, boot, counter,
                   conn, overlap, plant, kuksa>>

-----------------------------------------------------------------------------
(* The boot loop.                                                          *)

NoneRead == [s \in Signals |-> <<>>]

\* The next boot's bus and bridge are new.
NoStack ==
    /\ bus' = Unknown
    /\ behind' = NoneRead
    /\ output' = Unknown
    /\ dirty' = FALSE /\ batching' = FALSE
    /\ plant' = None
    /\ kuksa' = NewKuksa

\* PlatformConfig::load, file by file, then boot_simulation_stack, which publishes
\* the first signals when the tasks are there.
BootStep ==
    /\ \/ /\ boot.phase = "down"
          /\ LoadTier("vehicle_line")
          /\ boot' = [boot EXCEPT !.phase = "loading"]
          /\ UNCHANGED <<bus, behind>>
       \/ /\ boot.phase = "loading"
          /\ LoadTier("variant")
          /\ boot' = [boot EXCEPT !.phase = "spawned"]
          /\ UNCHANGED <<bus, behind>>
       \/ /\ boot.phase = "spawned"
          /\ Publish(BootSignal, FALSE)
          /\ boot' = [boot EXCEPT !.phase = "running"]
          /\ UNCHANGED configVars
    /\ UNCHANGED <<storageVars, output, dirty, batching, ready, counter, conn, overlap,
                   left, plant, kuksa>>

\* Wrong: takes the first request for one that has been served.
IsForNextBoot(id) == counter > id

\* The counter is past the boots there have been.
IsForThisBoot(id) == counter >= id

\* The stack is aborted and awaited, the bus reset.  A file a task is saving is saved.
MainWakes ==
    /\ boot.phase = "running" /\ boot.unseen
    /\ IF IsForThisBoot(boot.id)
       THEN /\ ~Saves("plant")
            /\ boot' = [id |-> boot.id + 1, phase |-> "down", unseen |-> FALSE]
            /\ NoStack
       ELSE /\ boot' = [boot EXCEPT !.unseen = FALSE]
            /\ UNCHANGED <<bus, behind, output, dirty, batching, plant, kuksa>>
    /\ UNCHANGED <<storageVars, configVars, ready, counter, conn, overlap, left>>

FirstBoot == [id |-> 1, phase |-> "down", unseen |-> FALSE]

\* The power goes, or the process ends; it starts again, with --reset-nvm or not.
PowerCut ==
    /\ May("cut")
    /\ \E removed \in {{}, NvmFiles} : CutDisk(removed)
    /\ boot' = FirstBoot
    /\ counter' = 0
    /\ overlap' = FALSE
    /\ ready' = {}
    /\ conn' = [c \in Clients |-> None]
    /\ NoStack
    /\ left' = left - 1
    /\ UNCHANGED configVars

-----------------------------------------------------------------------------
(* What happens.                                                           *)

\* In the teams whose question is about files and requests, the bus, or the start of a
\* connection too, is calm: it has gone as far as it can before anyone else moves.
BusAtRest == ~dirty /\ ~batching /\ \A s \in Signals : behind[s] = <<>>

Starts(c) ==
    Open(c) /\ (\/ conn[c].phase \in {"accepted", "passed", "shown"}
                \/ conn[c].phase = "waiting" /\ conn[c].boot \in ready)

Calmly == "bus" \in team.calm => BusAtRest

CalmlyConnected == "starts" \in team.calm => \A c \in team.clients : ~Starts(c)

\* The steps of the bridge that do not touch the disk.
ConnectionStep(c) ==
    \/ Accept(c) \/ Subscribe(c) \/ PassGate(c) \/ SendSnapshot(c) \/ SendConfig(c)
    \/ SeesReboot(c) \/ ForwardUpdate(c) \/ ForwardConfig(c) \/ HandleSensor(c) \/ Disconnect(c)
    \/ CopyTier(c) \/ StoreTier(c) \/ BuildConfig(c) \/ BroadcastConfig(c)
    \/ HandleReboot(c) \/ ReadCounter(c) \/ SendCounter(c)

UserStep(c) ==
    \/ May("sensor") /\ \E s \in Inputs, v \in Numbers : SetSensor(c, ToHmi(s), v)
    \/ May("set") /\ \E k \in Settable : SetConfig(c, k[1], k[2], 1)
    \/ May("apply") /\ \E tiers \in team.tiers, v \in team.values : ApplyAndReboot(c, tiers, v)
    \/ May("reboot") /\ ApplyAndReboot(c, <<>>, 0)
    \/ May("leave") /\ Leave(c)

FileStep ==
    /\ \E s \in Savers : SaveStep(s) \/ (May("fail") /\ FailSave(s))
    /\ UNCHANGED <<configVars, bridgeVars, boot, counter, conn, overlap, left, plant, kuksa>>

BridgeStep ==
    /\ \/ \E s \in Signals : SubscriberReads(s)
       \/ Notified
       \/ BroadcasterSends
       \/ Calmly /\ \E c \in team.clients :
            /\ CalmlyConnected \/ Starts(c)
            /\ ConnectionStep(c) \/ UserStep(c)
    /\ UNCHANGED <<storageVars, plant, kuksa>>

SavingStep == \E c \in team.clients : SaveSection(c) /\ UNCHANGED <<plant, kuksa>>

StackNext ==
    \/ BridgeStep
    \/ /\ Calmly /\ CalmlyConnected
       /\ \/ FileStep \/ SavingStep
          \/ PlantBoots \/ PlantMoves
          \/ KuksaTurns
          \/ \E path \in Signals \cup {"elsewhere"}, v \in Numbers : KuksaDelivers(path, v)
          \/ BootStep \/ MainWakes \/ PowerCut

Init ==
    /\ team \in Teams
    /\ disk = [f \in Files |-> Stored(team.disk[f])]
    /\ saves = [s \in Savers |-> None]
    /\ crossed = {}
    /\ live = Defaults
    /\ loaded = Defaults
    /\ boot = FirstBoot
    /\ counter = 0
    /\ bus = Unknown
    /\ behind = NoneRead
    /\ output = Unknown
    /\ dirty = FALSE /\ batching = FALSE
    /\ ready = {}
    /\ conn = [c \in Clients |-> None]
    /\ overlap = FALSE
    /\ left = team.budget
    /\ plant = None
    /\ kuksa = NewKuksa
    /\ InhibitInit
    /\ WireInit

Next ==
    \/ team.part = "stack"   /\ StackNext   /\ UNCHANGED <<inhibitVars, wire, team>>
    \/ team.part = "inhibit" /\ InhibitNext /\ UNCHANGED <<stackVars, wire, team>>
    \/ team.part = "wire"    /\ WireNext    /\ UNCHANGED <<stackVars, inhibitVars, team>>

Spec == Init /\ [][Next]_vars

-----------------------------------------------------------------------------
(* What is promised.                                                       *)

AtRest ==
    /\ boot.phase = "running" /\ ~boot.unseen
    /\ \A s \in Savers : ~Saves(s)
    /\ \A c \in Clients : Open(c) => conn[c].job = None

\* What an HMI has applied is what the car runs on once it has rebooted, whoever else
\* applied or asked for a reboot meanwhile and wherever a save failed: the save comes
\* before the request, and the request is served (ws_bridge.rs:1039-1051).  With more
\* requests than the teams make, one that two reboots have overtaken puts the counter
\* back, and main takes those after it for old ones.
EditReachesBoot ==
    AtRest =>
        \A f \in ConfigFiles : loaded[f] = Loaded(f, Defaults[f])

\* The request that ended a boot waits in the reboot channel of each of its connections
\* that is still open, which reads it in its loop and closes (ws_bridge.rs:694-704, 740),
\* unless it subscribed after the request.  Not that it comes to its loop: one that waits
\* at the gate of a boot that was ended before the gate opened (711-716) never does.  That
\* takes another request by a client of the boot before; the teams with two HMIs that ask
\* for reboots let the bus come to rest, and with it the gate open, before anyone moves.
OldConnectionsClose ==
    \A c \in Clients :
        (Open(c) /\ conn[c].boot # boot.id) =>
            conn[c].phase = "accepted" \/ conn[c].unseen \/ conn[c].late

\* The bridge has nothing more to pass on to c.
Quiet(c) ==
    /\ OfThisBoot(c) /\ boot.phase = "running"
    /\ conn[c].phase = "serving"
    /\ conn[c].inbox = <<>> /\ conn[c].updates = <<>> /\ conn[c].configs = <<>>
    /\ conn[c].deaf = {}

\* An HMI that is told everything shows what is on the bus, whenever it connected,
\* whatever it set itself meanwhile, and with all the essential signals (§5 of
\* docs/signal-ownership-and-state-hydration.md).
ClientsConverge ==
    \A c \in Clients :
        /\ (Quiet(c) /\ BusAtRest)
            => conn[c].shows = StateMsg(bus)
        /\ (OfThisBoot(c) /\ conn[c].phase = "serving")
            => \A s \in Essential : conn[c].shows[ToHmi(s)] # None

\* And it shows the configuration the features run on, unless two HMIs have set
\* something in the same moment.
ConfigViewsConverge ==
    \A c \in Clients :
        (Quiet(c) /\ ~overlap /\ \A d \in Clients : Open(d) => conn[d].job = None)
            => conn[c].view = ConfigMsg
=============================================================================
