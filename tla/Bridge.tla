------------------------------- MODULE Bridge -------------------------------
(***************************************************************************)
(* The WebSocket bridge of ws_bridge.rs and the HMIs connected to it.      *)
(*                                                                         *)
(* A boot's bridge follows the signals of its bus and keeps their values;  *)
(* a broadcaster collects the changes of 10 ms and sends every connection  *)
(* all the values; a connection waits until the essential signals are      *)
(* there, sends what is known and the configuration, and serves its HMI.   *)
(* Connections are tasks of their own: they outlive the boot that accepted *)
(* them, until they see the reboot counter change.                         *)
(***************************************************************************)
EXTENDS Calibration

CONSTANTS
    Clients,   \* the HMIs
    Inputs,    \* signals an HMI may write: INPUT_SIGNALS
    Outputs,   \* signals it only shows: OUTPUT_SIGNALS
    Essential, \* ESSENTIAL_BOOT_SIGNALS
    Aliases,   \* HMI_ALIASES: what an HMI calls the signals it has another name for
    Room       \* a connection's update and configuration channels hold so much

VARIABLES
    boot,     \* main's: the number of this boot, its phase, whether it has to look at counter
    counter,  \* the value of the reboot channel
    bus,      \* per signal: its value on this boot's bus
    behind,   \* per signal: the values its subscriber task has not read
    output,   \* output_state
    dirty,    \* the broadcaster has been notified
    batching, \* it sleeps for the 10 ms
    ready,    \* the boots whose readiness gate has opened
    conn,     \* per HMI: its connection
    overlap,  \* history: two connections have set the configuration at the same time
    left      \* how much more the users do

bridgeVars == <<bus, behind, output, dirty, batching, ready>>

\* What the bridge follows: all it shows, and what it lets an HMI write.
Signals == Outputs \cup Inputs

Writable(s) == s \in Inputs

\* The signals that a plant or main publishes at every boot are all there.
AllEssential(snapshot) == \A s \in Essential : snapshot[s] # None

ASSUME BridgeAssumption ==
    /\ Essential \subseteq Signals
    /\ Room > 0
    \* No two signals have one name (the test aliases_are_unique_both_directions).
    /\ \A s, r \in DOMAIN Aliases : Aliases[s] = Aliases[r] => s = r
    /\ \A s \in DOMAIN Aliases : Aliases[s] \notin Signals \ {s}

Unknown == [s \in Signals |-> None]

\* to_hmi and from_hmi.
ToHmi(s) == IF s \in DOMAIN Aliases THEN Aliases[s] ELSE s

HmiNames == {ToHmi(s) : s \in Signals}

FromHmi == [n \in HmiNames |-> CHOOSE s \in Signals : ToHmi(s) = n]

\* hmi_state_message
StateMsg(snapshot) == [n \in HmiNames |-> snapshot[FromHmi[n]]]

\* json_to_signal_value, back through signal_value_to_json: a number past 65535
\* becomes an Int16, which ends at 32767.
SignalOf(n) == IF n \in Int /\ n > 65535 THEN 32767 ELSE n

-----------------------------------------------------------------------------
(* Subscribers and broadcaster.                                            *)

Publish(s, v) ==
    /\ bus' = [bus EXCEPT ![s] = v]
    /\ behind' = [behind EXCEPT ![s] = Append(@, v)]

\* A subscriber task stores the value and notifies the broadcaster.
SubscriberReads(s) ==
    /\ behind[s] # <<>>
    /\ output' = [output EXCEPT ![s] = Head(behind[s])]
    /\ behind' = [behind EXCEPT ![s] = Tail(@)]
    /\ dirty' = TRUE
    /\ UNCHANGED <<bus, batching, ready, conn, boot, counter, live, loaded, overlap, left>>

Notified ==
    /\ dirty /\ ~batching
    /\ dirty' = FALSE
    /\ batching' = TRUE
    /\ UNCHANGED <<bus, behind, output, ready, conn, boot, counter, live, loaded, overlap, left>>

\* A broadcast channel that is full drops its oldest message; the reader's next recv
\* is then an error, select! gives that branch up until another one has fired.
Sent(c, channel, msg) ==
    IF Len(c[channel]) < Room THEN [c EXCEPT ![channel] = Append(@, msg)]
    ELSE [c EXCEPT ![channel] = Append(Tail(@), msg), !.deaf = @ \cup {channel}]

Open(c) == conn[c] # None

OfThisBoot(c) == Open(c) /\ conn[c].boot = boot.id

Broadcast(channel, msg) ==
    [c \in Clients |-> IF OfThisBoot(c) THEN Sent(conn[c], channel, msg) ELSE conn[c]]

BroadcasterSends ==
    /\ batching
    /\ batching' = FALSE
    /\ ready' = IF AllEssential(output) THEN ready \cup {boot.id} ELSE ready
    /\ conn' = Broadcast("updates", StateMsg(output))
    /\ UNCHANGED <<bus, behind, output, dirty, boot, counter, live, loaded, overlap, left>>

-----------------------------------------------------------------------------
(* handle_connection: from the accept to the loop.                         *)

\* An HMI starts with nothing known (INIT_STATE).  Its copy of the configuration is
\* used only after the first message.
NewConn ==
    [phase |-> "accepted", boot |-> boot.id, unseen |-> FALSE, late |-> FALSE,
     updates |-> <<>>, configs |-> <<>>, deaf |-> {}, inbox |-> <<>>, job |-> None,
     shows |-> StateMsg(Unknown), view |-> None]

\* The HMI lays what it is sent over what it has.
Merged(shows, state) == [n \in HmiNames |-> IF state[n] = None THEN shows[n] ELSE state[n]]

InPhase(c, phase) == Open(c) /\ conn[c].phase = phase

Unmoved == UNCHANGED <<bridgeVars, boot, counter, live, loaded, overlap, left>>

\* The listener accepts; both channels are subscribed before the task starts.  Bound:
\* an HMI comes back while its user has something left to do.
Accept(c) ==
    /\ left > 0
    /\ boot.phase \in {"spawned", "running"}
    /\ ~Open(c)
    /\ conn' = [conn EXCEPT ![c] = NewConn]
    /\ Unmoved

\* The task subscribes to the reboot channel.  late is history: the boot that
\* accepted it has been told to end already.
Subscribe(c) ==
    /\ InPhase(c, "accepted")
    /\ conn' = [conn EXCEPT ![c].phase = "waiting",
                            ![c].late = ~OfThisBoot(c) \/ boot.unseen]
    /\ Unmoved

\* Wrong: subscribes to the reboot channel when the gate has opened.
PassGateThenSubscribe(c) ==
    /\ InPhase(c, "waiting")
    /\ conn[c].boot \in ready
    /\ conn' = [conn EXCEPT ![c].phase = "passed", ![c].unseen = FALSE]
    /\ Unmoved

PassGate(c) ==
    /\ InPhase(c, "waiting")
    /\ conn[c].boot \in ready
    /\ conn' = [conn EXCEPT ![c].phase = "passed"]
    /\ Unmoved

\* The bridge of an earlier boot has nothing new to say.
SendSnapshot(c) ==
    /\ InPhase(c, "passed")
    /\ conn' = [conn EXCEPT ![c].phase = "shown",
                            ![c].shows = IF OfThisBoot(c) THEN Merged(@, StateMsg(output)) ELSE @]
    /\ Unmoved

\* Wrong: subscribes to the updates when everything has been sent.
SendConfigThenSubscribe(c) ==
    /\ InPhase(c, "shown")
    /\ conn' = [conn EXCEPT ![c].phase = "serving",
                            ![c].view = ConfigMsg, ![c].updates = <<>>]
    /\ Unmoved

SendConfig(c) ==
    /\ InPhase(c, "shown")
    /\ conn' = [conn EXCEPT ![c].phase = "serving",
                            ![c].view = ConfigMsg]
    /\ Unmoved

-----------------------------------------------------------------------------
(* handle_connection: the loop.                                            *)

Selects(c) == InPhase(c, "serving") /\ conn[c].job = None

SeesReboot(c) ==
    /\ Selects(c)
    /\ conn[c].unseen
    /\ conn' = [conn EXCEPT ![c] = None]
    /\ Unmoved

ForwardUpdate(c) ==
    /\ Selects(c)
    /\ conn[c].updates # <<>> /\ "updates" \notin conn[c].deaf
    /\ conn' = [conn EXCEPT ![c].updates = Tail(@), ![c].deaf = {},
                            ![c].shows = Merged(@, Head(conn[c].updates))]
    /\ Unmoved

ForwardConfig(c) ==
    /\ Selects(c)
    /\ conn[c].configs # <<>> /\ "configs" \notin conn[c].deaf
    /\ conn' = [conn EXCEPT ![c].configs = Tail(@), ![c].deaf = {},
                            ![c].view = Head(conn[c].configs)]
    /\ Unmoved

\* The branch that reads the HMI's messages.
Hears(c, op) ==
    /\ Selects(c)
    /\ conn[c].inbox # <<>>
    /\ Head(conn[c].inbox).op = op

Heard(c, job) == [conn[c] EXCEPT !.inbox = Tail(@), !.deaf = {}, !.job = job]

\* handle_hmi_message.  On the bus of a boot that is over nobody listens.
HandleSensor(c) ==
    /\ Hears(c, "sensor")
    /\ LET m == Head(conn[c].inbox)
           s == FromHmi[m.path]
       IN
        IF Writable(s) /\ OfThisBoot(c) /\ boot.phase # "down"
        THEN Publish(s, SignalOf(m.value))
        ELSE UNCHANGED <<bus, behind>>
    /\ conn' = [conn EXCEPT ![c] = Heard(c, None)]
    /\ UNCHANGED <<output, dirty, batching, ready, boot, counter, live, loaded, overlap, left>>

\* A socket that is closed, by either side.
Disconnect(c) ==
    /\ Hears(c, "close")
    /\ conn' = [conn EXCEPT ![c] = None]
    /\ Unmoved

-----------------------------------------------------------------------------
(* handle_config_set: copy the tier, change the copy, store it; then the   *)
(* message is built and sent.  Connections run on several threads.         *)

Job(c, op, stage) ==
    Open(c) /\ conn[c].job # None /\ conn[c].job.op = op /\ conn[c].job.stage = stage

CopyTier(c) ==
    /\ Hears(c, "config_set")
    /\ LET m == Head(conn[c].inbox) IN
        conn' = [conn EXCEPT ![c] =
            Heard(c, IF <<m.tier, m.field>> \in Settable
                     THEN [op |-> "config_set", stage |-> "copied", tier |-> m.tier,
                           new |-> [live[m.tier] EXCEPT ![m.field] = m.value]]
                     ELSE None)]
    /\ overlap' = (overlap \/ \E d \in Clients \ {c} : OfThisBoot(d) /\ conn[d].job # None)
    /\ UNCHANGED <<bridgeVars, boot, counter, live, loaded, left>>

StoreTier(c) ==
    /\ Job(c, "config_set", "copied")
    /\ live' = IF OfThisBoot(c) THEN [live EXCEPT ![conn[c].job.tier] = conn[c].job.new] ELSE live
    /\ conn' = [conn EXCEPT ![c].job.stage = "stored"]
    /\ UNCHANGED <<bridgeVars, boot, counter, loaded, overlap, left>>

BuildConfig(c) ==
    /\ Job(c, "config_set", "stored")
    /\ conn' = [conn EXCEPT ![c].job = [op |-> "config_set", stage |-> "built", msg |-> ConfigMsg]]
    /\ Unmoved

\* Wrong: answers only the one who has set it.
AnswerConfig(c) ==
    /\ Job(c, "config_set", "built")
    /\ conn' = [conn EXCEPT ![c] = [Sent(@, "configs", @.job.msg) EXCEPT !.job = None]]
    /\ Unmoved

BroadcastConfig(c) ==
    /\ Job(c, "config_set", "built")
    /\ LET all == IF OfThisBoot(c) THEN Broadcast("configs", conn[c].job.msg) ELSE conn
       IN  conn' = [all EXCEPT ![c].job = None]
    /\ Unmoved

-----------------------------------------------------------------------------
(* handle_reboot: save the sections of the message, then count.            *)

HandleReboot(c) ==
    /\ Hears(c, "reboot")
    /\ conn' = [conn EXCEPT ![c] =
            Heard(c, [op |-> "reboot", stage |-> "saving",
                      sections |-> Head(conn[c].inbox).sections])]
    /\ Unmoved

Busy(c) == Job(c, "reboot", "saving") /\ saves[c] = None

SaveSection(c) ==
    /\ Busy(c)
    /\ conn[c].job.sections # <<>>
    /\ LET s == Head(conn[c].job.sections) IN BeginSave(c, s.tier, Parsed(s.tier, s.section))
    /\ conn' = [conn EXCEPT ![c].job.sections = Tail(@)]
    /\ Unmoved /\ UNCHANGED disk

\* The counter is read, and sent, without a lock over both.
ReadCounter(c) ==
    /\ Busy(c)
    /\ conn[c].job.sections = <<>>
    /\ conn' = [conn EXCEPT ![c].job = [op |-> "reboot", stage |-> "counted", new |-> counter + 1]]
    /\ Unmoved

\* Everyone who has subscribed is woken.
SendCounter(c) ==
    /\ Job(c, "reboot", "counted")
    /\ counter' = conn[c].job.new
    /\ boot' = [boot EXCEPT !.unseen = TRUE]
    /\ conn' = [d \in Clients |->
            IF ~Open(d) \/ conn[d].phase = "accepted" THEN conn[d]
            ELSE [conn[d] EXCEPT !.unseen = TRUE, !.job = IF d = c THEN None ELSE @]]
    /\ UNCHANGED <<bridgeVars, live, loaded, overlap, left>>

-----------------------------------------------------------------------------
(* The users.                                                              *)

Uses(c, m) ==
    /\ Open(c) /\ conn[c].phase # "accepted"
    /\ left > 0
    /\ left' = left - 1
    /\ conn' = [conn EXCEPT ![c] = m]
    /\ UNCHANGED <<bridgeVars, boot, counter, live, loaded, overlap>>

Told(c, m) == [conn[c] EXCEPT !.inbox = Append(@, m)]

\* A switch of the HMI: it shows the new position, and tells the bridge.
SetSensor(c, n, v) ==
    /\ Uses(c, [Told(c, [op |-> "sensor", path |-> n, value |-> v]) EXCEPT !.shows[n] = v])
    /\ conn[c].shows[n] # v

SetConfig(c, tier, field, v) ==
    /\ InPhase(c, "serving")
    /\ conn[c].view[tier][field] # v
    /\ Uses(c, [Told(c, [op |-> "config_set", tier |-> tier, field |-> field, value |-> v])
                EXCEPT !.view[tier][field] = v])

\* Apply & Reboot, with the tiers staged.
ApplyAndReboot(c, tiers, v) ==
    /\ InPhase(c, "serving")
    /\ Uses(c, Told(c, [op |-> "reboot",
                        sections |-> [i \in DOMAIN tiers |->
                            [tier |-> tiers[i], section |-> Staged(conn[c].view, tiers[i], v)]]]))

Leave(c) == Uses(c, Told(c, [op |-> "close"]))
=============================================================================
