--------------------------- MODULE Platform_proofs ---------------------------
(***************************************************************************)
(* Proofs about Platform: what its run checks for a few files, signals and *)
(* HMIs holds for all that PlatformAssumption admits, except that an edit  *)
(* reaches its boot, which requests that overtake each other can prevent.  *)
(*                                                                         *)
(* The two parts that stand beside the stack come first, as they need no   *)
(* types.  Of the stack, StackTypes says what its variables hold; then one *)
(* lemma for each step of a connection says what the step does to it,      *)
(* since the same steps have to keep every invariant.  The invariants are  *)
(* those of the files (StorageInv), of the reboots (RebootInv), of the     *)
(* configuration that HMIs show (ViewInv) and of the values that they show *)
(* (OutputInv, ShowInv, ReadyInv).  Last comes one signal of the bus.      *)
(***************************************************************************)
EXTENDS Platform, MockBus, FiniteSetTheorems, SequenceTheorems, TLAPS

-----------------------------------------------------------------------------
(* The sleep inhibitor.                                                    *)

\* The channel counts the claims, no claim is older than the reaper lets it get by its
\* next round, and who waits has seen a claim that is still there.
InhibitInv ==
    /\ made \in Nat
    /\ DOMAIN claims \subseteq 1..made
    /\ claims \in [DOMAIN claims -> Nat]
    /\ sleeping \in 0..Interval
    /\ \A i \in DOMAIN claims : claims[i] + sleeping <= MaxHold + Interval
    /\ count = Cardinality(DOMAIN claims)
    /\ waiter = "waiting" => DOMAIN claims # {}

\* There is a count of zero exactly when there is no claim.
LEMMA CountsClaims == InhibitInv => (count = 0 <=> DOMAIN claims = {})
<1> SUFFICES ASSUME InhibitInv PROVE count = 0 <=> DOMAIN claims = {}
  OBVIOUS
<1>1. IsFiniteSet(1..made)
  BY FS_Interval DEF InhibitInv
<1>2. IsFiniteSet(DOMAIN claims)
  BY <1>1, FS_Subset DEF InhibitInv
<1>3. QED
  BY <1>2, FS_EmptySet DEF InhibitInv

\* Every step of the inhibitor preserves the invariant.
LEMMA InhibitStep == ASSUME InhibitInv, InhibitNext PROVE InhibitInv'
<1> USE SleepInhibitAssumption
<1>1. CASE Acquire
  BY <1>1 DEF InhibitInv, Acquire, Hold
<1>2. ASSUME NEW i \in 1..MaxClaims, DropGuard(i) PROVE InhibitInv'
  BY <1>2 DEF InhibitInv, DropGuard
<1>3. ASSUME NEW i \in 1..MaxClaims, RemoveClaim(i) PROVE InhibitInv'
  BY <1>3 DEF InhibitInv, RemoveClaim, Hold, Without
<1>4. CASE Reap
  BY <1>4 DEF InhibitInv, Reap, ReapInto, Hold, Without
<1>5. CASE Wait
  BY <1>5, CountsClaims DEF InhibitInv, Wait
<1>6. CASE InhibitTick
  BY <1>6 DEF InhibitInv, InhibitTick
<1>7. QED
  BY <1>1, <1>2, <1>3, <1>4, <1>5, <1>6 DEF InhibitNext

\* A claim nobody gives back is gone one round of the reaper after its time, whatever the
\* times, and whoever waits for sleep waits for a claim (sleep_inhibit.rs:9-12).
THEOREM ClaimsExpire == Spec => []StuckClaimsExpire
<1>1. Init => InhibitInv
  BY SleepInhibitAssumption, FS_EmptySet DEF Init, InhibitInit, InhibitInv
<1>2. InhibitInv /\ [Next]_vars => InhibitInv'
  <2> SUFFICES ASSUME InhibitInv, [Next]_vars PROVE InhibitInv'
    OBVIOUS
  <2>1. CASE InhibitNext
    BY <2>1, InhibitStep
  <2>2. CASE UNCHANGED inhibitVars
    BY <2>2 DEF inhibitVars, InhibitInv
  <2>3. QED
    BY <2>1, <2>2 DEF Next, vars
<1>3. InhibitInv => StuckClaimsExpire
  <2> SUFFICES ASSUME InhibitInv PROVE StuckClaimsExpire
    OBVIOUS
  <2>1. ASSUME NEW i \in DOMAIN claims PROVE claims[i] <= MaxHold + Interval
    BY <2>1, SleepInhibitAssumption DEF InhibitInv
  <2>2. waiter = "waiting" => claims # <<>>
    BY DEF InhibitInv
  <2>3. QED
    BY <2>1, <2>2 DEF StuckClaimsExpire
<1>4. QED
  BY <1>1, <1>2, <1>3, PTL DEF Spec

-----------------------------------------------------------------------------
(* The frames.                                                             *)

\* g is f with one field changed that counts.
Damaged(f, g) ==
    \E x \in Fields \ {"magic", "crc"} : \E v \in Numbers \cup MsgTypes :
        f[x] # WireNothing /\ f[x] # v /\ g = [f EXCEPT ![x] = v]

\* What a frame is read as.
ReadAs(f, original) == IF original["type"] = ActuatorCmd THEN Decode(f) ELSE Parse(f)

\* A frame on its way is as it was sent or damaged once; it is read as it is.
WireInv ==
    \/ wire = WireNothing
    \/ /\ wire = [sent |-> wire.sent, now |-> wire.now, got |-> wire.got, read |-> wire.read]
       /\ wire.sent \in Sendable
       /\ wire.now = wire.sent \/ Damaged(wire.sent, wire.now)
       /\ wire.read => wire.got = ReadAs(wire.now, wire.sent)

\* f is a whole frame: the parts of a header, and the CRC of its fields.
Whole(f, type, first, second) ==
    /\ f = [x \in Fields |-> f[x]]
    /\ HeaderOk(f)
    /\ f["crc"] = Crc(f, Long(type))
    /\ ~Long(type) => f["value"] = WireNothing
    /\ f["type"] = type /\ f["first"] = first /\ f["second"] = second

\* What Encode builds is whole.
LEMMA Encoded ==
    ASSUME NEW type \in MsgTypes, NEW seq, NEW signal, NEW first, NEW second, NEW value
    PROVE  Whole(Encode(type, seq, signal, first, second, value), type, first, second)
<1> DEFINE v == IF Long(type) THEN value ELSE WireNothing
           f == Encode(type, seq, signal, first, second, value)
           g == [magic |-> IpcMagic, version |-> IpcVersion, type |-> type,
                 seq |-> seq, signal |-> signal, first |-> first, second |-> second,
                 value |-> v, crc |-> WireNothing]
<1>1. f = [g EXCEPT !["crc"] = Crc(g, Long(type))]
  BY DEF Encode
<1>2. ~Long(type) => v = WireNothing
  OBVIOUS
<1> HIDE DEF v, f
<1>3. f = [magic |-> IpcMagic, version |-> IpcVersion, type |-> type,
           seq |-> seq, signal |-> signal, first |-> first, second |-> second,
           value |-> v, crc |-> Crc(g, Long(type))]
  BY <1>1
<1>4. Crc(g, Long(type)) = Crc(f, Long(type))
  BY <1>3 DEF Crc
<1>5. QED
  <2>1. Whole(f, type, first, second)
    BY <1>2, <1>3, <1>4 DEF Whole, HeaderOk, Fields
  <2>2. QED
    BY <2>1 DEF f

\* A sendable frame carries the CRC of its fields, and codes that its reader knows, but
\* for the priorities of a command.
LEMMA SendableFrames ==
    ASSUME NEW f \in Sendable
    PROVE  /\ f = [x \in Fields |-> f[x]]
           /\ HeaderOk(f)
           /\ f["crc"] = Crc(f, Long(f["type"]))
           /\ ~Long(f["type"]) => f["value"] = WireNothing
           /\ BodyOk(f) \/ (f["type"] = ActuatorCmd /\ f["second"] \notin Priorities)
<1>0. {ActuatorCmd, StateUpdate, CmdAck, FaultReport} = MsgTypes
  BY DEF MsgTypes
<1> DEFINE Good ==
             /\ f = [x \in Fields |-> f[x]]
             /\ HeaderOk(f)
             /\ f["crc"] = Crc(f, Long(f["type"]))
             /\ ~Long(f["type"]) => f["value"] = WireNothing
             /\ BodyOk(f) \/ (f["type"] = ActuatorCmd /\ f["second"] \notin Priorities)
<1>1. ASSUME NEW n \in Numbers, NEW m \in Numbers, NEW t \in {0, 4}, NEW x \in {1, 45},
             NEW v \in Numbers, f = UpdateFrame(n, m, t, x, v)
      PROVE  Good
  <2>1. f = Encode(StateUpdate, n, m, t, x, v)
    BY <1>1 DEF UpdateFrame
  <2>2. Whole(f, StateUpdate, t, x)
    BY <1>0, <2>1, Encoded
  <2>3. BodyOk(f)
    BY <2>2 DEF Whole, BodyOk, UpdateOk, SigTypes, FeatureIds
  <2>4. QED
    BY <2>2, <2>3 DEF Whole
<1>2. ASSUME NEW n \in Numbers, NEW m \in Numbers, NEW a \in Numbers, NEW x \in {0, 6},
             f = AckFrame(n, m, a, x)
      PROVE  Good
  <2>1. f = Encode(CmdAck, n, m, a, x, WireNothing)
    BY <1>2 DEF AckFrame
  <2>2. Whole(f, CmdAck, a, x)
    BY <1>0, <2>1, Encoded
  <2>3. BodyOk(f)
    BY <2>2 DEF Whole, BodyOk, AckOk, AckStatuses
  <2>4. QED
    BY <2>2, <2>3 DEF Whole
<1>3. ASSUME NEW n \in Numbers, NEW m \in Numbers, NEW x \in {1, 5},
             NEW y \in FaultSeverities, f = FaultFrame(n, m, x, y)
      PROVE  Good
  <2>1. f = Encode(FaultReport, n, m, x, y, WireNothing)
    BY <1>3 DEF FaultFrame
  <2>2. Whole(f, FaultReport, x, y)
    BY <1>0, <2>1, Encoded
  <2>3. BodyOk(f)
    BY <2>2 DEF Whole, BodyOk, FaultOk, FaultCodes
  <2>4. QED
    BY <2>2, <2>3 DEF Whole
<1>4. ASSUME NEW n \in Numbers, NEW m \in Numbers, NEW x \in {1, 45},
             NEW p \in PriorityCodes, NEW v \in Numbers, f = CmdFrame(n, m, x, p, v)
      PROVE  Good
  <2>1. f = Encode(ActuatorCmd, n, m, x, p, v)
    BY <1>4 DEF CmdFrame
  <2>2. Whole(f, ActuatorCmd, x, p)
    BY <1>0, <2>1, Encoded
  <2>3. f["second"] \in Priorities => BodyOk(f)
    BY <2>2 DEF Whole, BodyOk, CmdOk, FeatureIds
  <2>4. QED
    BY <2>2, <2>3 DEF Whole
<1>5. QED
  BY <1>1, <1>2, <1>3, <1>4 DEF Sendable

\* A damaged frame does not have the CRC of its fields, though its type, and with it the
\* offset of the CRC, may be what was damaged.
LEMMA DamageShows ==
    ASSUME NEW f \in Sendable, NEW g, Damaged(f, g)
    PROVE  ~CrcOk(g)
<1>1. PICK x \in Fields \ {"magic", "crc"}, v \in Numbers \cup MsgTypes :
         f[x] # WireNothing /\ f[x] # v /\ g = [f EXCEPT ![x] = v]
  BY DEF Damaged
<1>2. g["crc"] = Crc(f, Long(f["type"])) /\ g[x] = v
  BY <1>1, SendableFrames DEF Fields
<1>3. CASE x = "value"
  <2>1. Long(f["type"]) /\ g["type"] = f["type"]
    BY <1>1, <1>3, SendableFrames DEF Fields
  <2>2. QED
    BY <1>1, <1>2, <1>3, <2>1 DEF CrcOk, Crc
<1>4. CASE x # "value"
  BY <1>1, <1>2, <1>4 DEF CrcOk, Crc, Fields
<1>5. QED
  BY <1>3, <1>4

\* A frame that was damaged is refused, and one that was not is read as it was sent, but
\* for a command of the lowest or the highest priority (ipc_message.rs:331-338).
THEOREM FramesAreNotMistaken == Spec => []NoFrameIsMistaken
<1>1. Init => WireInv
  BY DEF Init, WireInit, WireInv
<1>2. WireInv /\ [Next]_vars => WireInv'
  <2> SUFFICES ASSUME WireInv, [Next]_vars PROVE WireInv'
    OBVIOUS
  <2>1. CASE SendFrame
    BY <2>1 DEF SendFrame, WireInv
  <2>2. CASE DamageFrame
    BY <2>2 DEF DamageFrame, WireInv, Damaged
  <2>3. CASE ReadFrame
    BY <2>3 DEF ReadFrame, WireInv, ReadAs
  <2>4. CASE UNCHANGED wire
    BY <2>4 DEF WireInv
  <2>5. QED
    BY <2>1, <2>2, <2>3, <2>4 DEF Next, WireNext, vars
<1>3. WireInv => NoFrameIsMistaken
  <2> SUFFICES ASSUME WireInv, wire # WireNothing, wire.read
               PROVE  IF wire.now # wire.sent THEN wire.got = WireNothing
                      ELSE \/ wire.got = wire.sent
                           \/ /\ wire.sent["type"] = ActuatorCmd
                              /\ wire.sent["second"] \notin Priorities
    BY DEF NoFrameIsMistaken
  <2>1. wire.sent \in Sendable /\ wire.got = ReadAs(wire.now, wire.sent)
    BY DEF WireInv
  <2>2. CASE wire.now # wire.sent
    <3>1. ~CrcOk(wire.now)
      BY <2>1, <2>2, DamageShows DEF WireInv
    <3>2. QED
      BY <2>1, <2>2, <3>1 DEF ReadAs, Parse, Decode
  <2>3. CASE wire.now = wire.sent
    <3>1. HeaderOk(wire.sent) /\ CrcOk(wire.sent)
      BY <2>1, SendableFrames DEF CrcOk
    <3>2. QED
      BY <2>1, <2>3, <3>1, SendableFrames DEF ReadAs, Parse, Decode
  <2>4. QED
    BY <2>2, <2>3 DEF Whole
<1>4. QED
  BY <1>1, <1>2, <1>3, PTL DEF Spec
-----------------------------------------------------------------------------
(* The stack: what its variables hold.                                     *)

\* What f's names may stand for.
Inodes(f) == Written(f) \cup {None}

\* The files are all there, or have been.
DiskOK ==
    /\ DOMAIN disk = Files /\ disk = [f \in Files |-> disk[f]]
    /\ \A f \in Files :
        disk[f] \in [name : Inodes(f), tmp : Inodes(f), undone : SUBSET Inodes(f)]

\* A task that saves has a value for its file and, once it has created one, a file
\* descriptor.
Saving(s) ==
    /\ saves[s] \in [file : Files, value : BOOLEAN \cup Calibrations,
                     stage : {"create", "write", "sync", "rename"},
                     fd : {None, "tmp", "name", "gone"}]
    /\ saves[s].value \in Contents(saves[s].file)
    /\ saves[s].stage # "create" => saves[s].fd \in {"tmp", "name", "gone"}

\* Whoever saves.
SavesOK ==
    /\ saves = [s \in Savers |-> saves[s]]
    /\ \A s \in Savers : Saves(s) => Saving(s)

\* The configuration the features run on.
ConfigOK ==
    live \in [vehicle_line : Calibrations, variant : Calibrations, dealer : DealerConfigs]

\* A bus carries values, and the bridge knows some of them or none.
BridgeOK ==
    /\ bus \in [Signals -> Values \cup {None}]
    /\ output \in [Signals -> Values \cup {None}]
    /\ behind \in [Signals -> Seq(Values)]
    /\ dirty \in BOOLEAN /\ batching \in BOOLEAN

\* A gate opens in a boot there has been.
BootOK ==
    /\ team \in Teams
    /\ boot \in [id : Nat \ {0}, phase : {"down", "loading", "spawned", "running"},
                unseen : BOOLEAN]
    /\ counter \in Nat
    /\ ready \subseteq 1..boot.id
    /\ plant \in BOOLEAN \cup {None}

\* A connection is of this boot or of an earlier one; served is who has the configuration.
ConnOK ==
    /\ conn \in [Clients -> Conns \cup {None}]
    /\ \A c \in Clients : Open(c) =>
        /\ conn[c].phase = "serving" => conn[c].view \in ConfigMsgs
        /\ conn[c].boot <= boot.id
        /\ conn[c].boot = boot.id => boot.phase \in {"spawned", "running"}

\* All of it.
StackTypes == DiskOK /\ SavesOK /\ ConfigOK /\ BridgeOK /\ BootOK /\ ConnOK

-----------------------------------------------------------------------------

\* What f's name stands for, or may stand for after a power cut, is whole; one task at most
\* saves f, and its temporary file is where the save's stage has brought it.
Clean(i) == i = None \/ (i.synced /\ i.holds # Torn)

\* s saves f alone.
SaveInv(f, s) ==
    /\ \A r \in Savers : (Saves(r) /\ saves[r].file = f) => r = s
    /\ saves[s].stage # "create" => saves[s].fd = "tmp"
    /\ saves[s].stage = "write" => disk[f].tmp = Inode(Torn, FALSE)
    /\ saves[s].stage = "sync" => disk[f].tmp = Inode(saves[s].value, FALSE)
    /\ saves[s].stage = "rename" => disk[f].tmp = Inode(saves[s].value, TRUE)

\* Whatever happens next, f is whole.
FileInv(f) ==
    /\ \A i \in {disk[f].name} \cup disk[f].undone : Clean(i)
    /\ \A s \in Savers : (Saves(s) /\ saves[s].file = f) => SaveInv(f, s)

\* A file that two tasks have saved at once is excepted.
StorageInv == \A f \in Files \ crossed : FileInv(f)

\* A connection has been told of the end of its boot before the boot has ended.
RebootInv ==
    /\ OldConnectionsClose
    /\ \A c \in Clients :
        (OfThisBoot(c) /\ boot.unseen) =>
            conn[c].phase = "accepted" \/ conn[c].unseen \/ conn[c].late

\* c sets a field of the configuration.
Setting(c) == OfThisBoot(c) /\ conn[c].job # None /\ conn[c].job.op = "config_set"

\* The user of c has set one, and the bridge has not heard of it.
Edited(c) == \E i \in DOMAIN conn[c].inbox : conn[c].inbox[i].op = "config_set"

\* The last that c is told, or has been told, is the configuration, but for what its own
\* user has set since.
Fresh(c) ==
    \/ conn[c].configs # <<>> /\ Last(conn[c].configs) = ConfigMsg
    \/ /\ conn[c].configs = <<>>
       /\ conn[c].phase = "serving" => (conn[c].view = ConfigMsg \/ Edited(c))

\* Of two connections one at most sets; the configuration it will broadcast is the one
\* there is; and whoever is not told by it is told, or has been told, the same.
ViewInv ==
    ~overlap =>
        /\ \A c, d \in Clients : (Setting(c) /\ Setting(d)) => c = d
        /\ \A c \in Clients :
            (Setting(c) /\ conn[c].job.stage = "built") => conn[c].job.msg = ConfigMsg
        /\ \A c \in Clients :
            OfThisBoot(c) => ((\E d \in Clients : Setting(d)) \/ Fresh(c))

\* The last value of a signal is known, or is the last to be read.
OutputInv ==
    \A s \in Signals :
        IF behind[s] = <<>> THEN output[s] = bus[s] ELSE Last(behind[s]) = bus[s]

\* The user of c has switched n, and the bridge has not heard of it.
Switched(c, n) ==
    \E i \in DOMAIN conn[c].inbox :
        conn[c].inbox[i].op = "sensor" /\ conn[c].inbox[i].path = n

\* What c shows under the name n is not the last word.
Pending(c, n) == behind[FromHmi[n]] # <<>> \/ Switched(c, n)

\* What c is told last is what the bridge knows, unless the broadcaster is about to tell
\* more; it shows that, unless it is told more, has switched or a value is to be read.
ShowOf(c) ==
    /\ \/ dirty \/ batching \/ conn[c].updates = <<>>
       \/ Last(conn[c].updates) = StateMsg(output)
    /\ \A n \in HmiNames :
        /\ \A i \in DOMAIN conn[c].updates :
            conn[c].updates[i][n] # None => output[FromHmi[n]] # None
        /\ conn[c].shows[n] # None => (output[FromHmi[n]] # None \/ Pending(c, n))
        /\ conn[c].phase \in {"shown", "serving"} =>
            \/ dirty \/ batching \/ conn[c].updates # <<>>
            \/ conn[c].shows[n] = output[FromHmi[n]]
            \/ Pending(c, n)

\* Who has passed the gate has seen the essential signals.
EssentialOf(c) ==
    /\ conn[c].phase \in {"passed", "shown", "serving"} => boot.id \in ready
    /\ conn[c].phase \in {"shown", "serving"} =>
        \A s \in Essential : conn[c].shows[ToHmi(s)] # None

\* The gate opens on the essential signals.
ReadyInv == boot.id \in ready => AllEssential(output)

\* This holds for every connection of this boot; those of an earlier one get no news.
ShowInv == \A c \in Clients : OfThisBoot(c) => (ShowOf(c) /\ EssentialOf(c))

-----------------------------------------------------------------------------
(* Queues.                                                                 *)

\* What is left of a queue whose head is taken.
LEMMA TailOf ==
    ASSUME NEW S, NEW q \in Seq(S), q # <<>>
    PROVE  /\ Head(q) \in S /\ Head(q) = q[1] /\ 1 \in DOMAIN q
           /\ Tail(q) \in Seq(S)
           /\ \A i \in DOMAIN Tail(q) : i + 1 \in DOMAIN q /\ Tail(q)[i] = q[i + 1]
           /\ \A i \in DOMAIN q \ {1} : i - 1 \in DOMAIN Tail(q) /\ Tail(q)[i - 1] = q[i]
           /\ IF Tail(q) = <<>> THEN Last(q) = Head(q) ELSE Last(Tail(q)) = Last(q)
<1>1. /\ Tail(q) \in Seq(S) /\ Len(Tail(q)) = Len(q) - 1
      /\ \A i \in 1..Len(Tail(q)) : Tail(q)[i] = q[i + 1]
      /\ Len(q) \in Nat \ {0} /\ DOMAIN q = 1..Len(q) /\ DOMAIN Tail(q) = 1..Len(Tail(q))
  BY HeadTailProperties, EmptySeq, LenProperties
<1>2. Head(q) \in S /\ Head(q) = q[1]
  BY <1>1
<1>3. Tail(q) = <<>> => Len(q) = 1
  BY <1>1, EmptySeq
<1>4. Tail(q) # <<>> => Len(Tail(q)) \in Nat \ {0}
  BY <1>1, EmptySeq
<1>5. QED
  BY <1>1, <1>2, <1>3, <1>4 DEF Last

\* A queue that a message is added to.
LEMMA AppendOf ==
    ASSUME NEW S, NEW q \in Seq(S), NEW m \in S
    PROVE  /\ Append(q, m) \in Seq(S) /\ Append(q, m) # <<>>
           /\ Last(Append(q, m)) = m
           /\ DOMAIN Append(q, m) = (DOMAIN q) \cup {Len(q) + 1}
           /\ \A i \in DOMAIN q : Append(q, m)[i] = q[i]
           /\ Append(q, m)[Len(q) + 1] = m
<1>1. Append(q, m) \in Seq(S) /\ Len(Append(q, m)) = Len(q) + 1 /\ Len(q) \in Nat
  BY AppendProperties, LenProperties
<1>2. DOMAIN q = 1..Len(q) /\ DOMAIN Append(q, m) = 1..(Len(q) + 1)
  BY <1>1, LenProperties
<1>3. QED
  BY <1>1, <1>2, AppendProperties DEF Last

\* A bounded channel that a message is sent on: the oldest makes room.
Pushed(q, m) == IF Len(q) < Room THEN Append(q, m) ELSE Append(Tail(q), m)

\* What such a channel holds then.
LEMMA PushOf ==
    ASSUME NEW S, NEW q \in Seq(S), NEW m \in S
    PROVE  /\ Pushed(q, m) \in Seq(S) /\ Pushed(q, m) # <<>> /\ Last(Pushed(q, m)) = m
           /\ \A i \in DOMAIN Pushed(q, m) :
                Pushed(q, m)[i] = m \/ \E j \in DOMAIN q : Pushed(q, m)[i] = q[j]
<1> DEFINE t == Pushed(q, m)
<1>1. CASE Len(q) < Room
  <2>1. t = Append(q, m)
    BY <1>1 DEF Pushed
  <2>2. QED
    BY <2>1, AppendOf
<1>2. CASE ~(Len(q) < Room)
  <2>1. q # <<>>
    BY <1>2, BridgeAssumption, EmptySeq
  <2>2. /\ Tail(q) \in Seq(S)
        /\ \A i \in DOMAIN Tail(q) : \E j \in DOMAIN q : Tail(q)[i] = q[j]
    BY <2>1, TailOf
  <2>3. /\ t \in Seq(S) /\ t # <<>> /\ Last(t) = m
        /\ DOMAIN t = (DOMAIN Tail(q)) \cup {Len(Tail(q)) + 1}
        /\ \A i \in DOMAIN Tail(q) : t[i] = Tail(q)[i]
        /\ t[Len(Tail(q)) + 1] = m
    <3>1. t = Append(Tail(q), m)
      BY <1>2 DEF Pushed
    <3> DEFINE p == Tail(q)
    <3>2. p \in Seq(S)
      BY <2>2
    <3> HIDE DEF p
    <3>3. /\ Append(p, m) \in Seq(S) /\ Append(p, m) # <<>> /\ Last(Append(p, m)) = m
          /\ DOMAIN Append(p, m) = (DOMAIN p) \cup {Len(p) + 1}
          /\ \A i \in DOMAIN p : Append(p, m)[i] = p[i]
          /\ Append(p, m)[Len(p) + 1] = m
      BY <3>2, AppendOf
    <3>4. QED
      BY <3>1, <3>3 DEF p
  <2>4. QED
    BY <2>2, <2>3
<1>3. QED
  BY <1>1, <1>2

-----------------------------------------------------------------------------
(* Names and messages.                                                     *)

\* An HMI's names and the signals go together one to one.
LEMMA Names ==
    /\ \A n \in HmiNames : FromHmi[n] \in Signals /\ ToHmi(FromHmi[n]) = n
    /\ \A s \in Signals : ToHmi(s) \in HmiNames /\ FromHmi[ToHmi(s)] = s
<1>1. \A s, r \in Signals : ToHmi(s) = ToHmi(r) => s = r
  BY BridgeAssumption DEF ToHmi
<1>2. \A n \in HmiNames : FromHmi[n] \in Signals /\ ToHmi(FromHmi[n]) = n
  BY DEF FromHmi, HmiNames
<1>3. \A s \in Signals : ToHmi(s) \in HmiNames
  BY DEF HmiNames
<1>4. QED
  BY <1>1, <1>2, <1>3

\* What is known of the bus as an HMI is told it.
LEMMA StateMsgType ==
    ASSUME NEW snapshot \in [Signals -> Values \cup {None}]
    PROVE  StateMsg(snapshot) \in States
  BY Names DEF StateMsg, States

\* What an HMI shows when it has been told something.
LEMMA MergedType ==
    ASSUME NEW shows \in States, NEW state \in States
    PROVE  Merged(shows, state) \in States
  BY DEF Merged, States

\* The configuration as an HMI is told it.
LEMMA ConfigMsgType == ConfigOK => ConfigMsg \in ConfigMsgs
  BY DEF ConfigOK, ConfigMsg, ConfigMsgs, Calibrations

-----------------------------------------------------------------------------
(* What each step does to a connection.                                    *)

\* The fields of a connection.
ConnFields == {"phase", "boot", "unseen", "late", "updates", "configs", "deaf", "inbox", "job",
               "shows", "view"}

\* Only connection c changes, and of it only the fields fs.
Changes(c, fs) ==
    /\ conn[c] \in Conns /\ conn'[c] \in Conns
    /\ conn' = [conn EXCEPT ![c] = conn'[c]]
    /\ \A x \in ConnFields \ fs : conn'[c][x] = conn[c][x]

\* A new connection is of this boot.
LEMMA AcceptEffect ==
    ASSUME StackTypes, NEW c \in Clients, Accept(c)
    PROVE  /\ conn' = [conn EXCEPT ![c] = NewConn] /\ NewConn \in Conns
           /\ boot.phase \in {"spawned", "running"}
           /\ Unmoved
<1>1. Unknown \in [Signals -> Values \cup {None}]
  BY DEF Unknown
<1>2. boot.id \in Nat
  BY DEF StackTypes, BootOK
<1>3. NewConn \in Conns
  BY <1>1, <1>2, StateMsgType, EmptySeq DEF NewConn, Conns
<1>4. QED
  BY <1>3 DEF Accept

\* It subscribes to the reboots.
LEMMA SubscribeEffect ==
    ASSUME ConnOK, NEW c \in Clients, Subscribe(c)
    PROVE  /\ Changes(c, {"phase", "late"}) /\ Unmoved
           /\ conn[c].phase = "accepted" /\ conn'[c].phase = "waiting"
           /\ conn'[c].late = (~OfThisBoot(c) \/ boot.unseen)
<1> DEFINE late == ~OfThisBoot(c) \/ boot.unseen
<1>1. late \in BOOLEAN
  OBVIOUS
<1>2. conn' = [conn EXCEPT ![c].phase = "waiting", ![c].late = late] /\ Unmoved
  BY DEF Subscribe
<1>3. conn[c] \in Conns /\ conn[c].phase = "accepted"
  BY DEF ConnOK, Subscribe, InPhase, Open
<1> HIDE DEF late
<1>4. Changes(c, {"phase", "late"}) /\ conn'[c].phase = "waiting" /\ conn'[c].late = late
  BY <1>1, <1>2, <1>3 DEF Changes, ConnFields, ConnOK, Conns
<1>5. QED
  BY <1>2, <1>3, <1>4 DEF late

\* It passes the gate of its boot.
LEMMA PassGateEffect ==
    ASSUME ConnOK, NEW c \in Clients, PassGate(c)
    PROVE  /\ Changes(c, {"phase"}) /\ Unmoved
           /\ conn[c].phase = "waiting" /\ conn'[c].phase = "passed"
           /\ conn[c].boot \in ready
  BY DEF Changes, ConnFields, ConnOK, Conns, PassGate, InPhase, Open

\* It is sent what the bridge of its boot knows.
LEMMA SendSnapshotEffect ==
    ASSUME StackTypes, NEW c \in Clients, SendSnapshot(c)
    PROVE  /\ Changes(c, {"phase", "shows"}) /\ Unmoved
           /\ conn[c].phase = "passed" /\ conn'[c].phase = "shown"
           /\ conn'[c].shows = IF OfThisBoot(c) THEN Merged(conn[c].shows, StateMsg(output))
                               ELSE conn[c].shows
<1>1. conn[c] \in Conns
  BY DEF StackTypes, ConnOK, SendSnapshot, InPhase, Open
<1> DEFINE shows == IF OfThisBoot(c) THEN Merged(conn[c].shows, StateMsg(output))
                    ELSE conn[c].shows
<1>2. shows \in States
  BY <1>1, StateMsgType, MergedType DEF StackTypes, BridgeOK, Conns
<1>3. conn' = [conn EXCEPT ![c].phase = "shown", ![c].shows = shows]
  BY DEF SendSnapshot
<1> HIDE DEF shows
<1>4. /\ Changes(c, {"phase", "shows"}) /\ conn'[c].phase = "shown" /\ conn'[c].shows = shows
  BY <1>1, <1>2, <1>3 DEF Changes, ConnFields, StackTypes, ConnOK, Conns
<1>5. QED
  BY <1>4 DEF SendSnapshot, InPhase, shows

\* It is sent the configuration and served.
LEMMA SendConfigEffect ==
    ASSUME StackTypes, NEW c \in Clients, SendConfig(c)
    PROVE  /\ Changes(c, {"phase", "view"}) /\ Unmoved
           /\ conn[c].phase = "shown" /\ conn'[c].phase = "serving"
           /\ conn'[c].view = ConfigMsg /\ ConfigMsg \in ConfigMsgs
  BY ConfigMsgType
  DEF Changes, ConnFields, StackTypes, ConnOK, Conns, SendConfig, InPhase, Open

\* It closes.
LEMMA ClosesEffect ==
    ASSUME NEW c \in Clients, SeesReboot(c) \/ Disconnect(c)
    PROVE  conn' = [conn EXCEPT ![c] = None] /\ Unmoved
  BY DEF SeesReboot, Disconnect

\* An update is passed on.
LEMMA ForwardUpdateEffect ==
    ASSUME StackTypes, NEW c \in Clients, ForwardUpdate(c)
    PROVE  /\ Changes(c, {"updates", "deaf", "shows"}) /\ Unmoved
           /\ conn[c].phase = "serving"
           /\ conn[c].updates # <<>> /\ conn'[c].updates = Tail(conn[c].updates)
           /\ conn'[c].shows = Merged(conn[c].shows, Head(conn[c].updates))
<1>1. conn[c] \in Conns /\ conn[c].phase = "serving" /\ conn[c].updates # <<>>
  BY DEF StackTypes, ConnOK, ForwardUpdate, Selects, InPhase, Open
<1>2. /\ Tail(conn[c].updates) \in Seq(States)
      /\ Merged(conn[c].shows, Head(conn[c].updates)) \in States
  BY <1>1, TailOf, MergedType DEF Conns
<1>3. QED
  BY <1>1, <1>2 DEF Changes, ConnFields, StackTypes, ConnOK, Conns, ForwardUpdate

\* A configuration is passed on.
LEMMA ForwardConfigEffect ==
    ASSUME StackTypes, NEW c \in Clients, ForwardConfig(c)
    PROVE  /\ Changes(c, {"configs", "deaf", "view"}) /\ Unmoved
           /\ conn[c].phase = "serving"
           /\ conn[c].configs # <<>> /\ conn'[c].configs = Tail(conn[c].configs)
           /\ conn'[c].view = Head(conn[c].configs) /\ conn'[c].view \in ConfigMsgs
<1>1. conn[c] \in Conns /\ conn[c].phase = "serving" /\ conn[c].configs # <<>>
  BY DEF StackTypes, ConnOK, ForwardConfig, Selects, InPhase, Open
<1>2. Tail(conn[c].configs) \in Seq(ConfigMsgs) /\ Head(conn[c].configs) \in ConfigMsgs
  BY <1>1, TailOf DEF Conns
<1>3. QED
  BY <1>1, <1>2 DEF Changes, ConnFields, StackTypes, ConnOK, Conns, ForwardConfig

\* The branch of the loop that hears a message takes it from the inbox.
LEMMA HearsEffect ==
    ASSUME ConnOK, NEW c \in Clients, NEW op, Hears(c, op)
    PROVE  /\ conn[c] \in Conns /\ conn[c].phase = "serving" /\ conn[c].job = None
           /\ conn[c].inbox \in Seq(Messages) /\ conn[c].inbox # <<>>
           /\ Head(conn[c].inbox) \in Messages /\ Head(conn[c].inbox).op = op
           /\ Tail(conn[c].inbox) \in Seq(Messages)
<1>1. /\ conn[c] \in Conns /\ conn[c].phase = "serving" /\ conn[c].job = None
      /\ conn[c].inbox # <<>> /\ Head(conn[c].inbox).op = op
  BY DEF ConnOK, Hears, Selects, InPhase, Open
<1>2. conn[c].inbox \in Seq(Messages)
  BY <1>1 DEF Conns
<1>3. QED
  BY <1>1, <1>2, TailOf

\* A switch is heard.
LEMMA HandleSensorEffect ==
    ASSUME ConnOK, NEW c \in Clients, HandleSensor(c)
    PROVE  /\ Changes(c, {"inbox", "deaf"})
           /\ conn[c].inbox # <<>> /\ Head(conn[c].inbox).op = "sensor"
           /\ conn'[c].inbox = Tail(conn[c].inbox)
<1>1. /\ Hears(c, "sensor")
      /\ conn' = [conn EXCEPT ![c] = [conn[c] EXCEPT !.inbox = Tail(conn[c].inbox),
                                                     !.deaf = {}, !.job = None]]
  BY DEF HandleSensor, Heard
<1>2. /\ conn[c] \in Conns /\ conn[c].job = None
      /\ conn[c].inbox # <<>> /\ Head(conn[c].inbox).op = "sensor"
      /\ Tail(conn[c].inbox) \in Seq(Messages)
  BY <1>1, HearsEffect
<1>3. QED
  BY <1>1, <1>2 DEF Changes, ConnFields, ConnOK, Conns

\* A setting is copied with the field the message names changed.
LEMMA CopyTierEffect ==
    ASSUME StackTypes, NEW c \in Clients, CopyTier(c)
    PROVE  /\ Changes(c, {"inbox", "deaf", "job"})
           /\ conn[c].inbox # <<>> /\ Head(conn[c].inbox).op = "config_set"
           /\ conn'[c].inbox = Tail(conn[c].inbox)
           /\ conn'[c].job \in TierJobs /\ conn'[c].job.stage = "copied"
           /\ conn[c].job = None /\ conn'[c].job # None
<1> DEFINE m == Head(conn[c].inbox)
           job == [op |-> "config_set", stage |-> "copied", tier |-> m.tier,
                   new |-> [live[m.tier] EXCEPT ![m.field] = m.value]]
<1>1. Hears(c, "config_set") /\ ConnOK
  BY DEF CopyTier, StackTypes
<1>2. m \in Messages /\ m.op = "config_set"
  BY <1>1, HearsEffect
<1>3. PICK k \in Settable :
         m = [op |-> "config_set", tier |-> k[1], field |-> k[2], value |-> 1]
  BY <1>2 DEF Messages
<1>4. <<m.tier, m.field>> \in Settable /\ <<m.tier, m.field>> = k /\ m.value = 1
  BY <1>3 DEF Settable
<1>5. job \in TierJobs
  <2>1. CASE k[1] = "variant"
    <3>1. m.tier = "variant" /\ m.field = "seen"
      BY <1>3, <2>1 DEF Settable
    <3>2. [live["variant"] EXCEPT !["seen"] = 1] \in Calibrations
      BY DEF StackTypes, ConfigOK, Calibrations
    <3>3. QED
      BY <1>4, <3>1, <3>2 DEF TierJobs
  <2>2. CASE k[1] = "dealer"
    <3>1. m.tier = "dealer" /\ m.field \in {"first", "second"}
      BY <1>3, <2>2 DEF Settable
    <3>2. [live["dealer"] EXCEPT ![m.field] = 1] \in DealerConfigs
      BY <3>1 DEF StackTypes, ConfigOK, DealerConfigs
    <3>3. QED
      BY <1>4, <3>1, <3>2 DEF TierJobs
  <2>3. QED
    BY <2>1, <2>2 DEF Settable
<1>6. conn' = [conn EXCEPT ![c] = [conn[c] EXCEPT !.inbox = Tail(conn[c].inbox),
                                                  !.deaf = {}, !.job = job]]
  BY <1>4 DEF CopyTier, Heard
<1>7. job \in Jobs /\ job # None /\ job.stage = "copied"
  BY <1>5, PlatformAssumption DEF Jobs
<1>8. /\ conn[c] \in Conns /\ conn[c].job = None
      /\ conn[c].inbox # <<>> /\ Tail(conn[c].inbox) \in Seq(Messages)
  BY <1>1, HearsEffect
<1> HIDE DEF m, job
<1>9. /\ Changes(c, {"inbox", "deaf", "job"}) /\ conn'[c].inbox = Tail(conn[c].inbox)
      /\ conn'[c].job = job
  BY <1>1, <1>6, <1>7, <1>8 DEF Changes, ConnFields, ConnOK, Conns
<1>10. QED
  BY <1>2, <1>5, <1>7, <1>8, <1>9 DEF m

\* The copy becomes the configuration the features run on.
LEMMA StoreTierEffect ==
    ASSUME StackTypes, NEW c \in Clients, StoreTier(c)
    PROVE  /\ Changes(c, {"job"})
           /\ conn[c].job # None /\ conn[c].job \in TierJobs
           /\ conn'[c].job \in TierJobs /\ conn'[c].job # None
           /\ conn'[c].job.stage = "stored"
           /\ ConfigOK'
<1>1. /\ conn[c] \in Conns /\ conn[c].job \in Jobs /\ conn[c].job # None
      /\ conn[c].job.op = "config_set" /\ conn[c].job.stage = "copied"
  BY DEF StackTypes, ConnOK, StoreTier, Job, Open, Conns
<1>2. conn[c].job \in TierJobs
  BY <1>1 DEF Jobs
<1>3. [conn[c].job EXCEPT !.stage = "stored"] \in TierJobs
  BY <1>2 DEF TierJobs
<1>4. [conn[c].job EXCEPT !.stage = "stored"].stage = "stored"
  BY <1>2 DEF TierJobs
<1>5. conn' = [conn EXCEPT ![c] = [conn[c] EXCEPT !.job = [conn[c].job EXCEPT !.stage = "stored"]]]
  BY DEF StoreTier
<1> DEFINE job == [conn[c].job EXCEPT !.stage = "stored"]
<1>6. job \in Jobs /\ job # None
  BY <1>3, PlatformAssumption DEF Jobs
<1>7. Changes(c, {"job"}) /\ conn'[c].job = job
  <2> HIDE DEF job
  <2>1. conn' = [conn EXCEPT ![c] = [conn[c] EXCEPT !.job = job]]
    BY <1>5 DEF job
  <2>2. QED
    BY <1>1, <1>6, <2>1 DEF Changes, ConnFields, StackTypes, ConnOK, Conns
<1>8. ConfigOK'
  BY <1>2 DEF StoreTier, StackTypes, ConfigOK, TierJobs
<1>9. QED
  BY <1>1, <1>2, <1>3, <1>4, <1>6, <1>7, <1>8

\* What will be broadcast is the configuration there is at this moment.
LEMMA BuildConfigEffect ==
    ASSUME StackTypes, NEW c \in Clients, BuildConfig(c)
    PROVE  /\ Changes(c, {"job"}) /\ Unmoved
           /\ conn[c].job # None /\ conn[c].job.op = "config_set"
           /\ conn'[c].job # None /\ conn'[c].job.op = "config_set"
           /\ conn'[c].job.stage = "built" /\ conn'[c].job.msg = ConfigMsg
<1> DEFINE job == [op |-> "config_set", stage |-> "built", msg |-> ConfigMsg]
<1>1. job \in Jobs /\ job # None
  BY ConfigMsgType, PlatformAssumption DEF Jobs, StackTypes
<1>2. conn[c] \in Conns /\ conn[c].job # None /\ conn[c].job.op = "config_set"
  BY DEF StackTypes, ConnOK, BuildConfig, Job, Open
<1>3. conn' = [conn EXCEPT ![c].job = job] /\ Unmoved
  BY DEF BuildConfig
<1>4. job.op = "config_set" /\ job.stage = "built" /\ job.msg = ConfigMsg
  OBVIOUS
<1> HIDE DEF job
<1>5. Changes(c, {"job"}) /\ conn'[c].job = job
  BY <1>1, <1>2, <1>3 DEF Changes, ConnFields, StackTypes, ConnOK, Conns
<1>6. QED
  BY <1>1, <1>2, <1>3, <1>4, <1>5

\* A broadcast reaches every connection of this boot, as the last of what it has not
\* forwarded.
LEMMA BroadcastEffect ==
    ASSUME ConnOK, NEW channel \in {"updates", "configs"}, NEW msg,
           IF channel = "updates" THEN msg \in States ELSE msg \in ConfigMsgs,
           NEW all, all = Broadcast(channel, msg)
    PROVE  /\ all \in [Clients -> Conns \cup {None}]
           /\ \A c \in Clients : ~OfThisBoot(c) => all[c] = conn[c]
           /\ \A c \in Clients : OfThisBoot(c) =>
                /\ all[c] \in Conns
                /\ all[c][channel] # <<>> /\ Last(all[c][channel]) = msg
                /\ \A i \in DOMAIN all[c][channel] :
                     \/ all[c][channel][i] = msg
                     \/ \E j \in DOMAIN conn[c][channel] :
                           all[c][channel][i] = conn[c][channel][j]
                /\ \A x \in ConnFields \ {channel, "deaf"} : all[c][x] = conn[c][x]
<1>1. ASSUME NEW c \in Clients, OfThisBoot(c)
      PROVE  LET r == Sent(conn[c], channel, msg) IN
                /\ r \in Conns
                /\ r[channel] # <<>> /\ Last(r[channel]) = msg
                /\ \A i \in DOMAIN r[channel] :
                     \/ r[channel][i] = msg
                     \/ \E j \in DOMAIN conn[c][channel] : r[channel][i] = conn[c][channel][j]
                /\ \A x \in ConnFields \ {channel, "deaf"} : r[x] = conn[c][x]
  <2> DEFINE q == conn[c][channel]
             t == Pushed(q, msg)
             d == IF Len(q) < Room THEN conn[c].deaf ELSE conn[c].deaf \cup {channel}
             r == Sent(conn[c], channel, msg)
  <2>1. conn[c] \in Conns
    BY <1>1 DEF OfThisBoot, Open, ConnOK
  <2>2. /\ t # <<>> /\ Last(t) = msg
        /\ channel = "updates" => t \in Seq(States)
        /\ channel = "configs" => t \in Seq(ConfigMsgs)
        /\ \A i \in DOMAIN t : t[i] = msg \/ \E j \in DOMAIN q : t[i] = q[j]
    <3> HIDE DEF q
    <3>1. CASE channel = "updates"
      <4>1. q \in Seq(States) /\ msg \in States
        BY <2>1, <3>1 DEF Conns, q
      <4>2. QED
        BY <3>1, <4>1, PushOf
    <3>2. CASE channel = "configs"
      <4>1. q \in Seq(ConfigMsgs) /\ msg \in ConfigMsgs
        BY <2>1, <3>2 DEF Conns, q
      <4>2. QED
        BY <3>2, <4>1, PushOf
    <3>3. QED
      BY <3>1, <3>2
  <2>3. d \in SUBSET {"updates", "configs"}
    BY <2>1 DEF Conns
  <2>4. r = [[conn[c] EXCEPT ![channel] = t] EXCEPT !.deaf = d]
    BY <2>1 DEF Sent, Pushed, Conns
  <2> HIDE DEF t, d, r
  <2>5. /\ r \in Conns /\ r[channel] = t
        /\ \A x \in ConnFields \ {channel, "deaf"} : r[x] = conn[c][x]
    <3>1. CASE channel = "updates"
      BY <2>1, <2>2, <2>3, <2>4, <3>1 DEF Conns, ConnFields
    <3>2. CASE channel = "configs"
      BY <2>1, <2>2, <2>3, <2>4, <3>2 DEF Conns, ConnFields
    <3>3. QED
      BY <3>1, <3>2
  <2>6. QED
    BY <2>2, <2>5 DEF r
<1>2. \A c \in Clients : all[c] = IF OfThisBoot(c) THEN Sent(conn[c], channel, msg) ELSE conn[c]
  BY DEF Broadcast
<1>3. \A c \in Clients : conn[c] \in Conns \cup {None}
  BY DEF ConnOK
<1>4. all = [c \in Clients |-> all[c]]
  BY DEF Broadcast
<1>5. QED
  BY <1>1, <1>2, <1>3, <1>4

\* The broadcaster sends what is known.
LEMMA BroadcasterSendsEffect ==
    ASSUME StackTypes, BroadcasterSends
    PROVE  /\ conn' \in [Clients -> Conns \cup {None}]
           /\ \A c \in Clients : ~OfThisBoot(c) => conn'[c] = conn[c]
           /\ \A c \in Clients : OfThisBoot(c) =>
                /\ conn'[c].updates # <<>> /\ Last(conn'[c].updates) = StateMsg(output)
                /\ \A i \in DOMAIN conn'[c].updates :
                     \/ conn'[c].updates[i] = StateMsg(output)
                     \/ \E j \in DOMAIN conn[c].updates :
                           conn'[c].updates[i] = conn[c].updates[j]
                /\ \A x \in ConnFields \ {"updates", "deaf"} : conn'[c][x] = conn[c][x]
<1>1. conn' = Broadcast("updates", StateMsg(output))
  BY DEF BroadcasterSends
<1>2. StateMsg(output) \in States /\ ConnOK
  BY StateMsgType DEF StackTypes, BridgeOK
<1>3. QED
  BY <1>1, <1>2, BroadcastEffect

\* Whoever is served gets the new configuration, and the connection is done.
LEMMA BroadcastConfigEffect ==
    ASSUME StackTypes, NEW c \in Clients, BroadcastConfig(c)
    PROVE  /\ Unmoved
           /\ conn[c].job # None
           /\ conn[c].job.op = "config_set" /\ conn[c].job.stage = "built"
           /\ conn' \in [Clients -> Conns \cup {None}]
           /\ conn'[c].job = None
           /\ \A d \in Clients : Open(d)' =>
                /\ Open(d)
                /\ \A x \in ConnFields \ {"configs", "deaf", "job"} : conn'[d][x] = conn[d][x]
                /\ d # c => conn'[d].job = conn[d].job
                /\ ~OfThisBoot(c) => conn'[d].configs = conn[d].configs
                /\ (OfThisBoot(c) /\ OfThisBoot(d)) =>
                      conn'[d].configs # <<>> /\ Last(conn'[d].configs) = conn[c].job.msg
<1> DEFINE all == IF OfThisBoot(c) THEN Broadcast("configs", conn[c].job.msg) ELSE conn
<1>1. /\ conn[c] \in Conns /\ conn[c].job \in Jobs /\ conn[c].job # None
      /\ conn[c].job.op = "config_set" /\ conn[c].job.stage = "built"
      /\ Open(c) /\ ConnOK
  BY DEF StackTypes, ConnOK, BroadcastConfig, Job, Open, Conns
<1>2. conn[c].job.msg \in ConfigMsgs
  BY <1>1 DEF Jobs, TierJobs
<1>3. conn' = [all EXCEPT ![c].job = None] /\ Unmoved
  BY DEF BroadcastConfig
<1>4. /\ all \in [Clients -> Conns \cup {None}]
      /\ \A d \in Clients : conn[d] = None => all[d] = None
      /\ all[c] \in Conns
      /\ \A d \in Clients : Open(d) =>
            /\ all[d] \in Conns
            /\ \A x \in ConnFields \ {"configs", "deaf"} : all[d][x] = conn[d][x]
            /\ ~OfThisBoot(c) => all[d].configs = conn[d].configs
            /\ (OfThisBoot(c) /\ OfThisBoot(d)) =>
                  all[d].configs # <<>> /\ Last(all[d].configs) = conn[c].job.msg
  <2>1. CASE OfThisBoot(c)
    <3>1. all = Broadcast("configs", conn[c].job.msg)
      BY <2>1
    <3> HIDE DEF all
    <3>2. /\ all \in [Clients -> Conns \cup {None}]
          /\ \A d \in Clients : ~OfThisBoot(d) => all[d] = conn[d]
          /\ \A d \in Clients : OfThisBoot(d) =>
               /\ all[d] \in Conns
               /\ all[d]["configs"] # <<>> /\ Last(all[d]["configs"]) = conn[c].job.msg
               /\ \A x \in ConnFields \ {"configs", "deaf"} : all[d][x] = conn[d][x]
      BY <1>1, <1>2, <3>1, BroadcastEffect
    <3>3. \A d \in Clients : Open(d) => conn[d] \in Conns
      BY <1>1 DEF ConnOK, Open
    <3>4. QED
      BY <1>1, <2>1, <3>2, <3>3 DEF OfThisBoot, Open
  <2>2. CASE ~OfThisBoot(c)
    BY <1>1, <2>2 DEF ConnOK, Open
  <2>3. QED
    BY <2>1, <2>2
<1> HIDE DEF all
<1>5. /\ conn' \in [Clients -> Conns \cup {None}]
      /\ conn'[c].job = None
      /\ \A x \in ConnFields \ {"job"} : conn'[c][x] = all[c][x]
      /\ \A d \in Clients \ {c} : conn'[d] = all[d]
  BY <1>3, <1>4 DEF Conns, ConnFields
<1>6. \A d \in Clients : Open(d)' => Open(d)
  BY <1>1, <1>4, <1>5 DEF Open
<1>7. QED
  BY <1>1, <1>3, <1>4, <1>5, <1>6 DEF ConnFields

\* A request to reboot is heard.
LEMMA HandleRebootEffect ==
    ASSUME StackTypes, NEW c \in Clients, HandleReboot(c)
    PROVE  /\ Changes(c, {"inbox", "deaf", "job"}) /\ Unmoved
           /\ conn[c].job = None
           /\ conn[c].inbox # <<>> /\ Head(conn[c].inbox).op = "reboot"
           /\ conn'[c].inbox = Tail(conn[c].inbox)
           /\ conn'[c].job.op = "reboot"
<1> DEFINE m == Head(conn[c].inbox)
           job == [op |-> "reboot", stage |-> "saving", sections |-> m.sections]
<1>1. Hears(c, "reboot") /\ ConnOK
  BY DEF HandleReboot, StackTypes
<1>2. /\ conn[c] \in Conns /\ conn[c].job = None
      /\ conn[c].inbox # <<>> /\ Tail(conn[c].inbox) \in Seq(Messages)
      /\ m \in Messages /\ m.op = "reboot"
  BY <1>1, HearsEffect
<1>3. job \in Jobs /\ job.op = "reboot"
  BY <1>2 DEF Messages, Jobs
<1>4. conn' = [conn EXCEPT ![c] = [conn[c] EXCEPT !.inbox = Tail(conn[c].inbox),
                                                  !.deaf = {}, !.job = job]]
  BY DEF HandleReboot, Heard
<1>5. m.op = "reboot" /\ Unmoved
  BY <1>2 DEF HandleReboot
<1> HIDE DEF job
<1>6. /\ Changes(c, {"inbox", "deaf", "job"}) /\ conn'[c].inbox = Tail(conn[c].inbox)
      /\ conn'[c].job = job
  BY <1>1, <1>2, <1>3, <1>4 DEF Changes, ConnFields, ConnOK, Conns
<1>7. QED
  BY <1>2, <1>3, <1>5, <1>6

\* A connection that reboots has a job of its own kind.
LEMMA BusyEffect ==
    ASSUME ConnOK, NEW c \in Clients, Busy(c)
    PROVE  /\ conn[c] \in Conns /\ conn[c].job # None /\ conn[c].job.op = "reboot"
           /\ conn[c].job \in [op : {"reboot"}, stage : {"saving"}, sections : Seq(Sections)]
<1>1. /\ conn[c] \in Conns /\ conn[c].job # None /\ conn[c].job \in Jobs
      /\ conn[c].job.op = "reboot" /\ conn[c].job.stage = "saving"
  BY DEF ConnOK, Busy, Job, Open, Conns
<1>2. QED
  BY <1>1 DEF Jobs, TierJobs

\* A section's calibration is what the file's parser makes of it.
LEMMA SaveSectionEffect ==
    ASSUME StackTypes, NEW c \in Clients, SaveSection(c)
    PROVE  /\ Changes(c, {"job"}) /\ Unmoved
           /\ conn[c].job.op = "reboot" /\ conn'[c].job.op = "reboot"
           /\ ~Saves(c) /\ UNCHANGED disk
           /\ \E f \in ConfigFiles, v \in Calibrations : BeginSave(c, f, v)
<1>1. Busy(c) /\ ConnOK /\ conn[c].job.sections # <<>>
  BY DEF SaveSection, StackTypes
<1>2. /\ conn[c] \in Conns /\ conn[c].job # None /\ conn[c].job.op = "reboot"
      /\ conn[c].job \in [op : {"reboot"}, stage : {"saving"}, sections : Seq(Sections)]
  BY <1>1, BusyEffect
<1> DEFINE job == [conn[c].job EXCEPT !.sections = Tail(conn[c].job.sections)]
           s == Head(conn[c].job.sections)
<1>3. s \in Sections /\ Tail(conn[c].job.sections) \in Seq(Sections)
  BY <1>1, <1>2, TailOf
<1>4. job \in Jobs /\ job.op = "reboot"
  BY <1>2, <1>3 DEF Jobs
<1>5. conn' = [conn EXCEPT ![c].job = job]
  BY DEF SaveSection
<1>6. s.tier \in ConfigFiles /\ Parsed(s.tier, s.section) \in Calibrations
  <2>1. s.tier \in {"vehicle_line", "variant"} /\ s.section \in [seen : Int]
    BY <1>3, CalibrationAssumption DEF Sections
  <2>2. Defaults[s.tier] = [seen |-> 0, unseen |-> 0]
    BY <2>1 DEF Defaults, VehicleLineCal, VariantCal
  <2>3. QED
    BY <2>1, <2>2, CalibrationAssumption DEF Parsed, Calibrations
<1>7. BeginSave(c, s.tier, Parsed(s.tier, s.section)) /\ Unmoved /\ UNCHANGED disk
  BY DEF SaveSection
<1> HIDE DEF job, s
<1>8. Changes(c, {"job"}) /\ conn'[c].job = job
  BY <1>1, <1>2, <1>4, <1>5 DEF Changes, ConnFields, ConnOK, Conns
<1>9. QED
  BY <1>1, <1>2, <1>4, <1>6, <1>7, <1>8 DEF Busy, Saves

\* The reboot counter is read.
LEMMA ReadCounterEffect ==
    ASSUME StackTypes, NEW c \in Clients, ReadCounter(c)
    PROVE  /\ Changes(c, {"job"}) /\ Unmoved
           /\ conn[c].job.op = "reboot" /\ conn'[c].job.op = "reboot"
<1> DEFINE job == [op |-> "reboot", stage |-> "counted", new |-> counter + 1]
<1>1. Busy(c) /\ ConnOK
  BY DEF ReadCounter, StackTypes
<1>2. conn[c] \in Conns /\ conn[c].job.op = "reboot"
  BY <1>1, BusyEffect
<1>3. job \in Jobs /\ job.op = "reboot"
  BY DEF Jobs, StackTypes, BootOK
<1>4. conn' = [conn EXCEPT ![c].job = job] /\ Unmoved
  BY DEF ReadCounter
<1> HIDE DEF job
<1>5. Changes(c, {"job"}) /\ conn'[c].job = job
  BY <1>1, <1>2, <1>3, <1>4 DEF Changes, ConnFields, ConnOK, Conns
<1>6. QED
  BY <1>2, <1>3, <1>4, <1>5

\* The counter is sent: whoever has subscribed has it to see.
LEMMA SendCounterEffect ==
    ASSUME StackTypes, NEW c \in Clients, SendCounter(c)
    PROVE  /\ conn' \in [Clients -> Conns \cup {None}]
           /\ conn[c].job.op = "reboot"
           /\ counter' \in Nat /\ boot' = [boot EXCEPT !.unseen = TRUE]
           /\ \A d \in Clients : Open(d)' =>
                /\ Open(d)
                /\ \A x \in ConnFields \ {"unseen", "job"} : conn'[d][x] = conn[d][x]
                /\ conn[d].phase # "accepted" => conn'[d].unseen
                /\ conn'[d].job = conn[d].job \/ (d = c /\ conn'[d].job = None)
<1>1. /\ conn[c] \in Conns /\ conn[c].job \in Jobs
      /\ conn[c].job.op = "reboot" /\ conn[c].job.stage = "counted"
  BY DEF StackTypes, ConnOK, SendCounter, Job, Open, Conns
<1>2. conn[c].job.new \in Nat
  BY <1>1 DEF Jobs, TierJobs
<1>3. \A d \in Clients :
         conn'[d] = IF ~Open(d) \/ conn[d].phase = "accepted" THEN conn[d]
                    ELSE [conn[d] EXCEPT !.unseen = TRUE, !.job = IF d = c THEN None ELSE @]
  BY DEF SendCounter
<1>4. ASSUME NEW d \in Clients
      PROVE  /\ conn'[d] \in Conns \cup {None}
             /\ Open(d)' =>
                /\ Open(d)
                /\ \A x \in ConnFields \ {"unseen", "job"} : conn'[d][x] = conn[d][x]
                /\ conn[d].phase # "accepted" => conn'[d].unseen
                /\ conn'[d].job = conn[d].job \/ (d = c /\ conn'[d].job = None)
  <2>1. conn[d] \in Conns \cup {None}
    BY DEF StackTypes, ConnOK
  <2>2. CASE ~Open(d) \/ conn[d].phase = "accepted"
    BY <1>3, <2>1, <2>2 DEF Open
  <2>3. CASE Open(d) /\ conn[d].phase # "accepted"
    <3>1. conn[d] \in Conns
      BY <2>1, <2>3 DEF Open
    <3>2. conn'[d] = [conn[d] EXCEPT !.unseen = TRUE, !.job = IF d = c THEN None ELSE @]
      BY <1>3, <2>3
    <3>3. QED
      BY <2>3, <3>1, <3>2 DEF Conns, ConnFields
  <2>4. QED
    BY <2>2, <2>3
<1>5. conn' = [d \in Clients |-> conn'[d]]
  BY DEF SendCounter
<1>6. QED
  BY <1>1, <1>2, <1>4, <1>5 DEF SendCounter

\* What an HMI sends joins the inbox.
LEMMA ToldType ==
    ASSUME NEW c \in Clients, conn[c] \in Conns, NEW m \in Messages
    PROVE  /\ Told(c, m) \in Conns /\ Told(c, m).inbox = Append(conn[c].inbox, m)
           /\ \A x \in ConnFields \ {"inbox"} : Told(c, m)[x] = conn[c][x]
<1>1. Append(conn[c].inbox, m) \in Seq(Messages)
  BY AppendOf DEF Conns
<1>2. QED
  BY <1>1 DEF Told, Conns, ConnFields

\* A user's step changes the user's connection.
LEMMA UsesEffect ==
    ASSUME ConnOK, NEW c \in Clients, NEW r \in Conns, NEW fs, Uses(c, r),
           \A x \in ConnFields \ fs : r[x] = conn[c][x]
    PROVE  /\ Changes(c, fs) /\ conn'[c] = r
           /\ UNCHANGED <<bridgeVars, boot, counter, live, loaded, overlap>>
  BY DEF Changes, ConnOK, Uses, Open

\* A user switches, and sees the switch move.
LEMMA SetSensorEffect ==
    ASSUME ConnOK, NEW c \in Clients, NEW s \in Inputs, NEW v \in Numbers,
           SetSensor(c, ToHmi(s), v)
    PROVE  /\ Changes(c, {"inbox", "shows"})
           /\ \E m \in Messages :
                /\ m.op = "sensor" /\ m.path = ToHmi(s)
                /\ conn'[c].inbox = Append(conn[c].inbox, m)
           /\ conn'[c].shows = [conn[c].shows EXCEPT ![ToHmi(s)] = v]
           /\ UNCHANGED <<bridgeVars, boot, counter, live, loaded, overlap>>
<1> DEFINE n == ToHmi(s)
           m == [op |-> "sensor", path |-> n, value |-> v]
           x == [conn[c].shows EXCEPT ![n] = v]
<1>1. m \in Messages /\ m.op = "sensor" /\ m.path = n
  BY DEF Messages
<1>2. conn[c] \in Conns
  BY DEF ConnOK, SetSensor, Uses, Open
<1>3. x \in States
  <2>1. conn[c].shows \in States /\ v \in Values
    BY <1>2 DEF Conns, Values
  <2> HIDE DEF n
  <2>2. QED
    BY <2>1 DEF States
<1> DEFINE r == [Told(c, m) EXCEPT !.shows[n] = v]
<1>4. Uses(c, r)
  BY DEF SetSensor
<1> HIDE DEF m
<1>5. /\ r \in Conns /\ r.inbox = Append(conn[c].inbox, m) /\ r.shows = x
      /\ \A y \in ConnFields \ {"inbox", "shows"} : r[y] = conn[c][y]
  <2>1. /\ Told(c, m) \in Conns /\ Told(c, m).inbox = Append(conn[c].inbox, m)
        /\ Told(c, m).shows = conn[c].shows
        /\ \A y \in ConnFields \ {"inbox"} : Told(c, m)[y] = conn[c][y]
    BY <1>1, <1>2, ToldType DEF ConnFields
  <2>2. r = [Told(c, m) EXCEPT !.shows = x]
    BY <2>1 DEF Conns
  <2> HIDE DEF r, x
  <2>3. QED
    BY <1>3, <2>1, <2>2 DEF Conns, ConnFields
<1> HIDE DEF r
<1>6. /\ Changes(c, {"inbox", "shows"}) /\ conn'[c] = r
      /\ UNCHANGED <<bridgeVars, boot, counter, live, loaded, overlap>>
  BY <1>4, <1>5, UsesEffect
<1>7. QED
  BY <1>1, <1>5, <1>6

\* A user sets a field of the configuration, and sees it set.
LEMMA SetConfigEffect ==
    ASSUME ConnOK, NEW c \in Clients, NEW k \in Settable, SetConfig(c, k[1], k[2], 1)
    PROVE  /\ Changes(c, {"inbox", "view"})
           /\ \E m \in Messages :
                m.op = "config_set" /\ conn'[c].inbox = Append(conn[c].inbox, m)
           /\ conn[c].phase = "serving" /\ conn'[c].view \in ConfigMsgs
           /\ UNCHANGED <<bridgeVars, boot, counter, live, loaded, overlap>>
<1> DEFINE m == [op |-> "config_set", tier |-> k[1], field |-> k[2], value |-> 1]
           x == [conn[c].view EXCEPT ![k[1]][k[2]] = 1]
<1>1. m \in Messages /\ m.op = "config_set"
  BY DEF Messages
<1>2. conn[c] \in Conns /\ conn[c].phase = "serving" /\ conn[c].view \in ConfigMsgs
  BY DEF ConnOK, SetConfig, InPhase, Open
<1>3. x \in ConfigMsgs
  BY <1>2 DEF Settable, ConfigMsgs, DealerConfigs
<1> DEFINE r == [Told(c, m) EXCEPT !.view[k[1]][k[2]] = 1]
<1>4. Uses(c, r)
  BY DEF SetConfig
<1> HIDE DEF m
<1>5. /\ r \in Conns /\ r.inbox = Append(conn[c].inbox, m) /\ r.view = x
      /\ \A y \in ConnFields \ {"inbox", "view"} : r[y] = conn[c][y]
  <2>1. /\ Told(c, m) \in Conns /\ Told(c, m).inbox = Append(conn[c].inbox, m)
        /\ Told(c, m).view = conn[c].view
        /\ \A y \in ConnFields \ {"inbox"} : Told(c, m)[y] = conn[c][y]
    BY <1>1, <1>2, ToldType DEF ConnFields
  <2>2. r = [Told(c, m) EXCEPT !.view = x]
    BY <2>1 DEF Conns
  <2> HIDE DEF r, x
  <2>3. QED
    BY <1>3, <2>1, <2>2 DEF Conns, ConnFields
<1> HIDE DEF r
<1>6. /\ Changes(c, {"inbox", "view"}) /\ conn'[c] = r
      /\ UNCHANGED <<bridgeVars, boot, counter, live, loaded, overlap>>
  BY <1>4, <1>5, UsesEffect
<1>7. QED
  BY <1>1, <1>2, <1>3, <1>5, <1>6

\* A user leaves, or applies and reboots.
LEMMA LeaveEffect ==
    ASSUME ConnOK, NEW c \in Clients,
           Leave(c) \/ \E tiers \in Seq(ConfigFiles), v \in Int : ApplyAndReboot(c, tiers, v)
    PROVE  /\ Changes(c, {"inbox"})
           /\ \E m \in Messages :
                m.op \in {"close", "reboot"} /\ conn'[c].inbox = Append(conn[c].inbox, m)
           /\ UNCHANGED <<bridgeVars, boot, counter, live, loaded, overlap>>
<1>1. \E m \in Messages : m.op \in {"close", "reboot"} /\ Uses(c, Told(c, m))
  <2>1. CASE Leave(c)
    BY <2>1 DEF Leave, Messages
  <2>2. ASSUME NEW tiers \in Seq(ConfigFiles), NEW v \in Int, ApplyAndReboot(c, tiers, v)
        PROVE  \E m \in Messages : m.op \in {"close", "reboot"} /\ Uses(c, Told(c, m))
    <3> DEFINE e(i) == [tier |-> tiers[i], section |-> Staged(conn[c].view, tiers[i], v)]
               sections == [i \in DOMAIN tiers |-> e(i)]
               m == [op |-> "reboot", sections |-> sections]
    <3>1. Uses(c, Told(c, m))
      BY <2>2 DEF ApplyAndReboot
    <3>2. conn[c].view \in ConfigMsgs
      BY <2>2 DEF ConnOK, ApplyAndReboot, InPhase, Open
    <3>3. DOMAIN tiers = 1..Len(tiers) /\ Len(tiers) \in Nat
      BY LenProperties
    <3>4. ASSUME NEW i \in 1..Len(tiers) PROVE e(i) \in Sections
      <4>1. tiers[i] \in {"vehicle_line", "variant"}
        BY <3>3, LenProperties, CalibrationAssumption
      <4>2. Staged(conn[c].view, tiers[i], v) \in [seen : Int]
        BY <3>2, <4>1 DEF Staged, ConfigMsgs
      <4>3. QED
        BY <4>1, <4>2, CalibrationAssumption DEF Sections
    <3>5. sections \in Seq(Sections)
      BY <3>3, <3>4
    <3>6. m \in Messages /\ m.op = "reboot"
      BY <3>5 DEF Messages
    <3>7. QED
      BY <3>1, <3>6
  <2>3. QED
    BY <2>1, <2>2
<1>2. PICK m \in Messages : m.op \in {"close", "reboot"} /\ Uses(c, Told(c, m))
  BY <1>1
<1>3. conn[c] \in Conns
  BY <1>2 DEF ConnOK, Uses, Open
<1>4. /\ Changes(c, {"inbox"}) /\ conn'[c] = Told(c, m)
      /\ UNCHANGED <<bridgeVars, boot, counter, live, loaded, overlap>>
  BY <1>2, <1>3, ToldType, UsesEffect
<1>5. QED
  BY <1>2, <1>3, <1>4, ToldType

-----------------------------------------------------------------------------
(* What each step leaves alone.                                            *)

\* What only one of the connections' steps changes.
LEMMA ConnectionFrame ==
    ASSUME NEW c \in Clients, ConnectionStep(c) \/ UserStep(c)
    PROVE  /\ UNCHANGED <<output, dirty, batching, ready>>
           /\ HandleSensor(c) \/ UNCHANGED <<bus, behind>>
           /\ StoreTier(c) \/ UNCHANGED live
           /\ SendCounter(c) \/ UNCHANGED <<boot, counter>>
           /\ CopyTier(c) \/ UNCHANGED overlap
<1> USE DEF Unmoved, bridgeVars
<1>1. CASE UserStep(c)
  BY <1>1 DEF UserStep, SetSensor, SetConfig, ApplyAndReboot, Leave, Uses
<1>2. CASE \/ Accept(c) \/ Subscribe(c) \/ PassGate(c) \/ SendSnapshot(c) \/ SendConfig(c)
           \/ SeesReboot(c) \/ ForwardUpdate(c) \/ ForwardConfig(c) \/ Disconnect(c)
  BY <1>2 DEF Accept, Subscribe, PassGate, SendSnapshot, SendConfig, SeesReboot, ForwardUpdate,
              ForwardConfig, Disconnect
<1>3. CASE HandleSensor(c) \/ CopyTier(c) \/ StoreTier(c) \/ SendCounter(c)
  BY <1>3 DEF HandleSensor, CopyTier, StoreTier, SendCounter
<1>4. CASE BuildConfig(c) \/ BroadcastConfig(c) \/ HandleReboot(c) \/ ReadCounter(c)
  BY <1>4 DEF BuildConfig, BroadcastConfig, HandleReboot, ReadCounter
<1>5. QED
  BY <1>1, <1>2, <1>3, <1>4 DEF ConnectionStep

\* What the users do, whatever their team.
LEMMA UserSteps ==
    ASSUME team \in Teams, NEW c \in Clients, UserStep(c)
    PROVE  \/ \E s \in Inputs, v \in Numbers : SetSensor(c, ToHmi(s), v)
           \/ \E k \in Settable : SetConfig(c, k[1], k[2], 1)
           \/ Leave(c)
           \/ \E tiers \in Seq(ConfigFiles), v \in Int : ApplyAndReboot(c, tiers, v)
<1>1. team.tiers \subseteq Seq(ConfigFiles) /\ team.values \subseteq Int
  BY PlatformAssumption
<1>2. <<>> \in Seq(ConfigFiles)
  BY EmptySeq
<1> DEFINE Applies == \E tiers \in Seq(ConfigFiles), v \in Int : ApplyAndReboot(c, tiers, v)
<1>3. ASSUME NEW tiers \in team.tiers, NEW v \in team.values, ApplyAndReboot(c, tiers, v)
      PROVE  Applies
  BY <1>1, <1>3
<1>4. ASSUME ApplyAndReboot(c, <<>>, 0) PROVE Applies
  <2> WITNESS <<>> \in Seq(ConfigFiles), 0 \in Int
  <2>1. QED
    BY <1>4
<1> HIDE DEF Applies
<1>5. \/ \E s \in Inputs, v \in Numbers : SetSensor(c, ToHmi(s), v)
      \/ \E k \in Settable : SetConfig(c, k[1], k[2], 1)
      \/ Leave(c)
      \/ Applies
  BY <1>3, <1>4 DEF UserStep
<1>6. QED
  BY <1>5 DEF Applies

\* A step of the stack that is not the bridge's leaves the connections alone, but for a
\* power cut and for one that saves.
LEMMA ConnectionsKept ==
    ASSUME StackNext
    PROVE  BridgeStep \/ SavingStep \/ PowerCut \/ UNCHANGED conn
  BY DEF StackNext, FileStep, PlantBoots, PlantMoves, KuksaTurns, KuksaDelivers, BootStep,
         MainWakes, bridgeVars

-----------------------------------------------------------------------------
(* Types.                                                                  *)

\* A connection's step that changes neither its boot nor, wrongly, its view.
LEMMA ConnKept ==
    ASSUME ConnOK, NEW c \in Clients, NEW fs, Changes(c, fs), "boot" \notin fs,
           UNCHANGED boot, Open(c),
           conn'[c].phase = "serving" => conn'[c].view \in ConfigMsgs
    PROVE  ConnOK'
<1>1. conn' \in [Clients -> Conns \cup {None}] /\ conn'[c].boot = conn[c].boot
  BY DEF ConnOK, Changes, ConnFields
<1>2. \A d \in Clients \ {c} : conn'[d] = conn[d]
  BY DEF ConnOK, Changes
<1>3. QED
  BY <1>1, <1>2 DEF ConnOK, Open

\* A step that changes neither what a connection is nor how far it is.
LEMMA ConnSame ==
    ASSUME ConnOK, NEW c \in Clients, NEW fs, Changes(c, fs), Open(c), UNCHANGED boot,
           "boot" \notin fs, "phase" \notin fs, "view" \notin fs
    PROVE  ConnOK'
<1>1. conn'[c]["phase"] = conn[c]["phase"] /\ conn'[c]["view"] = conn[c]["view"]
  BY DEF Changes, ConnFields
<1>2. conn[c].phase = "serving" => conn[c].view \in ConfigMsgs
  BY DEF ConnOK
<1>3. QED
  BY <1>1, <1>2, ConnKept

\* A step of a connection or of its user.
LEMMA ConnectionTypes ==
    ASSUME StackTypes, NEW c \in Clients, ConnectionStep(c) \/ UserStep(c)
    PROVE  ConnOK'
<1>1. CASE Accept(c)
  <2>1. NewConn.phase = "accepted" /\ NewConn.boot = boot.id /\ boot.id \in Nat
    BY DEF NewConn, StackTypes, BootOK
  <2>2. /\ conn' = [conn EXCEPT ![c] = NewConn] /\ NewConn \in Conns
        /\ boot.phase \in {"spawned", "running"} /\ UNCHANGED boot /\ ConnOK
    BY <1>1, AcceptEffect DEF Unmoved, StackTypes
  <2> HIDE DEF NewConn
  <2>3. QED
    BY <2>1, <2>2 DEF ConnOK, Open
<1>2. CASE SeesReboot(c) \/ Disconnect(c)
  <2>1. conn' = [conn EXCEPT ![c] = None] /\ UNCHANGED boot /\ ConnOK
    BY <1>2, ClosesEffect DEF Unmoved, StackTypes
  <2>2. QED
    BY <2>1 DEF ConnOK, Open
<1>3. CASE BroadcastConfig(c)
  <2>1. /\ conn' \in [Clients -> Conns \cup {None}] /\ UNCHANGED boot /\ ConnOK
        /\ \A d \in Clients : Open(d)' => Open(d)
        /\ \A d \in Clients : Open(d)' => /\ conn'[d]["phase"] = conn[d]["phase"]
                                          /\ conn'[d]["view"] = conn[d]["view"]
                                          /\ conn'[d]["boot"] = conn[d]["boot"]
    BY <1>3, BroadcastConfigEffect DEF Unmoved, StackTypes, ConnFields
  <2>2. QED
    BY <2>1 DEF ConnOK
<1>4. CASE SendCounter(c)
  <2>1. /\ conn' \in [Clients -> Conns \cup {None}] /\ ConnOK /\ BootOK
        /\ boot' = [boot EXCEPT !.unseen = TRUE]
        /\ \A d \in Clients : Open(d)' => Open(d)
        /\ \A d \in Clients : Open(d)' => /\ conn'[d]["phase"] = conn[d]["phase"]
                                          /\ conn'[d]["view"] = conn[d]["view"]
                                          /\ conn'[d]["boot"] = conn[d]["boot"]
    BY <1>4, SendCounterEffect DEF StackTypes, ConnFields
  <2>2. boot'.id = boot.id /\ boot'.phase = boot.phase
    BY <2>1 DEF BootOK
  <2>3. QED
    BY <2>1, <2>2 DEF ConnOK
<1>5. CASE /\ ~SendCounter(c)
           /\ \/ Subscribe(c) \/ PassGate(c) \/ SendSnapshot(c) \/ SendConfig(c)
              \/ ForwardUpdate(c) \/ ForwardConfig(c) \/ HandleSensor(c) \/ CopyTier(c)
              \/ StoreTier(c) \/ BuildConfig(c) \/ HandleReboot(c) \/ ReadCounter(c)
              \/ UserStep(c)
  <2>1. UNCHANGED boot /\ ConnOK /\ team \in Teams
    BY <1>5, ConnectionFrame DEF StackTypes, BootOK
  <2>2. Open(c)
    <3>1. CASE UserStep(c)
      BY <3>1 DEF UserStep, SetSensor, SetConfig, ApplyAndReboot, Leave, Uses
    <3>2. CASE ~UserStep(c)
      BY <1>5, <3>2
      DEF Subscribe, PassGate, SendSnapshot, SendConfig, ForwardUpdate, ForwardConfig,
          HandleSensor, CopyTier, StoreTier, BuildConfig, HandleReboot, ReadCounter, InPhase,
          Selects, Hears, Job, Busy
    <3>3. QED
      BY <3>1, <3>2
  <2>3. CASE Subscribe(c)
    BY <2>1, <2>2, <2>3, SubscribeEffect, ConnKept
  <2>4. CASE PassGate(c)
    BY <2>1, <2>2, <2>4, PassGateEffect, ConnKept
  <2>5. CASE SendSnapshot(c)
    BY <2>1, <2>2, <2>5, SendSnapshotEffect, ConnKept
  <2>6. CASE SendConfig(c)
    BY <2>1, <2>2, <2>6, SendConfigEffect, ConnKept
  <2>7. CASE ForwardUpdate(c)
    BY <2>1, <2>2, <2>7, ForwardUpdateEffect, ConnSame
  <2>8. CASE ForwardConfig(c)
    BY <2>1, <2>2, <2>8, ForwardConfigEffect, ConnKept
  <2>9. CASE HandleSensor(c)
    BY <2>1, <2>2, <2>9, HandleSensorEffect, ConnSame
  <2>10. CASE CopyTier(c)
    BY <2>1, <2>2, <2>10, CopyTierEffect, ConnSame
  <2>11. CASE StoreTier(c)
    BY <2>1, <2>2, <2>11, StoreTierEffect, ConnSame
  <2>12. CASE BuildConfig(c)
    BY <2>1, <2>2, <2>12, BuildConfigEffect, ConnSame
  <2>13. CASE HandleReboot(c)
    BY <2>1, <2>2, <2>13, HandleRebootEffect, ConnSame
  <2>14. CASE ReadCounter(c)
    BY <2>1, <2>2, <2>14, ReadCounterEffect, ConnSame
  <2>15. CASE UserStep(c)
    <3>1. ASSUME NEW s \in Inputs, NEW v \in Numbers, SetSensor(c, ToHmi(s), v) PROVE ConnOK'
      BY <2>1, <2>2, <3>1, SetSensorEffect, ConnSame
    <3>2. ASSUME NEW k \in Settable, SetConfig(c, k[1], k[2], 1) PROVE ConnOK'
      BY <2>1, <2>2, <3>2, SetConfigEffect, ConnKept
    <3>3. ASSUME Leave(c) \/ \E tiers \in Seq(ConfigFiles), v \in Int : ApplyAndReboot(c, tiers, v)
          PROVE  ConnOK'
      BY <2>1, <2>2, <3>3, LeaveEffect, ConnSame
    <3>4. QED
      BY <2>1, <2>15, <3>1, <3>2, <3>3, UserSteps
  <2>16. QED
    BY <1>5, <2>3, <2>4, <2>5, <2>6, <2>7, <2>8, <2>9, <2>10, <2>11, <2>12, <2>13, <2>14, <2>15
<1>6. QED
  BY <1>1, <1>2, <1>3, <1>4, <1>5 DEF ConnectionStep

-----------------------------------------------------------------------------
(* Files.                                                                  *)

\* A task starts a save.
LEMMA BeginSaveTypes ==
    ASSUME SavesOK, NEW s \in Savers, NEW f \in Files, NEW v \in Contents(f), BeginSave(s, f, v)
    PROVE  SavesOK'
  BY DEF SavesOK, Saving, Saves, BeginSave, Contents

\* It goes from one step to the next.
LEMMA AdvanceTypes ==
    ASSUME SavesOK, NEW s \in Savers, Saves(s), NEW fd \in {"tmp", "name", "gone"},
           NEW stage \in {"write", "sync", "rename"}, Advance(s, stage, fd)
    PROVE  SavesOK'
  BY DEF SavesOK, Saving, Saves, Advance

\* What a name stands for is told from nothing.
LEMMA WrittenIsSome == \A f \in Files : None \notin Written(f)
  BY PlatformAssumption

\* No file, and a file that is empty, may have any name.
LEMMA SomeInodes == \A f : None \in Inodes(f) /\ Inode(Torn, FALSE) \in Inodes(f)
  BY DEF Inodes, Written, Inode

\* A temporary file is created or written.
LEMMA TmpTypes ==
    ASSUME DiskOK, NEW f \in Files, NEW i \in Inodes(f), disk' = [disk EXCEPT ![f].tmp = i]
    PROVE  DiskOK'
<1>1. disk[f] \in [name : Inodes(f), tmp : Inodes(f), undone : SUBSET Inodes(f)]
  BY DEF DiskOK
<1>2. [disk[f] EXCEPT !.tmp = i] \in [name : Inodes(f), tmp : Inodes(f), undone : SUBSET Inodes(f)]
  BY <1>1
<1>3. QED
  BY <1>2 DEF DiskOK

\* A file is written through its descriptor.
LEMMA PutTypes ==
    ASSUME DiskOK, SavesOK, NEW s \in Savers, Saves(s), saves[s].stage # "create",
           NEW i \in Inodes(saves[s].file), Put(s, i)
    PROVE  DiskOK'
<1>1. saves[s].file \in Files /\ saves[s].fd \in {"tmp", "name", "gone"}
  BY DEF SavesOK, Saving
<1>2. CASE saves[s].fd = "gone"
  BY <1>2 DEF Put, DiskOK
<1>3. CASE saves[s].fd = "tmp"
  BY <1>1, <1>3 DEF Put, DiskOK
<1>4. CASE saves[s].fd = "name"
  BY <1>1, <1>4 DEF Put, DiskOK
<1>5. QED
  BY <1>1, <1>2, <1>3, <1>4

\* A rename moves what the descriptors of a file stand for.
LEMMA ReopenedTypes ==
    ASSUME SavesOK, NEW s, NEW f,
           NEW move \in [{"tmp", "name", "gone"} -> {"tmp", "name", "gone"}],
           saves' = Reopened(s, f, move)
    PROVE  SavesOK'
  BY DEF SavesOK, Saving, Saves, Reopened

\* What the step of a save does to the file and to the saves.
LEMMA SaveTypes ==
    ASSUME DiskOK, SavesOK, NEW s \in Savers, SaveStep(s) \/ FailSave(s)
    PROVE  DiskOK' /\ SavesOK'
<1> DEFINE f == saves[s].file
<1>1. Saves(s) /\ Saving(s) /\ f \in Files
  BY DEF SaveStep, CreateTmp, WriteTmp, SyncTmp, RenameTmp, NothingToRename, FailSave, At,
         SavesOK, Saving
<1>2. CASE CreateTmp(s)
  <2>1. SavesOK'
    BY <1>1, <1>2, AdvanceTypes DEF CreateTmp
  <2>2. DiskOK'
    BY <1>1, <1>2, SomeInodes, TmpTypes DEF CreateTmp
  <2>3. QED
    BY <2>1, <2>2
<1>3. CASE WriteTmp(s)
  <2>1. saves[s].stage = "write" /\ saves[s].fd \in {"tmp", "name", "gone"}
    BY <1>1, <1>3 DEF WriteTmp, At, Saving
  <2>2. SavesOK'
    BY <1>1, <1>3, <2>1, AdvanceTypes DEF WriteTmp
  <2>3. PICK v \in {saves[s].value, Torn} : Put(s, Inode(v, FALSE))
    BY <1>3 DEF WriteTmp
  <2>4. Inode(v, FALSE) \in Inodes(f)
    BY <1>1 DEF Inode, Inodes, Written, Saving
  <2>5. DiskOK'
    BY <1>1, <2>1, <2>3, <2>4, PutTypes
  <2>6. QED
    BY <2>2, <2>5
<1>4. CASE SyncTmp(s)
  <2>1. saves[s].stage = "sync" /\ saves[s].fd \in {"tmp", "name", "gone"}
    BY <1>1, <1>4 DEF SyncTmp, At, Saving
  <2>2. SavesOK'
    BY <1>1, <1>4, <2>1, AdvanceTypes DEF SyncTmp
  <2>3. DiskOK'
    <3>1. CASE Target(s) = None
      BY <1>4, <3>1 DEF SyncTmp, DiskOK
    <3>2. CASE Target(s) # None
      <4>1. Put(s, Inode(Target(s).holds, TRUE))
        BY <1>4, <3>2 DEF SyncTmp
      <4>2. Target(s) \in Inodes(f)
        BY <1>1, <2>1, <3>2 DEF Target, DiskOK
      <4>3. Inode(Target(s).holds, TRUE) \in Inodes(f)
        BY <3>2, <4>2 DEF Inode, Inodes, Written
      <4>4. QED
        BY <1>1, <2>1, <4>1, <4>3, PutTypes
    <3>3. QED
      BY <3>1, <3>2
  <2>4. QED
    BY <2>2, <2>3
<1>5. CASE RenameTmp(s)
  <2>1. /\ disk' = [disk EXCEPT ![f] = [name |-> disk[f].tmp, tmp |-> None,
                                        undone |-> {disk[f].name}]]
        /\ saves' = Reopened(s, f, [tmp |-> "name", name |-> "gone", gone |-> "gone"])
    BY <1>5 DEF RenameTmp
  <2> DEFINE d == [name |-> disk[f].tmp, tmp |-> None, undone |-> {disk[f].name}]
  <2>2. DiskOK'
    <3>1. d \in [name : Inodes(f), tmp : Inodes(f), undone : SUBSET Inodes(f)]
      BY <1>1, SomeInodes DEF DiskOK
    <3> HIDE DEF d
    <3>2. QED
      BY <1>1, <2>1, <3>1 DEF DiskOK, d
  <2>3. SavesOK'
    BY <2>1, ReopenedTypes
  <2>4. QED
    BY <2>2, <2>3
<1>6. CASE FailSave(s)
  <2>1. CASE f \in NvmFiles
    <3>1. /\ disk' = [disk EXCEPT ![f].tmp = None]
          /\ saves' = Reopened(s, f, [tmp |-> "gone", name |-> "name", gone |-> "gone"])
      BY <1>6, <2>1 DEF FailSave
    <3>2. DiskOK'
      BY <1>1, <3>1, SomeInodes, TmpTypes
    <3>3. SavesOK'
      BY <3>1, ReopenedTypes
    <3>4. QED
      BY <3>2, <3>3
  <2>2. CASE f \notin NvmFiles
    <3>1. UNCHANGED disk /\ saves' = [saves EXCEPT ![s] = None]
      BY <1>6, <2>2 DEF FailSave
    <3>2. QED
      BY <3>1 DEF DiskOK, SavesOK, Saving, Saves
  <2>3. QED
    BY <2>1, <2>2
<1>7. QED
  BY <1>2, <1>3, <1>4, <1>5, <1>6 DEF SaveStep, NothingToRename

\* A power cut leaves a file with what one of its names stood for, or torn.
LEMMA CutTypes ==
    ASSUME DiskOK, NEW removed, CutDisk(removed)
    PROVE  DiskOK' /\ SavesOK'
<1>1. PICK undo \in SUBSET {f \in Files : disk[f].undone # {}},
           lost \in SUBSET {f \in Files : \E i \in {disk[f].name} \cup disk[f].undone :
                                              i # None /\ ~i.synced} :
        disk' = [f \in Files |-> IF f \in removed THEN Stored(None)
                                 ELSE AfterCut(f, f \in undo, f \in lost)]
  BY DEF CutDisk
<1>2. ASSUME NEW f \in Files, NEW u \in BOOLEAN, NEW l \in BOOLEAN
      PROVE  AfterCut(f, u, l) \in [name : Inodes(f), tmp : Inodes(f), undone : SUBSET Inodes(f)]
  <2> DEFINE i == IF u /\ disk[f].undone # {} THEN CHOOSE j \in disk[f].undone : TRUE
                  ELSE disk[f].name
  <2>1. i \in Inodes(f)
    BY DEF DiskOK
  <2>2. AfterCut(f, u, l) = OnlyNamed(OnDisk(i, l))
    BY DEF AfterCut
  <2> HIDE DEF i
  <2>3. OnDisk(i, l) \in Inodes(f)
    BY <2>1 DEF OnDisk, Inode, Inodes, Written
  <2>4. QED
    BY <2>2, <2>3 DEF OnlyNamed, Inodes, Written
<1>3. Stored(None) = [name |-> None, tmp |-> None, undone |-> {}]
  BY DEF Stored, OnlyNamed
<1>4. DiskOK'
  <2>1. \A f \in Files : disk'[f] \in [name : Inodes(f), tmp : Inodes(f), undone : SUBSET Inodes(f)]
    <3> TAKE f \in Files
    <3>1. CASE f \in removed
      <4>1. disk'[f] = [name |-> None, tmp |-> None, undone |-> {}]
        BY <1>1, <1>3, <3>1
      <4>2. None \in Inodes(f)
        BY SomeInodes
      <4>3. QED
        BY <4>1, <4>2
    <3>2. CASE f \notin removed
      <4>1. disk'[f] = AfterCut(f, f \in undo, f \in lost)
        BY <1>1, <3>2
      <4>2. (f \in undo) \in BOOLEAN /\ (f \in lost) \in BOOLEAN
        OBVIOUS
      <4>3. QED
        BY <1>2, <4>1, <4>2
    <3>3. QED
      BY <3>1, <3>2
  <2>2. DOMAIN disk' = Files /\ disk' = [f \in Files |-> disk'[f]]
    BY <1>1
  <2>3. QED
    BY <2>1, <2>2 DEF DiskOK
<1>5. SavesOK'
  BY DEF CutDisk, SavesOK, Saves
<1>6. QED
  BY <1>4, <1>5

-----------------------------------------------------------------------------
(* Every step of the stack keeps the types.                                *)

\* A value is published.
LEMMA PublishTypes ==
    ASSUME BridgeOK, NEW s \in Signals, NEW v \in Values, Publish(s, v),
           UNCHANGED <<output, dirty, batching>>
    PROVE  BridgeOK'
<1>1. behind[s] \in Seq(Values)
  BY DEF BridgeOK
<1>2. Append(behind[s], v) \in Seq(Values)
  BY <1>1, AppendOf
<1>3. bus' = [bus EXCEPT ![s] = v] /\ behind' = [behind EXCEPT ![s] = Append(behind[s], v)]
  BY DEF Publish
<1>4. QED
  BY <1>2, <1>3 DEF BridgeOK

\* The file of the plant model holds a flag, those of the configuration a calibration.
LEMMA LoadedType ==
    /\ DiskOK => Loaded(PlantFile, FALSE) \in BOOLEAN
    /\ DiskOK => \A f \in ConfigFiles : Loaded(f, Defaults[f]) \in Calibrations
<1>1. ASSUME DiskOK, NEW f \in Files, NEW d \in Contents(f) PROVE Loaded(f, d) \in Contents(f)
  <2>1. disk[f].name \in Inodes(f)
    BY <1>1 DEF DiskOK
  <2>2. QED
    BY <1>1, <2>1 DEF Loaded, Inodes, Written
<1>2. PlantFile \in NvmFiles /\ Contents(PlantFile) = BOOLEAN /\ PlantFile \in Files
  BY PlatformAssumption DEF Contents, Files
<1>3. \A f \in ConfigFiles : f \in Files /\ Contents(f) = Calibrations
  BY StorageAssumption DEF Contents, Files
<1>4. \A f \in ConfigFiles : Defaults[f] \in Calibrations
  BY CalibrationAssumption DEF Defaults, VehicleLineCal, VariantCal, Calibrations
<1>5. QED
  BY <1>1, <1>2, <1>3, <1>4

\* Before there is a stack nothing is known.
LEMMA NoStackTypes ==
    ASSUME NoStack
    PROVE  BridgeOK' /\ plant' = None
<1>1. Unknown \in [Signals -> Values \cup {None}]
  BY DEF Unknown
<1>2. NoneRead \in [Signals -> Seq(Values)]
  BY EmptySeq DEF NoneRead
<1>3. QED
  BY <1>1, <1>2 DEF NoStack, BridgeOK

\* A step of the bridge.
LEMMA BridgeTypes ==
    ASSUME StackTypes, BridgeStep, UNCHANGED team
    PROVE  StackTypes'
<1>1. UNCHANGED <<storageVars, plant, kuksa>>
  BY DEF BridgeStep
<1>2. DiskOK' /\ SavesOK'
  BY <1>1 DEF StackTypes, storageVars, DiskOK, SavesOK, Saving, Saves
<1>3. ASSUME NEW s \in Signals, SubscriberReads(s)
      PROVE  ConfigOK' /\ BridgeOK' /\ BootOK' /\ ConnOK'
  <2>1. behind[s] \in Seq(Values) /\ behind[s] # <<>>
    BY <1>3 DEF SubscriberReads, StackTypes, BridgeOK
  <2>2. Head(behind[s]) \in Values /\ Tail(behind[s]) \in Seq(Values)
    BY <2>1, TailOf
  <2>3. /\ output' = [output EXCEPT ![s] = Head(behind[s])]
        /\ behind' = [behind EXCEPT ![s] = Tail(behind[s])]
        /\ dirty' = TRUE
        /\ UNCHANGED <<bus, batching, ready, conn, boot, counter, live>>
    BY <1>3 DEF SubscriberReads
  <2>4. BridgeOK'
    BY <2>2, <2>3 DEF StackTypes, BridgeOK
  <2>5. ConfigOK' /\ BootOK' /\ ConnOK'
    BY <1>1, <2>3 DEF StackTypes, ConfigOK, BootOK, ConnOK, Open
  <2>6. QED
    BY <2>4, <2>5
<1>4. ASSUME Notified PROVE ConfigOK' /\ BridgeOK' /\ BootOK' /\ ConnOK'
  <2>1. /\ dirty' = FALSE /\ batching' = TRUE
        /\ UNCHANGED <<bus, behind, output, ready, conn, boot, counter, live>>
    BY <1>4 DEF Notified
  <2>2. BridgeOK'
    BY <2>1 DEF StackTypes, BridgeOK
  <2>3. ConfigOK' /\ BootOK' /\ ConnOK'
    BY <1>1, <2>1 DEF StackTypes, ConfigOK, BootOK, ConnOK, Open
  <2>4. QED
    BY <2>2, <2>3
<1>5. ASSUME BroadcasterSends PROVE ConfigOK' /\ BridgeOK' /\ BootOK' /\ ConnOK'
  <2>1. /\ batching' = FALSE
        /\ ready' \subseteq ready \cup {boot.id}
        /\ UNCHANGED <<bus, behind, output, dirty, boot, counter, live>>
    BY <1>5 DEF BroadcasterSends
  <2>2. ConfigOK' /\ BridgeOK'
    BY <2>1 DEF StackTypes, ConfigOK, BridgeOK
  <2>3. BootOK'
    BY <1>1, <2>1 DEF StackTypes, BootOK
  <2>4. ConnOK'
    <3>1. /\ conn' \in [Clients -> Conns \cup {None}]
          /\ \A c \in Clients : ~OfThisBoot(c) => conn'[c] = conn[c]
          /\ \A c \in Clients : OfThisBoot(c) => /\ conn'[c]["phase"] = conn[c]["phase"]
                                                /\ conn'[c]["view"] = conn[c]["view"]
                                                /\ conn'[c]["boot"] = conn[c]["boot"]
      BY <1>5, BroadcasterSendsEffect DEF ConnFields
    <3>2. ConnOK
      BY DEF StackTypes
    <3>3. QED
      BY <2>1, <3>1, <3>2 DEF ConnOK, OfThisBoot, Open
  <2>5. QED
    BY <2>2, <2>3, <2>4
<1>6. ASSUME NEW c \in Clients, ConnectionStep(c) \/ UserStep(c)
      PROVE  ConfigOK' /\ BridgeOK' /\ BootOK' /\ ConnOK'
  <2>1. /\ UNCHANGED <<output, dirty, batching, ready>>
        /\ HandleSensor(c) \/ UNCHANGED <<bus, behind>>
        /\ StoreTier(c) \/ UNCHANGED live
        /\ SendCounter(c) \/ UNCHANGED <<boot, counter>>
    BY <1>6, ConnectionFrame
  <2>2. ConfigOK'
    <3>1. CASE StoreTier(c)
      BY <3>1, StoreTierEffect
    <3>2. CASE UNCHANGED live
      BY <3>2 DEF StackTypes, ConfigOK
    <3>3. QED
      BY <2>1, <3>1, <3>2
  <2>3. BridgeOK'
    <3>1. CASE HandleSensor(c) /\ ~(UNCHANGED <<bus, behind>>)
      <4> DEFINE m == Head(conn[c].inbox)
                 s == FromHmi[m.path]
      <4>1. Writable(s) /\ Publish(s, SignalOf(m.value))
        BY <3>1 DEF HandleSensor
      <4>2. m \in Messages /\ m.op = "sensor"
        <5>1. Hears(c, "sensor") /\ ConnOK
          BY <3>1 DEF HandleSensor, StackTypes
        <5>2. QED
          BY <5>1, HearsEffect
      <4>3. m.value \in Numbers
        BY <4>2 DEF Messages
      <4>4. SignalOf(m.value) \in Values /\ s \in Signals
        BY <4>1, <4>3 DEF SignalOf, Values, Writable, Signals
      <4>5. BridgeOK
        BY DEF StackTypes
      <4> HIDE DEF m, s
      <4>6. QED
        BY <2>1, <4>1, <4>4, <4>5, PublishTypes
    <3>2. CASE UNCHANGED <<bus, behind>>
      BY <2>1, <3>2 DEF StackTypes, BridgeOK
    <3>3. QED
      BY <2>1, <3>1, <3>2
  <2>4. BootOK'
    <3>1. CASE SendCounter(c)
      <4>1. counter' \in Nat /\ boot' = [boot EXCEPT !.unseen = TRUE]
        BY <3>1, SendCounterEffect
      <4>2. QED
        BY <1>1, <2>1, <4>1 DEF StackTypes, BootOK
    <3>2. CASE UNCHANGED <<boot, counter>>
      BY <1>1, <2>1, <3>2 DEF StackTypes, BootOK
    <3>3. QED
      BY <2>1, <3>1, <3>2
  <2>5. QED
    BY <1>6, <2>2, <2>3, <2>4, ConnectionTypes
<1>7. ConfigOK' /\ BridgeOK' /\ BootOK' /\ ConnOK'
  <2>1. team.clients \subseteq Clients
    BY PlatformAssumption DEF StackTypes, BootOK
  <2> DEFINE Goal == ConfigOK' /\ BridgeOK' /\ BootOK' /\ ConnOK'
  <2>2. /\ \A s \in Signals : SubscriberReads(s) => Goal
        /\ (Notified \/ BroadcasterSends) => Goal
        /\ \A c \in Clients : (ConnectionStep(c) \/ UserStep(c)) => Goal
    BY <1>3, <1>4, <1>5, <1>6
  <2> HIDE DEF Goal
  <2>3. Goal
    BY <2>1, <2>2 DEF BridgeStep
  <2>4. QED
    BY <2>3 DEF Goal
<1>8. QED
  BY <1>2, <1>7 DEF StackTypes

\* A step of the files, or of one who starts to save.
LEMMA FileTypes ==
    ASSUME StackTypes, FileStep \/ SavingStep, UNCHANGED team
    PROVE  StackTypes'
<1>1. CASE FileStep
  <2>1. PICK s \in Savers : SaveStep(s) \/ FailSave(s)
    BY <1>1 DEF FileStep
  <2>2. DiskOK' /\ SavesOK'
    BY <2>1, SaveTypes DEF StackTypes
  <2>3. UNCHANGED <<live, bridgeVars, boot, counter, conn, plant>>
    BY <1>1 DEF FileStep, configVars
  <2>4. ConfigOK' /\ BridgeOK' /\ BootOK' /\ ConnOK'
    BY <2>3 DEF StackTypes, bridgeVars, ConfigOK, BridgeOK, BootOK, ConnOK, Open
  <2>5. QED
    BY <2>2, <2>4 DEF StackTypes
<1>2. CASE SavingStep
  <2>1. PICK c \in Clients : SaveSection(c) /\ UNCHANGED <<plant, kuksa>>
    BY <1>2, PlatformAssumption DEF SavingStep, StackTypes, BootOK
  <2>2. PICK f \in ConfigFiles, v \in Calibrations : BeginSave(c, f, v)
    BY <2>1, SaveSectionEffect
  <2>3. Changes(c, {"job"}) /\ Unmoved /\ UNCHANGED disk /\ conn[c].job.op = "reboot"
    BY <2>1, SaveSectionEffect
  <2>4. SavesOK'
    <3>1. f \in Files /\ v \in Contents(f) /\ c \in Savers /\ SavesOK
      BY StorageAssumption, PlatformAssumption DEF Files, Contents, StackTypes
    <3>2. QED
      BY <2>2, <3>1, BeginSaveTypes
  <2>5. DiskOK' /\ ConfigOK' /\ BridgeOK' /\ BootOK'
    BY <2>1, <2>3 DEF StackTypes, DiskOK, Unmoved, bridgeVars, ConfigOK, BridgeOK, BootOK
  <2>6. Open(c) /\ ConnOK /\ UNCHANGED boot
    BY <2>1, <2>3 DEF SaveSection, Busy, Job, StackTypes, Unmoved
  <2>7. ConnOK'
    BY <2>3, <2>6, ConnSame
  <2>8. QED
    BY <2>4, <2>5, <2>7 DEF StackTypes
<1>3. QED
  BY <1>1, <1>2

\* A step of the plant model or of the sync.
LEMMA PlantTypes ==
    ASSUME StackTypes, UNCHANGED team,
           \/ PlantBoots \/ PlantMoves \/ KuksaTurns
           \/ \E path \in Signals \cup {"elsewhere"}, v \in Numbers : KuksaDelivers(path, v)
    PROVE  StackTypes'
<1>1. UNCHANGED <<disk, live, output, dirty, batching, ready, boot, counter, conn>>
  BY DEF PlantBoots, PlantMoves, KuksaTurns, KuksaDelivers, storageVars, configVars, bridgeVars
<1>2. DiskOK' /\ ConfigOK' /\ ConnOK'
  BY <1>1 DEF StackTypes, DiskOK, ConfigOK, ConnOK, Open
<1>3. PlantFile \in Files /\ Contents(PlantFile) = BOOLEAN /\ PlantSignal \in Signals
  BY PlatformAssumption DEF Files, Contents
<1>4. CASE PlantBoots
  <2>1. plant' \in BOOLEAN
    BY <1>4, LoadedType DEF PlantBoots, StackTypes
  <2>2. BridgeOK'
    <3>1. Publish(PlantSignal, plant') /\ BridgeOK
      BY <1>4 DEF PlantBoots, StackTypes
    <3>2. plant' \in Values
      BY <2>1 DEF Values
    <3>3. QED
      BY <1>1, <1>3, <3>1, <3>2, PublishTypes
  <2>3. SavesOK'
    BY <1>4 DEF PlantBoots, storageVars, StackTypes, SavesOK, Saving, Saves
  <2>4. QED
    BY <1>1, <1>2, <2>1, <2>2, <2>3 DEF StackTypes, BootOK
<1>5. CASE PlantMoves
  <2>1. plant' \in BOOLEAN
    BY <1>5 DEF PlantMoves
  <2>2. BridgeOK'
    <3>1. Publish(PlantSignal, plant') /\ BridgeOK
      BY <1>5 DEF PlantMoves, StackTypes
    <3>2. plant' \in Values
      BY <2>1 DEF Values
    <3>3. QED
      BY <1>1, <1>3, <3>1, <3>2, PublishTypes
  <2>3. SavesOK'
    <3>1. BeginSave("plant", PlantFile, plant') /\ SavesOK
      BY <1>5 DEF PlantMoves, StackTypes
    <3>2. "plant" \in Savers
      BY PlatformAssumption
    <3>3. QED
      BY <1>3, <2>1, <3>1, <3>2, BeginSaveTypes
  <2>4. QED
    BY <1>1, <1>2, <2>1, <2>2, <2>3 DEF StackTypes, BootOK
<1>6. CASE KuksaTurns
  BY <1>1, <1>2, <1>6
  DEF KuksaTurns, StackTypes, storageVars, bridgeVars, SavesOK, Saving, Saves, BridgeOK, BootOK
<1>7. ASSUME NEW path, NEW v \in Numbers, KuksaDelivers(path, v) PROVE StackTypes'
  <2>1. UNCHANGED <<saves, plant>>
    BY <1>7 DEF KuksaDelivers, storageVars
  <2>2. BridgeOK'
    <3>1. CASE path \in ALL_SIGNALS /\ Deliverable(v)
      BY <1>1, <1>7, <3>1, PublishTypes DEF KuksaDelivers, ALL_SIGNALS, StackTypes, Values
    <3>2. CASE ~(path \in ALL_SIGNALS /\ Deliverable(v))
      BY <1>1, <1>7, <3>2 DEF KuksaDelivers, StackTypes, BridgeOK
    <3>3. QED
      BY <3>1, <3>2
  <2>3. QED
    BY <1>1, <1>2, <2>1, <2>2 DEF StackTypes, SavesOK, Saving, Saves, BootOK
<1>8. QED
  BY <1>4, <1>5, <1>6, <1>7

\* A step of the boot loop, or a power cut.
LEMMA BootTypes ==
    ASSUME StackTypes, BootStep \/ MainWakes \/ PowerCut, UNCHANGED team
    PROVE  StackTypes'
<1>1. CASE BootStep
  <2>1. UNCHANGED <<storageVars, output, dirty, batching, ready, counter, conn, plant>>
    BY <1>1 DEF BootStep
  <2>2. DiskOK' /\ SavesOK'
    BY <2>1 DEF StackTypes, storageVars, DiskOK, SavesOK, Saving, Saves
  <2>3. ASSUME NEW tier \in ConfigFiles, LoadTier(tier) PROVE ConfigOK'
    <3>1. Loaded(tier, Defaults[tier]) \in Calibrations /\ tier \in {"vehicle_line", "variant"}
      BY LoadedType, CalibrationAssumption DEF StackTypes
    <3>2. DealerConfig \in DealerConfigs
      BY DEF DealerConfig, DealerConfigs
    <3> DEFINE v == Loaded(tier, Defaults[tier])
               d == IF tier = "vehicle_line" THEN DealerConfig ELSE live.dealer
    <3>3. live' = [live EXCEPT ![tier] = v, !.dealer = d]
      BY <2>3, <3>1 DEF LoadTier, StackTypes, ConfigOK
    <3>4. d \in DealerConfigs /\ v \in Calibrations
      BY <3>1, <3>2 DEF StackTypes, ConfigOK
    <3> HIDE DEF v, d
    <3>5. QED
      BY <3>1, <3>3, <3>4 DEF StackTypes, ConfigOK
  <2>4. ConfigOK'
    BY <1>1, <2>3, CalibrationAssumption DEF BootStep, configVars, StackTypes, ConfigOK
  <2>5. BridgeOK'
    <3>1. CASE UNCHANGED <<bus, behind>>
      BY <2>1, <3>1 DEF StackTypes, BridgeOK
    <3>2. CASE Publish(BootSignal, FALSE)
      <4>1. FALSE \in Values /\ BootSignal \in Signals /\ BridgeOK
        BY PlatformAssumption DEF Values, StackTypes
      <4>2. QED
        BY <2>1, <3>2, <4>1, PublishTypes
    <3>3. QED
      BY <1>1, <3>1, <3>2 DEF BootStep
  <2>6. /\ boot.phase \in {"down", "loading", "spawned"}
        /\ boot.phase = "spawned" => boot' = [boot EXCEPT !.phase = "running"]
        /\ \E p \in {"loading", "spawned", "running"} : boot' = [boot EXCEPT !.phase = p]
    BY <1>1 DEF BootStep
  <2>7. BootOK'
    BY <2>1, <2>6 DEF StackTypes, BootOK
  <2>8. ConnOK'
    <3>1. /\ boot'.id = boot.id
          /\ boot.phase = "spawned" => boot'.phase = "running"
      BY <2>6 DEF StackTypes, BootOK
    <3>2. QED
      BY <2>1, <2>6, <3>1 DEF StackTypes, ConnOK, Open
  <2>9. QED
    BY <2>2, <2>4, <2>5, <2>7, <2>8 DEF StackTypes
<1>2. CASE MainWakes
  <2>1. UNCHANGED <<storageVars, configVars, ready, counter, conn>>
    BY <1>2 DEF MainWakes
  <2>2. DiskOK' /\ SavesOK' /\ ConfigOK'
    BY <2>1
    DEF StackTypes, storageVars, configVars, DiskOK, SavesOK, Saving, Saves, ConfigOK
  <2>3. CASE IsForThisBoot(boot.id)
    <3>1. NoStack /\ boot' = [id |-> boot.id + 1, phase |-> "down", unseen |-> FALSE]
      BY <1>2, <2>3 DEF MainWakes
    <3>2. BridgeOK' /\ plant' = None
      BY <3>1, NoStackTypes
    <3>3. BootOK'
      BY <2>1, <3>1, <3>2 DEF StackTypes, BootOK
    <3>4. ConnOK'
      <4>1. \A c \in Clients : Open(c) => conn[c].boot \in Nat /\ conn[c].boot <= boot.id
        BY DEF StackTypes, ConnOK, Open, Conns
      <4>2. boot'.id = boot.id + 1 /\ boot.id \in Nat
        BY <3>1 DEF StackTypes, BootOK
      <4>3. \A c \in Clients : Open(c) => conn[c].boot <= boot'.id /\ conn[c].boot # boot'.id
        BY <4>1, <4>2
      <4>4. QED
        BY <2>1, <4>3 DEF StackTypes, ConnOK, Open
    <3>5. QED
      BY <2>2, <3>2, <3>3, <3>4 DEF StackTypes
  <2>4. CASE ~IsForThisBoot(boot.id)
    <3>1. /\ boot' = [boot EXCEPT !.unseen = FALSE]
          /\ UNCHANGED <<bus, behind, output, dirty, batching, plant>>
      BY <1>2, <2>4 DEF MainWakes
    <3>2. boot'.id = boot.id /\ boot'.phase = boot.phase
      BY <3>1 DEF StackTypes, BootOK
    <3>3. BridgeOK' /\ BootOK'
      BY <2>1, <3>1 DEF StackTypes, BridgeOK, BootOK
    <3>4. ConnOK'
      BY <2>1, <3>2 DEF StackTypes, ConnOK, Open
    <3>5. QED
      BY <2>2, <3>3, <3>4 DEF StackTypes
  <2>5. QED
    BY <2>3, <2>4
<1>3. CASE PowerCut
  <2>1. /\ NoStack /\ boot' = FirstBoot /\ counter' = 0 /\ ready' = {}
        /\ conn' = [c \in Clients |-> None]
        /\ UNCHANGED configVars
    BY <1>3 DEF PowerCut
  <2>2. DiskOK' /\ SavesOK'
    BY <1>3, CutTypes DEF PowerCut, StackTypes
  <2>3. BridgeOK' /\ plant' = None
    BY <2>1, NoStackTypes
  <2>4. QED
    BY <2>1, <2>2, <2>3
    DEF StackTypes, configVars, ConfigOK, FirstBoot, BootOK, ConnOK, Open
<1>4. QED
  BY <1>1, <1>2, <1>3

\* At first.
LEMMA StackInit == Init => StackTypes
<1> SUFFICES ASSUME Init PROVE StackTypes
  OBVIOUS
<1>1. DiskOK
  <2>1. disk = [f \in Files |-> Stored(team.disk[f])] /\ team \in Teams
    BY DEF Init
  <2>2. ASSUME NEW f \in Files
        PROVE  disk[f] \in [name : Inodes(f), tmp : Inodes(f), undone : SUBSET Inodes(f)]
    <3> DEFINE i == IF team.disk[f] = None THEN None ELSE Inode(team.disk[f], TRUE)
    <3>1. team.disk[f] \in Contents(f) \cup {None}
      BY <2>1, PlatformAssumption
    <3>2. i \in Inodes(f)
      BY <3>1 DEF Inode, Inodes, Written
    <3>3. disk[f] = [name |-> i, tmp |-> None, undone |-> {}]
      BY <2>1 DEF Stored, OnlyNamed
    <3>4. None \in Inodes(f)
      BY SomeInodes
    <3> HIDE DEF i
    <3>5. QED
      BY <3>2, <3>3, <3>4
  <2>3. DOMAIN disk = Files /\ disk = [f \in Files |-> disk[f]]
    BY <2>1
  <2>4. QED
    BY <2>2, <2>3 DEF DiskOK
<1>2. SavesOK
  BY DEF Init, SavesOK, Saves
<1>3. ConfigOK
  BY DEF Init, Defaults, VehicleLineCal, VariantCal, DealerConfig, ConfigOK, Calibrations,
         DealerConfigs
<1>4. BridgeOK
  BY EmptySeq DEF Init, BridgeOK, Unknown, NoneRead
<1>5. BootOK /\ ConnOK
  BY DEF Init, BootOK, ConnOK, FirstBoot, Open
<1>6. QED
  BY <1>1, <1>2, <1>3, <1>4, <1>5 DEF StackTypes

\* Any step.
LEMMA TypesStep == StackTypes /\ [Next]_vars => StackTypes'
<1> SUFFICES ASSUME StackTypes, [Next]_vars PROVE StackTypes'
  OBVIOUS
<1>1. CASE StackNext /\ UNCHANGED team
  BY <1>1, BridgeTypes, FileTypes, PlantTypes, BootTypes DEF StackNext
<1>2. CASE UNCHANGED <<stackVars, team>>
  BY <1>2
  DEF stackVars, storageVars, configVars, bridgeVars, StackTypes, DiskOK, SavesOK, Saving, Saves,
      ConfigOK, BridgeOK, BootOK, ConnOK, Open
<1>3. QED
  BY <1>1, <1>2 DEF Next, vars

\* The files, the saves, the bus, the boots and the connections are what StackTypes says,
\* through every crash, reboot and reconnection.
THEOREM StackIsTyped == Spec => []StackTypes
  BY StackInit, TypesStep, PTL DEF Spec

-----------------------------------------------------------------------------
(* No file is torn.                                                        *)

\* A file that no step touches, by a task that saves none or goes on as it was.
LEMMA OtherFile ==
    ASSUME NEW f, FileInv(f), disk'[f] = disk[f],
           \A r \in Savers : (Saves(r)' /\ saves'[r].file = f) => saves'[r] = saves[r]
    PROVE  FileInv(f)'
<1>1. \A i \in {disk'[f].name} \cup disk'[f].undone : Clean(i)
  BY DEF FileInv
<1>2. ASSUME NEW s \in Savers, Saves(s)', saves'[s].file = f PROVE SaveInv(f, s)'
  <2>1. saves'[s] = saves[s] /\ Saves(s)
    BY <1>2 DEF Saves
  <2>2. SaveInv(f, s)
    BY <1>2, <2>1 DEF FileInv
  <2>3. \A r \in Savers : (Saves(r)' /\ saves'[r].file = f) => r = s
    BY <2>2 DEF SaveInv, Saves
  <2>4. QED
    BY <2>1, <2>2, <2>3 DEF SaveInv
<1>3. QED
  BY <1>1, <1>2 DEF FileInv, Clean

\* A file whose names stay as they are, while the only task that saves it goes on.
LEMMA SameNames ==
    ASSUME NEW f, NEW s \in Savers, FileInv(f),
           disk'[f].name = disk[f].name, disk'[f].undone = disk[f].undone,
           \A r \in Savers \ {s} : saves'[r] = saves[r] /\ ~(Saves(r) /\ saves[r].file = f),
           saves'[s].stage # "create" => saves'[s].fd = "tmp",
           saves'[s].stage = "write" => disk'[f].tmp = Inode(Torn, FALSE),
           saves'[s].stage = "sync" => disk'[f].tmp = Inode(saves'[s].value, FALSE),
           saves'[s].stage = "rename" => disk'[f].tmp = Inode(saves'[s].value, TRUE)
    PROVE  FileInv(f)'
<1>1. \A i \in {disk'[f].name} \cup disk'[f].undone : Clean(i)
  BY DEF FileInv
<1>2. \A r \in Savers : (Saves(r)' /\ saves'[r].file = f) => r = s
  BY DEF Saves
<1>3. SaveInv(f, s)'
  BY <1>2 DEF SaveInv
<1>4. QED
  BY <1>1, <1>2, <1>3 DEF FileInv, Clean

\* A step of a save, on a file that only one task saves.
LEMMA OwnFile ==
    ASSUME DiskOK, SavesOK, NEW s \in Savers, SaveStep(s) \/ FailSave(s),
           NEW f, f = saves[s].file, FileInv(f)
    PROVE  FileInv(f)'
<1>1. Saves(s) /\ Saving(s) /\ f \in Files
  BY DEF SaveStep, CreateTmp, WriteTmp, SyncTmp, RenameTmp, NothingToRename, FailSave, At,
         SavesOK, Saving
<1>2. SaveInv(f, s) /\ \A r \in Savers \ {s} : ~(Saves(r) /\ saves[r].file = f)
  BY <1>1 DEF FileInv, SaveInv
<1>3. saves[s].value # Torn
  BY <1>1, PlatformAssumption DEF Saving
<1>4. disk[f] \in [name : Inodes(f), tmp : Inodes(f), undone : SUBSET Inodes(f)]
  BY <1>1 DEF DiskOK
<1> DEFINE d == disk[f]
<1>5. CASE CreateTmp(s)
  <2>1. /\ disk' = [disk EXCEPT ![f].tmp = Inode(Torn, FALSE)]
        /\ saves' = [saves EXCEPT ![s].stage = "write", ![s].fd = "tmp"]
    BY <1>5 DEF CreateTmp, Advance
  <2>2. /\ disk'[f].name = d.name /\ disk'[f].undone = d.undone
        /\ disk'[f].tmp = Inode(Torn, FALSE)
    BY <1>1, <1>4, <2>1 DEF DiskOK
  <2>3. /\ saves'[s].stage = "write" /\ saves'[s].fd = "tmp"
        /\ \A r \in Savers \ {s} : saves'[r] = saves[r]
    BY <1>1, <2>1 DEF SavesOK, Saving
  <2>4. QED
    BY <1>2, <2>2, <2>3, SameNames
<1>6. CASE WriteTmp(s)
  <2>1. saves[s].stage = "write" /\ saves[s].fd = "tmp" /\ d.tmp = Inode(Torn, FALSE)
    BY <1>2, <1>6 DEF WriteTmp, At, SaveInv
  <2>2. Target(s).holds = Torn
    BY <2>1 DEF Target, Inode
  <2>3. /\ disk' = [disk EXCEPT ![f].tmp = Inode(saves[s].value, FALSE)]
        /\ saves' = [saves EXCEPT ![s].stage = "sync", ![s].fd = "tmp"]
    BY <1>6, <2>1, <2>2 DEF WriteTmp, Put, Advance
  <2>4. /\ disk'[f].name = d.name /\ disk'[f].undone = d.undone
        /\ disk'[f].tmp = Inode(saves[s].value, FALSE)
    BY <1>1, <1>4, <2>3 DEF DiskOK
  <2>5. /\ saves'[s].stage = "sync" /\ saves'[s].fd = "tmp" /\ saves'[s].value = saves[s].value
        /\ \A r \in Savers \ {s} : saves'[r] = saves[r]
    BY <1>1, <2>3 DEF SavesOK, Saving
  <2>6. QED
    BY <1>2, <2>4, <2>5, SameNames
<1>7. CASE SyncTmp(s)
  <2>1. /\ saves[s].stage = "sync" /\ saves[s].fd = "tmp"
        /\ d.tmp = Inode(saves[s].value, FALSE)
    BY <1>2, <1>7 DEF SyncTmp, At, SaveInv
  <2>2. Target(s) = Inode(saves[s].value, FALSE)
    BY <2>1 DEF Target
  <2>3. Target(s) # None /\ Target(s).holds = saves[s].value
    <3>1. saves[s].value \in Contents(f)
      BY <1>1 DEF Saving
    <3>2. Inode(saves[s].value, FALSE) \in Written(f)
      <4>1. PICK v \in Contents(f) : v = saves[s].value
        BY <3>1
      <4>2. [holds |-> v, synced |-> FALSE] \in Written(f)
        BY <4>1 DEF Written
      <4>3. QED
        BY <4>1, <4>2 DEF Inode
    <3>3. Inode(saves[s].value, FALSE) # None
      <4>1. None \notin Written(f)
        BY <1>1, WrittenIsSome
      <4>2. QED
        BY <3>2, <4>1
    <3>4. QED
      BY <2>2, <3>3 DEF Inode
  <2>4. /\ disk' = [disk EXCEPT ![f].tmp = Inode(saves[s].value, TRUE)]
        /\ saves' = [saves EXCEPT ![s].stage = "rename", ![s].fd = "tmp"]
    BY <1>7, <2>1, <2>3 DEF SyncTmp, Put, Advance
  <2>5. /\ disk'[f].name = d.name /\ disk'[f].undone = d.undone
        /\ disk'[f].tmp = Inode(saves[s].value, TRUE)
    BY <1>1, <1>4, <2>4 DEF DiskOK
  <2>6. /\ saves'[s].stage = "rename" /\ saves'[s].fd = "tmp" /\ saves'[s].value = saves[s].value
        /\ \A r \in Savers \ {s} : saves'[r] = saves[r]
    BY <1>1, <2>4 DEF SavesOK, Saving
  <2>7. QED
    BY <1>2, <2>5, <2>6, SameNames
<1>8. CASE RenameTmp(s)
  <2>1. d.tmp = Inode(saves[s].value, TRUE)
    BY <1>2, <1>8 DEF RenameTmp, At, SaveInv
  <2>2. /\ disk' = [disk EXCEPT ![f] = [name |-> d.tmp, tmp |-> None, undone |-> {d.name}]]
        /\ saves' = Reopened(s, f, [tmp |-> "name", name |-> "gone", gone |-> "gone"])
    BY <1>8 DEF RenameTmp
  <2>3. disk'[f].name = Inode(saves[s].value, TRUE) /\ disk'[f].undone = {d.name}
    BY <1>1, <2>1, <2>2 DEF DiskOK
  <2>4. saves'[s] = None /\ \A r \in Savers \ {s} : saves'[r] = saves[r]
    BY <1>2, <2>2 DEF Reopened
  <2>5. Clean(disk'[f].name) /\ Clean(d.name)
    BY <1>3, <2>3 DEF Clean, Inode, FileInv
  <2>6. QED
    BY <1>2, <2>3, <2>4, <2>5 DEF FileInv, Saves, Clean
<1>9. CASE FailSave(s)
  <2>1. \/ disk' = [disk EXCEPT ![f].tmp = None] \/ UNCHANGED disk
    BY <1>9 DEF FailSave
  <2>2. disk'[f].name = d.name /\ disk'[f].undone = d.undone
    BY <1>1, <1>4, <2>1 DEF DiskOK
  <2>3. saves'[s] = None /\ \A r \in Savers \ {s} : saves'[r] = saves[r]
    BY <1>1, <1>2, <1>9 DEF FailSave, Reopened, SavesOK
  <2>4. QED
    BY <1>2, <2>2, <2>3 DEF FileInv, Saves, Clean
<1>10. QED
  BY <1>5, <1>6, <1>7, <1>8, <1>9 DEF SaveStep, NothingToRename

\* It touches no other file.
LEMMA SaveStorage ==
    ASSUME DiskOK, SavesOK, StorageInv, NEW s \in Savers, SaveStep(s) \/ FailSave(s),
           NEW f, f = saves[s].file
    PROVE  StorageInv'
<1>1. Saves(s) /\ Saving(s) /\ f \in Files /\ UNCHANGED crossed
  BY DEF SaveStep, CreateTmp, WriteTmp, SyncTmp, RenameTmp, NothingToRename, FailSave, At,
         SavesOK, Saving
<1>2. ASSUME NEW g \in Files \ crossed, g # f PROVE FileInv(g)'
  <2>1. disk'[g] = disk[g]
    BY <1>1, <1>2
    DEF SaveStep, CreateTmp, WriteTmp, SyncTmp, RenameTmp, NothingToRename, FailSave, Put, DiskOK
  <2>2. ASSUME NEW r \in Savers, Saves(r)', saves'[r].file = g PROVE saves'[r] = saves[r]
    <3>1. CASE SaveStep(s) /\ ~RenameTmp(s) /\ ~NothingToRename(s)
      <4>1. PICK stage, fd : Advance(s, stage, fd)
        BY <3>1 DEF SaveStep, CreateTmp, WriteTmp, SyncTmp
      <4>2. saves' = [saves EXCEPT ![s] = [saves[s] EXCEPT !.stage = stage, !.fd = fd]]
        BY <4>1 DEF Advance
      <4>3. r # s
        BY <1>1, <1>2, <2>2, <4>2 DEF SavesOK, Saving
      <4>4. QED
        BY <4>2, <4>3 DEF SavesOK
    <3>2. CASE RenameTmp(s) \/ FailSave(s)
      <4>1. \/ \E move : saves' = Reopened(s, f, move)
            \/ saves' = [saves EXCEPT ![s] = None]
        BY <3>2 DEF RenameTmp, FailSave
      <4>2. r # s
        BY <2>2, <4>1 DEF Reopened, Saves, SavesOK
      <4>3. CASE \E move : saves' = Reopened(s, f, move)
        <5>1. PICK move : saves' = Reopened(s, f, move)
          BY <4>3
        <5>2. Saves(r) => saves[r] \in [file : Files, value : BOOLEAN \cup Calibrations,
                             stage : {"create", "write", "sync", "rename"},
                             fd : {None, "tmp", "name", "gone"}]
          BY DEF SavesOK, Saving
        <5>3. QED
          BY <1>2, <2>2, <4>2, <5>1, <5>2 DEF Reopened, Saves
      <4>4. CASE saves' = [saves EXCEPT ![s] = None]
        BY <4>2, <4>4 DEF SavesOK
      <4>5. QED
        BY <4>1, <4>3, <4>4
    <3>3. QED
      BY <3>1, <3>2 DEF NothingToRename
  <2>3. QED
    BY <1>2, <2>1, <2>2, OtherFile DEF StorageInv
<1>3. f \notin crossed => FileInv(f)'
  BY <1>1, OwnFile DEF StorageInv
<1>4. QED
  BY <1>1, <1>2, <1>3 DEF StorageInv

\* A task that saves nothing starts to.
LEMMA BeginStorage ==
    ASSUME SavesOK, StorageInv, NEW s \in Savers, NEW f \in Files, NEW v, ~Saves(s),
           BeginSave(s, f, v), UNCHANGED disk
    PROVE  StorageInv'
<1> DEFINE n == [file |-> f, value |-> v, stage |-> "create", fd |-> None]
<1>1. /\ saves'[s] = n /\ n.file = f /\ n.stage = "create"
      /\ \A r \in Savers \ {s} : saves'[r] = saves[r]
  BY DEF BeginSave, SavesOK
<1>2. ASSUME NEW g \in Files \ crossed' PROVE FileInv(g)'
  <2>1. FileInv(g)
    BY <1>2 DEF BeginSave, StorageInv
  <2>2. CASE g # f
    <3>1. \A r \in Savers : (Saves(r)' /\ saves'[r].file = g) => saves'[r] = saves[r]
      BY <1>1, <2>2
    <3>2. QED
      BY <2>1, <3>1, OtherFile
  <2>3. CASE g = f
    <3>1. \A r \in Savers \ {s} : ~(Saves(r) /\ saves[r].file = f)
      BY <1>2, <2>3 DEF BeginSave
    <3>2. \A r \in Savers : (Saves(r)' /\ saves'[r].file = f) => r = s
      BY <1>1, <3>1 DEF Saves
    <3>3. SaveInv(f, s)'
      BY <1>1, <3>2 DEF SaveInv
    <3>4. \A i \in {disk'[f].name} \cup disk'[f].undone : Clean(i)
      BY <2>1, <2>3 DEF FileInv
    <3>5. QED
      BY <2>3, <3>2, <3>3, <3>4 DEF FileInv, Clean
  <2>4. QED
    BY <2>2, <2>3
<1>3. QED
  BY <1>2 DEF StorageInv

\* After a power cut every name stands for what it stood for, or for what it stood for
\* before the last rename.
LEMMA CutStorage ==
    ASSUME StorageInv, NEW removed, CutDisk(removed)
    PROVE  StorageInv'
<1>1. PICK undo \in SUBSET {f \in Files : disk[f].undone # {}},
           lost \in SUBSET {f \in Files : \E i \in {disk[f].name} \cup disk[f].undone :
                                              i # None /\ ~i.synced} :
        disk' = [f \in Files |-> IF f \in removed THEN Stored(None)
                                 ELSE AfterCut(f, f \in undo, f \in lost)]
  BY DEF CutDisk
<1>2. ASSUME NEW f \in Files \ crossed, NEW u \in BOOLEAN, NEW l \in BOOLEAN
      PROVE  \E i \in {disk[f].name} \cup disk[f].undone : AfterCut(f, u, l) = OnlyNamed(i)
  <2> DEFINE i == IF u /\ disk[f].undone # {} THEN CHOOSE j \in disk[f].undone : TRUE
                  ELSE disk[f].name
  <2>1. i \in {disk[f].name} \cup disk[f].undone
    OBVIOUS
  <2>2. AfterCut(f, u, l) = OnlyNamed(OnDisk(i, l))
    BY DEF AfterCut
  <2> HIDE DEF i
  <2>3. OnDisk(i, l) = i
    BY <2>1 DEF OnDisk, StorageInv, FileInv, Clean
  <2>4. QED
    BY <2>1, <2>2, <2>3
<1>3. ASSUME NEW f \in Files \ crossed PROVE FileInv(f)'
  <2>1. PICK i : disk'[f] = OnlyNamed(i) /\ Clean(i)
    <3>1. CASE f \in removed
      BY <1>1, <3>1 DEF Stored, Clean
    <3>2. CASE f \notin removed
      <4>1. disk'[f] = AfterCut(f, f \in undo, f \in lost)
        BY <1>1, <3>2
      <4>2. (f \in undo) \in BOOLEAN /\ (f \in lost) \in BOOLEAN
        OBVIOUS
      <4>3. \E i \in {disk[f].name} \cup disk[f].undone : disk'[f] = OnlyNamed(i)
        BY <1>2, <4>1, <4>2
      <4>4. QED
        BY <4>3 DEF StorageInv, FileInv
    <3>3. QED
      BY <3>1, <3>2
  <2>2. \A r \in Savers : ~Saves(r)'
    BY DEF CutDisk, Saves
  <2>3. QED
    BY <2>1, <2>2 DEF FileInv, OnlyNamed, Clean
<1>4. QED
  BY <1>3 DEF StorageInv, CutDisk

\* A file never holds half of a save, nor will it after a power cut, whatever is saved and
\* whoever saves it, unless two saved it at the same time (nvm.rs:36-41, config.rs:821-822).
THEOREM NoFileIsTorn == Spec => []NoTornFile
<1> DEFINE Inv == StackTypes /\ StorageInv
<1>1. Init => StorageInv
  <2> SUFFICES ASSUME Init, NEW f \in Files PROVE FileInv(f)
    BY DEF StorageInv
  <2>1. team.disk[f] # Torn
    BY PlatformAssumption, StorageAssumption DEF Init, Contents
  <2>2. disk[f] = Stored(team.disk[f]) /\ \A s \in Savers : ~Saves(s)
    BY DEF Init, Saves
  <2>3. QED
    BY <2>1, <2>2 DEF FileInv, Clean, Stored, OnlyNamed, Inode
<1>2. StackTypes /\ StorageInv /\ [Next]_vars => StorageInv'
  <2> SUFFICES ASSUME StackTypes, StorageInv, [Next]_vars PROVE StorageInv'
    OBVIOUS
  <2>1. CASE UNCHANGED <<disk, saves, crossed>>
    <3>1. \A f \in Files \ crossed : FileInv(f)'
      BY <2>1, OtherFile DEF StorageInv
    <3>2. QED
      BY <2>1, <3>1 DEF StorageInv
  <2>2. CASE FileStep
    <3>1. PICK s \in Savers : SaveStep(s) \/ FailSave(s)
      BY <2>2 DEF FileStep
    <3>2. PICK f : f = saves[s].file
      OBVIOUS
    <3>3. QED
      BY <3>1, <3>2, SaveStorage DEF StackTypes
  <2>3. CASE SavingStep
    <3>1. PICK c \in Clients : SaveSection(c)
      BY <2>3, PlatformAssumption DEF SavingStep, StackTypes, BootOK
    <3>2. PICK f \in ConfigFiles, v \in Calibrations : BeginSave(c, f, v)
      BY <3>1, SaveSectionEffect
    <3>3. ~Saves(c) /\ UNCHANGED disk /\ f \in Files /\ c \in Savers /\ SavesOK
      BY <3>1, SaveSectionEffect, PlatformAssumption DEF Files, StackTypes
    <3>4. QED
      BY <3>2, <3>3, BeginStorage
  <2>4. CASE PlantMoves
    <3>1. BeginSave("plant", PlantFile, plant') /\ ~Saves("plant") /\ UNCHANGED disk /\ SavesOK
      BY <2>4 DEF PlantMoves, StackTypes
    <3>2. "plant" \in Savers /\ PlantFile \in Files
      BY PlatformAssumption DEF Files
    <3>3. QED
      BY <3>1, <3>2, BeginStorage
  <2>5. CASE PowerCut
    BY <2>5, CutStorage DEF PowerCut
  <2>6. QED
    BY <2>1, <2>2, <2>3, <2>4, <2>5
    DEF Next, vars, stackVars, StackNext, BridgeStep, PlantBoots, KuksaTurns, KuksaDelivers,
        BootStep, MainWakes, storageVars
<1>3. StorageInv => NoTornFile
  BY DEF StorageInv, FileInv, Clean, NoTornFile
<1>4. QED
  BY <1>1, <1>2, <1>3, StackInit, TypesStep, PTL DEF Spec

-----------------------------------------------------------------------------
(* The connections of a boot that is over.                                 *)

\* Nobody but the one who acts changes, and it not in what OldConnectionsClose is about.
KeepsWaiting(c) ==
    /\ UNCHANGED boot
    /\ \A d \in Clients : Open(d)' =>
        /\ Open(d)
        /\ d # c => conn'[d] = conn[d]
        /\ conn'[d].boot = conn[d].boot
        /\ conn'[d].unseen = conn[d].unseen /\ conn'[d].late = conn[d].late
        /\ conn[d].phase = "accepted" => conn'[d].phase = "accepted"

\* A step of one connection that leaves alone how far it is and what it has to see.
LEMMA ChangesKeepWaiting ==
    ASSUME NEW c \in Clients, NEW fs, Changes(c, fs), UNCHANGED boot, Open(c), ConnOK,
           "boot" \notin fs, "unseen" \notin fs, "late" \notin fs,
           conn[c].phase = "accepted" => conn'[c].phase = "accepted"
    PROVE  KeepsWaiting(c)
<1>1. /\ conn'[c]["boot"] = conn[c]["boot"] /\ conn'[c]["unseen"] = conn[c]["unseen"]
      /\ conn'[c]["late"] = conn[c]["late"]
  BY DEF Changes, ConnFields
<1>2. \A d \in Clients \ {c} : conn'[d] = conn[d]
  BY DEF Changes, ConnOK
<1>3. QED
  BY <1>1, <1>2 DEF KeepsWaiting, Open

\* A step that changes no phase.
LEMMA SamePhaseKeepsWaiting ==
    ASSUME NEW c \in Clients, NEW fs, Changes(c, fs), UNCHANGED boot, Open(c), ConnOK,
           "boot" \notin fs, "unseen" \notin fs, "late" \notin fs, "phase" \notin fs
    PROVE  KeepsWaiting(c)
<1>1. conn'[c]["phase"] = conn[c]["phase"]
  BY DEF Changes, ConnFields
<1>2. QED
  BY <1>1, ChangesKeepWaiting

\* Most of a connection's steps are of that kind.
LEMMA MostKeepWaiting ==
    ASSUME StackTypes, NEW c \in Clients, ConnectionStep(c) \/ UserStep(c),
           ~Accept(c), ~Subscribe(c), ~SendCounter(c), ~BroadcastConfig(c)
    PROVE  KeepsWaiting(c)
<1>1. UNCHANGED boot /\ ConnOK /\ team \in Teams
  BY ConnectionFrame DEF StackTypes, BootOK
<1>2. Open(c)
  BY DEF ConnectionStep, PassGate, SendSnapshot, SendConfig, SeesReboot, ForwardUpdate,
         ForwardConfig, HandleSensor, Disconnect, CopyTier, StoreTier, BuildConfig, HandleReboot,
         ReadCounter, UserStep, SetSensor, SetConfig, ApplyAndReboot, Leave, Uses, InPhase,
         Selects, Hears, Job, Busy
<1>3. CASE SeesReboot(c) \/ Disconnect(c)
  <2>1. conn' = [conn EXCEPT ![c] = None]
    BY <1>3, ClosesEffect
  <2>2. QED
    BY <1>1, <2>1 DEF KeepsWaiting, ConnOK, Open
<1>4. CASE PassGate(c)
  BY <1>1, <1>2, <1>4, PassGateEffect, ChangesKeepWaiting
<1>5. CASE SendSnapshot(c)
  BY <1>1, <1>2, <1>5, SendSnapshotEffect, ChangesKeepWaiting
<1>6. CASE SendConfig(c)
  BY <1>1, <1>2, <1>6, SendConfigEffect, ChangesKeepWaiting
<1>7. CASE ForwardUpdate(c)
  BY <1>1, <1>2, <1>7, ForwardUpdateEffect, SamePhaseKeepsWaiting
<1>8. CASE ForwardConfig(c)
  BY <1>1, <1>2, <1>8, ForwardConfigEffect, SamePhaseKeepsWaiting
<1>9. CASE HandleSensor(c)
  BY <1>1, <1>2, <1>9, HandleSensorEffect, SamePhaseKeepsWaiting
<1>10. CASE CopyTier(c)
  BY <1>1, <1>2, <1>10, CopyTierEffect, SamePhaseKeepsWaiting
<1>11. CASE StoreTier(c)
  BY <1>1, <1>2, <1>11, StoreTierEffect, SamePhaseKeepsWaiting
<1>12. CASE BuildConfig(c)
  BY <1>1, <1>2, <1>12, BuildConfigEffect, SamePhaseKeepsWaiting
<1>13. CASE HandleReboot(c)
  BY <1>1, <1>2, <1>13, HandleRebootEffect, SamePhaseKeepsWaiting
<1>14. CASE ReadCounter(c)
  BY <1>1, <1>2, <1>14, ReadCounterEffect, SamePhaseKeepsWaiting
<1>15. CASE UserStep(c)
  <2>1. ASSUME NEW s \in Inputs, NEW v \in Numbers, SetSensor(c, ToHmi(s), v)
        PROVE  KeepsWaiting(c)
    BY <1>1, <1>2, <2>1, SetSensorEffect, SamePhaseKeepsWaiting
  <2>2. ASSUME NEW k \in Settable, SetConfig(c, k[1], k[2], 1) PROVE KeepsWaiting(c)
    BY <1>1, <1>2, <2>2, SetConfigEffect, SamePhaseKeepsWaiting
  <2>3. ASSUME Leave(c) \/ \E tiers \in Seq(ConfigFiles), v \in Int : ApplyAndReboot(c, tiers, v)
        PROVE  KeepsWaiting(c)
    BY <1>1, <1>2, <2>3, LeaveEffect, SamePhaseKeepsWaiting
  <2>4. QED
    BY <1>1, <1>15, <2>1, <2>2, <2>3, UserSteps
<1>16. QED
  BY <1>3, <1>4, <1>5, <1>6, <1>7, <1>8, <1>9, <1>10, <1>11, <1>12, <1>13, <1>14, <1>15
  DEF ConnectionStep

\* It keeps the invariant.
LEMMA KeptWaiting ==
    ASSUME RebootInv, NEW c, KeepsWaiting(c)
    PROVE  RebootInv'
  BY DEF RebootInv, OldConnectionsClose, KeepsWaiting, OfThisBoot, Open

\* A step of the bridge, or of one who starts to save.
LEMMA BridgeReboots ==
    ASSUME StackTypes, RebootInv, BridgeStep \/ SavingStep
    PROVE  RebootInv'
<1>1. ConnOK /\ team.clients \subseteq Clients
  BY PlatformAssumption DEF StackTypes, BootOK
<1>2. CASE UNCHANGED <<boot, conn>>
  BY <1>2 DEF RebootInv, OldConnectionsClose, OfThisBoot, Open
<1>3. CASE BroadcasterSends
  <2>1. /\ \A d \in Clients : ~OfThisBoot(d) => conn'[d] = conn[d]
        /\ \A d \in Clients : OfThisBoot(d) =>
            /\ conn'[d]["boot"] = conn[d]["boot"] /\ conn'[d]["unseen"] = conn[d]["unseen"]
            /\ conn'[d]["late"] = conn[d]["late"] /\ conn'[d]["phase"] = conn[d]["phase"]
    BY <1>3, BroadcasterSendsEffect DEF ConnFields
  <2>2. UNCHANGED boot
    BY <1>3 DEF BroadcasterSends
  <2>3. QED
    BY <2>1, <2>2 DEF RebootInv, OldConnectionsClose, OfThisBoot, Open
<1>4. ASSUME NEW c \in Clients, ConnectionStep(c) \/ UserStep(c) PROVE RebootInv'
  <2>1. CASE Accept(c)
    <3>1. conn' = [conn EXCEPT ![c] = NewConn] /\ UNCHANGED boot
      BY <2>1, AcceptEffect DEF Unmoved
    <3>2. NewConn.phase = "accepted"
      BY DEF NewConn
    <3> HIDE DEF NewConn
    <3>3. QED
      BY <1>1, <3>1, <3>2 DEF ConnOK, RebootInv, OldConnectionsClose, OfThisBoot, Open
  <2>2. CASE Subscribe(c)
    <3>1. /\ Changes(c, {"phase", "late"}) /\ UNCHANGED boot /\ Open(c)
          /\ conn'[c].late = (~OfThisBoot(c) \/ boot.unseen)
      BY <1>1, <2>2, SubscribeEffect DEF Unmoved, Subscribe, InPhase
    <3>2. /\ conn'[c]["boot"] = conn[c]["boot"]
          /\ \A d \in Clients \ {c} : conn'[d] = conn[d]
      BY <1>1, <3>1 DEF Changes, ConnFields, ConnOK
    <3>3. QED
      BY <3>1, <3>2 DEF RebootInv, OldConnectionsClose, OfThisBoot, Open
  <2>3. CASE SendCounter(c)
    <3>1. /\ boot' = [boot EXCEPT !.unseen = TRUE]
          /\ \A d \in Clients : Open(d)' =>
              /\ conn[d].phase # "accepted" => conn'[d].unseen
              /\ conn'[d]["phase"] = conn[d]["phase"]
      BY <2>3, SendCounterEffect DEF ConnFields
    <3>2. QED
      BY <3>1 DEF RebootInv, OldConnectionsClose, OfThisBoot, Open
  <2>4. CASE BroadcastConfig(c)
    <3>1. /\ UNCHANGED boot
          /\ \A d \in Clients : Open(d)' =>
              /\ Open(d)
              /\ conn'[d]["boot"] = conn[d]["boot"] /\ conn'[d]["unseen"] = conn[d]["unseen"]
              /\ conn'[d]["late"] = conn[d]["late"] /\ conn'[d]["phase"] = conn[d]["phase"]
      BY <2>4, BroadcastConfigEffect DEF ConnFields, Unmoved
    <3>2. QED
      BY <3>1 DEF RebootInv, OldConnectionsClose, OfThisBoot
  <2>5. QED
    BY <1>4, <2>1, <2>2, <2>3, <2>4, MostKeepWaiting, KeptWaiting
<1>5. CASE SavingStep
  <2>1. PICK c \in Clients : SaveSection(c)
    BY <1>1, <1>5 DEF SavingStep
  <2>2. Changes(c, {"job"}) /\ UNCHANGED boot /\ Open(c)
    BY <2>1, SaveSectionEffect DEF Unmoved, SaveSection, Busy, Job
  <2>3. KeepsWaiting(c)
    BY <1>1, <2>2, SamePhaseKeepsWaiting
  <2>4. QED
    BY <2>3, KeptWaiting
<1>6. CASE BridgeStep
  <2>1. /\ \A s \in Signals : SubscriberReads(s) => UNCHANGED <<boot, conn>>
        /\ Notified => UNCHANGED <<boot, conn>>
    BY DEF SubscriberReads, Notified
  <2>2. \/ UNCHANGED <<boot, conn>> \/ BroadcasterSends
        \/ \E c \in Clients : ConnectionStep(c) \/ UserStep(c)
    BY <1>1, <1>6, <2>1 DEF BridgeStep
  <2>3. QED
    BY <1>2, <1>3, <1>4, <2>2
<1>7. QED
  BY <1>5, <1>6

\* Each connection of a boot that is over has the request that ended it before it, whatever
\* the HMIs do and how often they ask for a reboot (ws_bridge.rs:694-704).  That it comes to
\* the loop that reads it is not said: a gate that has not opened by then holds it back.
THEOREM OldBootsLetGo == Spec => []OldConnectionsClose
<1>1. Init => RebootInv
  BY DEF Init, RebootInv, OldConnectionsClose, OfThisBoot, Open
<1>2. StackTypes /\ RebootInv /\ [Next]_vars => RebootInv'
  <2> SUFFICES ASSUME StackTypes, RebootInv, [Next]_vars PROVE RebootInv'
    OBVIOUS
  <2>1. CASE UNCHANGED <<boot, conn>>
    BY <2>1 DEF RebootInv, OldConnectionsClose, OfThisBoot, Open
  <2>2. CASE BridgeStep \/ SavingStep
    BY <2>2, BridgeReboots
  <2>3. CASE BootStep
    <3>1. UNCHANGED conn /\ \E p : boot' = [boot EXCEPT !.phase = p]
      BY <2>3 DEF BootStep
    <3>2. boot'.id = boot.id /\ boot'.unseen = boot.unseen
      BY <3>1 DEF StackTypes, BootOK
    <3>3. QED
      BY <3>1, <3>2 DEF RebootInv, OldConnectionsClose, OfThisBoot, Open
  <2>4. CASE MainWakes
    <3>1. /\ UNCHANGED conn /\ boot.unseen /\ boot'.unseen = FALSE
      BY <2>4 DEF MainWakes, StackTypes, BootOK
    <3>2. QED
      BY <3>1 DEF RebootInv, OldConnectionsClose, OfThisBoot, Open
  <2>5. CASE PowerCut
    BY <2>5 DEF PowerCut, RebootInv, OldConnectionsClose, OfThisBoot, Open
  <2>6. QED
    BY <2>1, <2>2, <2>3, <2>4, <2>5
    DEF Next, vars, stackVars, StackNext, FileStep, PlantBoots, PlantMoves, KuksaTurns,
        KuksaDelivers
<1>3. RebootInv => OldConnectionsClose
  BY DEF RebootInv
<1>4. QED
  BY <1>1, <1>2, <1>3, StackInit, TypesStep, PTL DEF Spec

-----------------------------------------------------------------------------
(* The configuration that an HMI shows.                                    *)

\* Whoever sets the configuration goes on, and nobody's copy gets older.
LEMMA ViewKept ==
    ASSUME ViewInv, UNCHANGED live, ~overlap' => ~overlap,
           \A d \in Clients : OfThisBoot(d)' => OfThisBoot(d),
           \A d \in Clients : Setting(d)' <=> Setting(d),
           \A d \in Clients : (Setting(d)' /\ conn'[d].job.stage = "built") =>
                (conn'[d].job = conn[d].job \/ conn'[d].job.msg = ConfigMsg),
           \A d \in Clients : (OfThisBoot(d)' /\ Fresh(d)) => Fresh(d)'
    PROVE  ViewInv'
<1> SUFFICES ASSUME ~overlap' PROVE ViewInv'
  BY DEF ViewInv
<1>1. ConfigMsg' = ConfigMsg
  BY DEF ConfigMsg
<1>2. \A c, d \in Clients : (Setting(c)' /\ Setting(d)') => c = d
  BY DEF ViewInv
<1>3. ASSUME NEW c \in Clients, Setting(c)', conn'[c].job.stage = "built"
      PROVE  conn'[c].job.msg = ConfigMsg'
  BY <1>1, <1>3 DEF ViewInv
<1>4. ASSUME NEW c \in Clients, OfThisBoot(c)'
      PROVE  (\E d \in Clients : Setting(d)') \/ Fresh(c)'
  BY <1>4 DEF ViewInv
<1>5. QED
  BY <1>2, <1>3, <1>4 DEF ViewInv

\* A step of one connection that does not set the configuration, or sets on.
LEMMA ViewStep ==
    ASSUME ViewInv, ConnOK, UNCHANGED <<live, boot>>, ~overlap' => ~overlap,
           NEW c \in Clients, NEW fs, Changes(c, fs), "boot" \notin fs, Open(c),
           \/ conn'[c].job = conn[c].job
           \/ /\ conn[c].job = None \/ conn[c].job.op = "reboot"
              /\ conn'[c].job = None \/ conn'[c].job.op = "reboot",
           Fresh(c) => Fresh(c)'
    PROVE  ViewInv'
<1>1. conn'[c]["boot"] = conn[c]["boot"] /\ conn'[c] \in Conns
  BY DEF Changes, ConnFields
<1>2. ASSUME NEW d \in Clients \ {c} PROVE conn'[d] = conn[d]
  BY <1>2 DEF Changes, ConnOK
<1>3. ConfigMsg' = ConfigMsg
  BY DEF ConfigMsg
<1>4. ASSUME NEW d \in Clients
      PROVE  /\ OfThisBoot(d)' => OfThisBoot(d)
             /\ Setting(d)' <=> Setting(d)
             /\ (Setting(d)' /\ conn'[d].job.stage = "built") => conn'[d].job = conn[d].job
             /\ Fresh(d) => Fresh(d)'
  <2>1. CASE d = c
    <3>1. OfThisBoot(d)' => OfThisBoot(d)
      BY <1>1, <2>1 DEF OfThisBoot
    <3>2. CASE conn'[c].job = conn[c].job
      <4>1. OfThisBoot(c) => OfThisBoot(c)'
        <5>1. Open(c)'
          BY <1>1, PlatformAssumption DEF Open
        <5>2. QED
          BY <1>1, <5>1 DEF OfThisBoot
      <4>2. QED
        BY <2>1, <3>1, <3>2, <4>1 DEF Setting
    <3>3. CASE /\ conn[c].job = None \/ conn[c].job.op = "reboot"
               /\ conn'[c].job = None \/ conn'[c].job.op = "reboot"
      BY <2>1, <3>1, <3>3 DEF Setting
    <3>4. QED
      BY <2>1, <3>2, <3>3
  <2>2. CASE d # c
    BY <1>2, <1>3, <2>2 DEF OfThisBoot, Open, Setting, Fresh, Edited
  <2>3. QED
    BY <2>1, <2>2
<1>6. QED
  BY <1>4, ViewKept

\* What takes no part in the configuration.
LEMMA FreshSame ==
    ASSUME NEW c \in Clients, NEW fs, Changes(c, fs), UNCHANGED live,
           "configs" \notin fs, "phase" \notin fs, "view" \notin fs, "inbox" \notin fs
    PROVE  Fresh(c) => Fresh(c)'
<1>1. /\ conn'[c]["configs"] = conn[c]["configs"] /\ conn'[c]["phase"] = conn[c]["phase"]
      /\ conn'[c]["view"] = conn[c]["view"] /\ conn'[c]["inbox"] = conn[c]["inbox"]
      /\ ConfigMsg' = ConfigMsg
  BY DEF Changes, ConnFields, ConfigMsg
<1>2. QED
  BY <1>1 DEF Fresh, Edited

\* A message that is heard, or told, is no setting of the configuration.
LEMMA FreshInbox ==
    ASSUME NEW c \in Clients, NEW fs, Changes(c, fs), UNCHANGED live,
           "configs" \notin fs, "phase" \notin fs, "view" \notin fs,
           \/ /\ conn[c].inbox # <<>> /\ Head(conn[c].inbox).op # "config_set"
              /\ conn'[c].inbox = Tail(conn[c].inbox)
           \/ \E m \in Messages : conn'[c].inbox = Append(conn[c].inbox, m)
    PROVE  Fresh(c) => Fresh(c)'
<1>1. /\ conn'[c]["configs"] = conn[c]["configs"] /\ conn'[c]["phase"] = conn[c]["phase"]
      /\ conn'[c]["view"] = conn[c]["view"] /\ ConfigMsg' = ConfigMsg
  BY DEF Changes, ConnFields, ConfigMsg
<1>2. conn[c].inbox \in Seq(Messages)
  BY DEF Changes, Conns
<1>3. Edited(c) => Edited(c)'
  <2> DEFINE q == conn[c].inbox
             t == conn'[c].inbox
  <2>1. \A i \in DOMAIN q : q[i].op = "config_set" => \E j \in DOMAIN t : t[j] = q[i]
    <3>1. CASE q # <<>> /\ Head(q).op # "config_set" /\ t = Tail(q)
      <4>1. /\ Head(q) = q[1]
            /\ \A i \in DOMAIN q \ {1} : i - 1 \in DOMAIN Tail(q) /\ Tail(q)[i - 1] = q[i]
        BY <1>2, <3>1, TailOf
      <4>2. QED
        BY <3>1, <4>1
    <3>2. ASSUME NEW m \in Messages, t = Append(q, m)
          PROVE  \A i \in DOMAIN q : i \in DOMAIN t /\ t[i] = q[i]
      BY <1>2, <3>2, AppendOf
    <3>3. QED
      BY <3>1, <3>2
  <2>2. QED
    BY <2>1 DEF Edited
<1>4. QED
  BY <1>1, <1>3 DEF Fresh

\* A connection's or a user's step.
LEMMA ConnectionViews ==
    ASSUME StackTypes, ViewInv, NEW c \in Clients, ConnectionStep(c) \/ UserStep(c)
    PROVE  ViewInv'
<1> SUFFICES ASSUME ~overlap' PROVE ViewInv'
  BY DEF ViewInv
<1>1. ConnOK /\ team \in Teams /\ ~overlap
  BY ConnectionFrame DEF StackTypes, BootOK, CopyTier
<1>2. \A d \in Clients : conn[d] \in Conns \cup {None}
  BY <1>1 DEF ConnOK
<1>3. CASE Accept(c)
  <2>1. /\ conn' = [conn EXCEPT ![c] = NewConn] /\ UNCHANGED <<boot, live>> /\ ~Open(c)
    BY <1>3, AcceptEffect DEF Unmoved, Accept
  <2>2. /\ NewConn.phase = "accepted" /\ NewConn.boot = boot.id /\ NewConn.job = None
        /\ NewConn.configs = <<>>
    BY DEF NewConn
  <2> HIDE DEF NewConn
  <2>3. conn'[c] = NewConn /\ \A d \in Clients \ {c} : conn'[d] = conn[d]
    BY <1>1, <2>1 DEF ConnOK
  <2>4. ConfigMsg' = ConfigMsg
    BY <2>1 DEF ConfigMsg
  <2>5. \A d \in Clients : Setting(d)' <=> Setting(d)
    BY <2>1, <2>2, <2>3 DEF Setting, OfThisBoot, Open
  <2>6. \A d \in Clients \ {c} :
            (OfThisBoot(d)' => OfThisBoot(d)) /\ (Fresh(d)' <=> Fresh(d))
    BY <2>1, <2>3, <2>4 DEF OfThisBoot, Open, Fresh, Edited
  <2>7. Fresh(c)'
    BY <2>2, <2>3 DEF Fresh
  <2>8. \A d \in Clients : Setting(d)' => conn'[d] = conn[d]
    BY <2>2, <2>3 DEF Setting
  <2>9. QED
    BY <1>1, <2>4, <2>5, <2>6, <2>7, <2>8 DEF ViewInv
<1>4. CASE SeesReboot(c) \/ Disconnect(c)
  <2>1. conn' = [conn EXCEPT ![c] = None] /\ UNCHANGED <<boot, live, overlap>>
    BY <1>4, ClosesEffect DEF Unmoved
  <2>2. conn[c].job = None
    BY <1>4 DEF SeesReboot, Disconnect, Hears, Selects
  <2>3. ~Open(c)' /\ \A d \in Clients \ {c} : conn'[d] = conn[d]
    BY <1>1, <2>1 DEF ConnOK, Open
  <2>4. ConfigMsg' = ConfigMsg
    BY <2>1 DEF ConfigMsg
  <2>5. \A d \in Clients : OfThisBoot(d)' => (OfThisBoot(d) /\ conn'[d] = conn[d])
    BY <2>1, <2>3 DEF OfThisBoot, Open
  <2>6. \A d \in Clients : Setting(d)' <=> Setting(d)
    BY <2>1, <2>2, <2>3, <2>5 DEF Setting, OfThisBoot, Open
  <2>7. \A d \in Clients : (OfThisBoot(d)' /\ Fresh(d)) => Fresh(d)'
    BY <2>4, <2>5 DEF Fresh, Edited
  <2>8. \A d \in Clients : Setting(d)' => conn'[d].job = conn[d].job
    BY <2>5 DEF Setting
  <2>9. QED
    BY <2>1, <2>5, <2>6, <2>7, <2>8, ViewKept
<1>5. CASE BroadcastConfig(c)
  <2> DEFINE msg == conn[c].job.msg
  <2>1. /\ UNCHANGED <<boot, live, overlap>>
        /\ conn[c].job # None /\ conn[c].job.op = "config_set" /\ conn[c].job.stage = "built"
        /\ conn'[c].job = None
        /\ \A d \in Clients : Open(d)' =>
            /\ Open(d)
            /\ conn'[d]["boot"] = conn[d]["boot"] /\ conn'[d]["phase"] = conn[d]["phase"]
            /\ conn'[d]["view"] = conn[d]["view"] /\ conn'[d]["inbox"] = conn[d]["inbox"]
            /\ d # c => conn'[d].job = conn[d].job
            /\ ~OfThisBoot(c) => conn'[d].configs = conn[d].configs
            /\ (OfThisBoot(c) /\ OfThisBoot(d)) =>
                  conn'[d].configs # <<>> /\ Last(conn'[d].configs) = msg
    BY <1>5, BroadcastConfigEffect DEF Unmoved, ConnFields
  <2>2. ConfigMsg' = ConfigMsg
    BY <2>1 DEF ConfigMsg
  <2>3. \A d \in Clients : OfThisBoot(d)' => OfThisBoot(d)
    BY <2>1 DEF OfThisBoot
  <2>4. \A d \in Clients : Setting(d)' => (Setting(d) /\ d # c /\ conn'[d].job = conn[d].job)
    BY <2>1, <2>3 DEF Setting, OfThisBoot
  <2>5. CASE OfThisBoot(c)
    <3>1. Setting(c) /\ msg = ConfigMsg
      BY <1>1, <2>1, <2>5 DEF ViewInv, Setting
    <3>2. \A d \in Clients : ~Setting(d)'
      BY <1>1, <2>4, <3>1 DEF ViewInv
    <3>3. \A d \in Clients : OfThisBoot(d)' => Fresh(d)'
      <4>1. ASSUME NEW d \in Clients, OfThisBoot(d)'
            PROVE  conn'[d].configs # <<>> /\ Last(conn'[d].configs) = ConfigMsg'
        <5>1. Open(d)' /\ OfThisBoot(d)
          BY <2>3, <4>1 DEF OfThisBoot
        <5>2. QED
          BY <2>1, <2>2, <2>5, <3>1, <5>1
      <4>2. QED
        BY <4>1 DEF Fresh
    <3>4. QED
      BY <3>2, <3>3 DEF ViewInv
  <2>6. CASE ~OfThisBoot(c)
    <3>1. \A d \in Clients \ {c} : OfThisBoot(d) => OfThisBoot(d)' /\ conn'[d].job = conn[d].job
      <4>1. ASSUME NEW d \in Clients \ {c} PROVE conn'[d] = conn[d]
        BY <1>1, <1>5, <2>6, <4>1 DEF BroadcastConfig, ConnOK
      <4>2. QED
        BY <2>1, <4>1 DEF OfThisBoot, Open
    <3>2. \A d \in Clients : Setting(d)' <=> Setting(d)
      BY <2>4, <2>6, <3>1 DEF Setting
    <3>3. \A d \in Clients : (OfThisBoot(d)' /\ Fresh(d)) => Fresh(d)'
      BY <2>1, <2>2, <2>6 DEF OfThisBoot, Fresh, Edited
    <3>4. QED
      BY <2>1, <2>3, <2>4, <3>2, <3>3, ViewKept
  <2>7. QED
    BY <2>5, <2>6
<1>6. CASE SendCounter(c)
  <2>1. /\ conn[c].job.op = "reboot" /\ boot' = [boot EXCEPT !.unseen = TRUE]
        /\ conn' \in [Clients -> Conns \cup {None}]
        /\ \A d \in Clients : Open(d)' =>
            /\ Open(d)
            /\ conn'[d]["boot"] = conn[d]["boot"] /\ conn'[d]["phase"] = conn[d]["phase"]
            /\ conn'[d]["view"] = conn[d]["view"] /\ conn'[d]["inbox"] = conn[d]["inbox"]
            /\ conn'[d]["configs"] = conn[d]["configs"]
            /\ conn'[d].job = conn[d].job \/ (d = c /\ conn'[d].job = None)
    BY <1>6, SendCounterEffect DEF ConnFields
  <2>2. UNCHANGED <<live, overlap>>
    BY <1>6 DEF SendCounter
  <2>3. boot'.id = boot.id
    BY <2>1 DEF StackTypes, BootOK
  <2>4. ConfigMsg' = ConfigMsg
    BY <2>2 DEF ConfigMsg
  <2>5. \A d \in Clients : Open(d) => Open(d)'
    <3>1. ASSUME NEW d \in Clients, Open(d) PROVE conn'[d] # None
      <4>1. conn[d] \in Conns
        BY <1>2, <3>1 DEF Open
      <4>2. \/ conn'[d] = conn[d]
            \/ conn'[d] = [conn[d] EXCEPT !.unseen = TRUE, !.job = IF d = c THEN None ELSE @]
        BY <1>6 DEF SendCounter
      <4>3. [conn[d] EXCEPT !.unseen = TRUE, !.job = IF d = c THEN None ELSE @] \in Conns
        BY <4>1 DEF Conns
      <4>4. QED
        BY <3>1, <4>2, <4>3, PlatformAssumption DEF Open
    <3>2. QED
      BY <3>1 DEF Open
  <2>6. \A d \in Clients : OfThisBoot(d)' <=> OfThisBoot(d)
    BY <2>1, <2>3, <2>5 DEF OfThisBoot
  <2>7. \A d \in Clients : Setting(d)' => conn'[d].job = conn[d].job
    BY <2>1, <2>6 DEF Setting, OfThisBoot
  <2>8. \A d \in Clients : Setting(d)' <=> Setting(d)
    BY <2>1, <2>5, <2>6, <2>7 DEF Setting, OfThisBoot
  <2>9. \A d \in Clients : (OfThisBoot(d)' /\ Fresh(d)) => Fresh(d)'
    BY <2>1, <2>4 DEF OfThisBoot, Fresh, Edited
  <2>10. QED
    BY <2>2, <2>6, <2>7, <2>8, <2>9, ViewKept
<1>7. CASE CopyTier(c)
  <2>1. /\ Changes(c, {"inbox", "deaf", "job"}) /\ UNCHANGED <<boot, live>>
        /\ conn'[c].job \in TierJobs /\ conn'[c].job.stage = "copied" /\ conn'[c].job # None
        /\ Open(c)
    BY <1>7, CopyTierEffect DEF CopyTier, Hears, Selects, InPhase
  <2>2. conn'[c]["boot"] = conn[c]["boot"] /\ conn'[c] \in Conns
    BY <2>1 DEF Changes, ConnFields
  <2>3. \A d \in Clients \ {c} : conn'[d] = conn[d]
    BY <1>1, <2>1 DEF Changes, ConnOK
  <2>4. conn'[c].job.op = "config_set"
    BY <2>1 DEF TierJobs
  <2>5. ConfigMsg' = ConfigMsg
    BY <2>1 DEF ConfigMsg
  <2>6. Open(c)'
    BY <2>2, PlatformAssumption DEF Open
  <2>7. CASE OfThisBoot(c)
    <3>1. Setting(c)'
      BY <2>1, <2>2, <2>4, <2>6, <2>7 DEF Setting, OfThisBoot
    <3>2. \A d \in Clients \ {c} : ~(OfThisBoot(d) /\ conn[d].job # None)
      BY <1>7 DEF CopyTier
    <3>3. \A d \in Clients \ {c} : ~Setting(d)'
      BY <2>1, <2>3, <3>2 DEF Setting, OfThisBoot, Open
    <3>4. QED
      BY <2>1, <3>1, <3>3 DEF ViewInv
  <2>8. CASE ~OfThisBoot(c)
    <3>1. ~OfThisBoot(c)'
      BY <2>1, <2>2, <2>8 DEF OfThisBoot
    <3>2. \A d \in Clients \ {c} :
            /\ OfThisBoot(d)' <=> OfThisBoot(d)
            /\ Setting(d)' <=> Setting(d)
            /\ Fresh(d) => Fresh(d)'
      BY <2>1, <2>3, <2>5 DEF OfThisBoot, Open, Setting, Fresh, Edited
    <3>3. \A d \in Clients : (Setting(d)' <=> Setting(d)) /\ (OfThisBoot(d)' => OfThisBoot(d))
      BY <2>8, <3>1, <3>2 DEF Setting
    <3>4. \A d \in Clients : Setting(d)' => conn'[d].job = conn[d].job
      BY <2>3, <3>1 DEF Setting
    <3>5. \A d \in Clients : (OfThisBoot(d)' /\ Fresh(d)) => Fresh(d)'
      BY <3>1, <3>2
    <3>6. QED
      BY <1>1, <2>1, <3>3, <3>4, <3>5, ViewKept
  <2>9. QED
    BY <2>7, <2>8
<1>8. CASE StoreTier(c)
  <2>1. /\ Changes(c, {"job"}) /\ UNCHANGED <<boot, overlap>> /\ Open(c)
        /\ conn[c].job # None /\ conn[c].job.op = "config_set"
        /\ conn'[c].job \in TierJobs /\ conn'[c].job # None
        /\ conn'[c].job.stage = "stored"
        /\ ~OfThisBoot(c) => UNCHANGED live
    BY <1>8, StoreTierEffect DEF StoreTier, Job
  <2>2. conn'[c]["boot"] = conn[c]["boot"] /\ conn'[c] \in Conns
    BY <2>1 DEF Changes, ConnFields
  <2>3. \A d \in Clients \ {c} : conn'[d] = conn[d]
    BY <1>1, <2>1 DEF Changes, ConnOK
  <2>4. conn'[c].job.op = "config_set" /\ Open(c)'
    BY <2>1, <2>2, PlatformAssumption DEF TierJobs, Open
  <2>5. OfThisBoot(c)' <=> OfThisBoot(c)
    BY <2>1, <2>2, <2>4 DEF OfThisBoot
  <2>6. \A d \in Clients : (OfThisBoot(d)' <=> OfThisBoot(d)) /\ (Setting(d)' <=> Setting(d))
    BY <2>1, <2>3, <2>4, <2>5 DEF OfThisBoot, Open, Setting
  <2>7. CASE OfThisBoot(c)
    <3>1. Setting(c)
      BY <2>1, <2>7 DEF Setting
    <3>2. \A d \in Clients : Setting(d)' => d = c
      BY <1>1, <2>6, <3>1 DEF ViewInv
    <3>3. QED
      BY <2>1, <2>6, <3>1, <3>2 DEF ViewInv
  <2>8. CASE ~OfThisBoot(c)
    <3>1. UNCHANGED live
      BY <2>1, <2>8
    <3>2. ConfigMsg' = ConfigMsg
      BY <3>1 DEF ConfigMsg
    <3>3. \A d \in Clients : OfThisBoot(d)' => conn'[d] = conn[d]
      BY <2>3, <2>6, <2>8
    <3>4. \A d \in Clients : (OfThisBoot(d)' /\ Fresh(d)) => Fresh(d)'
      BY <3>2, <3>3 DEF Fresh, Edited
    <3>5. \A d \in Clients : Setting(d)' => conn'[d].job = conn[d].job
      BY <3>3 DEF Setting
    <3>6. QED
      BY <2>1, <2>6, <3>1, <3>4, <3>5, ViewKept
  <2>9. QED
    BY <2>7, <2>8
<1>9. CASE BuildConfig(c)
  <2>1. /\ Changes(c, {"job"}) /\ UNCHANGED <<boot, live, overlap>> /\ Open(c)
        /\ conn[c].job # None /\ conn[c].job.op = "config_set"
        /\ conn'[c].job # None /\ conn'[c].job.op = "config_set"
        /\ conn'[c].job.stage = "built" /\ conn'[c].job.msg = ConfigMsg
    BY <1>9, BuildConfigEffect DEF Unmoved, BuildConfig, Job
  <2>2. conn'[c]["boot"] = conn[c]["boot"] /\ conn'[c] \in Conns
    BY <2>1 DEF Changes, ConnFields
  <2>3. \A d \in Clients \ {c} : conn'[d] = conn[d]
    BY <1>1, <2>1 DEF Changes, ConnOK
  <2>4. Open(c)' /\ ConfigMsg' = ConfigMsg
    BY <2>1, <2>2, PlatformAssumption DEF Open, ConfigMsg
  <2>5. OfThisBoot(c)' <=> OfThisBoot(c)
    BY <2>1, <2>2, <2>4 DEF OfThisBoot
  <2>6. \A d \in Clients : (OfThisBoot(d)' <=> OfThisBoot(d)) /\ (Setting(d)' <=> Setting(d))
    BY <2>1, <2>3, <2>5 DEF OfThisBoot, Open, Setting
  <2>7. \A d \in Clients : Fresh(d) => Fresh(d)'
    <3>1. Fresh(c) => Fresh(c)'
      BY <2>1, FreshSame
    <3>2. QED
      BY <2>3, <2>4, <3>1 DEF Fresh, Edited
  <2>8. \A d \in Clients : conn'[d].job = conn[d].job \/ conn'[d].job.msg = ConfigMsg
    BY <2>1, <2>3
  <2>9. QED
    BY <2>1, <2>6, <2>7, <2>8, ViewKept
<1> DEFINE Quietly == ~Accept(c) /\ ~SeesReboot(c) /\ ~Disconnect(c) /\ ~BroadcastConfig(c)
                      /\ ~SendCounter(c) /\ ~CopyTier(c) /\ ~StoreTier(c)
<1>10. Quietly => UNCHANGED <<live, boot>> /\ Open(c)
  <2> SUFFICES ASSUME Quietly PROVE UNCHANGED <<live, boot>> /\ Open(c)
    OBVIOUS
  <2>1. UNCHANGED <<live, boot>>
    BY <1>1, ConnectionFrame
  <2>2. Open(c)
    BY DEF ConnectionStep, Subscribe, PassGate, SendSnapshot, SendConfig, ForwardUpdate,
           ForwardConfig, HandleSensor, BuildConfig, HandleReboot, ReadCounter, UserStep,
           SetSensor, SetConfig, ApplyAndReboot, Leave, Uses, InPhase, Selects, Hears, Job, Busy
  <2>3. QED
    BY <2>1, <2>2
<1> HIDE DEF Quietly
<1>11. ASSUME Quietly, NEW fs, Changes(c, fs), "boot" \notin fs, "job" \notin fs,
              Fresh(c) => Fresh(c)'
       PROVE  ViewInv'
  <2>1. conn'[c]["job"] = conn[c]["job"]
    BY <1>11 DEF Changes, ConnFields
  <2>2. QED
    BY <1>1, <1>10, <1>11, <2>1, ViewStep
<1>12. ASSUME Quietly, Subscribe(c) \/ PassGate(c) \/ SendSnapshot(c) PROVE ViewInv'
  <2>1. /\ Changes(c, {"phase", "late", "shows"}) /\ conn'[c].phase # "serving"
        /\ conn[c].phase # "serving"
    BY <1>1, <1>12, SubscribeEffect, PassGateEffect, SendSnapshotEffect DEF Changes
  <2>2. conn'[c]["configs"] = conn[c]["configs"]
    BY <2>1 DEF Changes, ConnFields
  <2>3. Fresh(c) => Fresh(c)'
    BY <1>10, <1>12, <2>1, <2>2 DEF Fresh, ConfigMsg
  <2>4. QED
    BY <1>11, <1>12, <2>1, <2>3
<1>13. ASSUME Quietly, SendConfig(c) PROVE ViewInv'
  <2>1. Changes(c, {"phase", "view"}) /\ conn'[c].view = ConfigMsg
    BY <1>13, SendConfigEffect
  <2>2. conn'[c]["configs"] = conn[c]["configs"] /\ ConfigMsg' = ConfigMsg
    BY <1>10, <1>13, <2>1 DEF Changes, ConnFields, ConfigMsg
  <2>3. Fresh(c) => Fresh(c)'
    BY <2>1, <2>2 DEF Fresh
  <2>4. QED
    BY <1>11, <1>13, <2>1, <2>3
<1>14. ASSUME Quietly, ForwardUpdate(c) PROVE ViewInv'
  <2>1. Changes(c, {"updates", "deaf", "shows"})
    BY <1>14, ForwardUpdateEffect
  <2>2. Fresh(c) => Fresh(c)'
    BY <1>10, <1>14, <2>1, FreshSame
  <2>3. QED
    BY <1>11, <1>14, <2>1, <2>2
<1>15. ASSUME Quietly, ForwardConfig(c) PROVE ViewInv'
  <2> DEFINE q == conn[c].configs
  <2>1. /\ Changes(c, {"configs", "deaf", "view"})
        /\ q # <<>> /\ conn'[c].configs = Tail(q) /\ conn'[c].view = Head(q)
    BY <1>15, ForwardConfigEffect
  <2>2. q \in Seq(ConfigMsgs) /\ ConfigMsg' = ConfigMsg
    BY <1>10, <1>15, <2>1 DEF Changes, Conns, ConfigMsg
  <2>3. IF Tail(q) = <<>> THEN Last(q) = Head(q) ELSE Last(Tail(q)) = Last(q)
    BY <2>1, <2>2, TailOf
  <2>4. Fresh(c) => Fresh(c)'
    BY <2>1, <2>2, <2>3 DEF Fresh
  <2>5. QED
    BY <1>11, <1>15, <2>1, <2>4
<1>16. ASSUME Quietly, HandleSensor(c) PROVE ViewInv'
  <2>1. /\ Changes(c, {"inbox", "deaf"})
        /\ conn[c].inbox # <<>> /\ Head(conn[c].inbox).op # "config_set"
        /\ conn'[c].inbox = Tail(conn[c].inbox)
    BY <1>1, <1>16, HandleSensorEffect
  <2>2. Fresh(c) => Fresh(c)'
    BY <1>10, <1>16, <2>1, FreshInbox
  <2>3. QED
    BY <1>11, <1>16, <2>1, <2>2
<1>17. ASSUME Quietly, HandleReboot(c) PROVE ViewInv'
  <2>1. /\ Changes(c, {"inbox", "deaf", "job"})
        /\ conn[c].inbox # <<>> /\ Head(conn[c].inbox).op # "config_set"
        /\ conn'[c].inbox = Tail(conn[c].inbox)
        /\ conn[c].job = None /\ conn'[c].job.op = "reboot"
    BY <1>17, HandleRebootEffect
  <2>2. Fresh(c) => Fresh(c)'
    BY <1>10, <1>17, <2>1, FreshInbox
  <2>3. QED
    BY <1>1, <1>10, <1>17, <2>1, <2>2, ViewStep
<1>18. ASSUME Quietly, ReadCounter(c) PROVE ViewInv'
  <2>1. Changes(c, {"job"}) /\ conn[c].job.op = "reboot" /\ conn'[c].job.op = "reboot"
    BY <1>18, ReadCounterEffect
  <2>2. Fresh(c) => Fresh(c)'
    BY <1>10, <1>18, <2>1, FreshSame
  <2>3. QED
    BY <1>1, <1>10, <1>18, <2>1, <2>2, ViewStep
<1>19. ASSUME Quietly, UserStep(c) PROVE ViewInv'
  <2>1. ASSUME NEW s \in Inputs, NEW v \in Numbers, SetSensor(c, ToHmi(s), v) PROVE ViewInv'
    <3>1. /\ Changes(c, {"inbox", "shows"})
          /\ \E m \in Messages : conn'[c].inbox = Append(conn[c].inbox, m)
      BY <1>1, <2>1, SetSensorEffect
    <3>2. Fresh(c) => Fresh(c)'
      BY <1>10, <1>19, <3>1, FreshInbox
    <3>3. QED
      BY <1>11, <1>19, <3>1, <3>2
  <2>2. ASSUME NEW k \in Settable, SetConfig(c, k[1], k[2], 1) PROVE ViewInv'
    <3>1. PICK m \in Messages :
             m.op = "config_set" /\ conn'[c].inbox = Append(conn[c].inbox, m)
      BY <1>1, <2>2, SetConfigEffect
    <3>2. Changes(c, {"inbox", "view"})
      BY <1>1, <2>2, SetConfigEffect
    <3>3. conn[c].inbox \in Seq(Messages) /\ conn'[c]["configs"] = conn[c]["configs"]
      BY <3>2 DEF Changes, ConnFields, Conns
    <3>4. Edited(c)'
      <4>1. /\ Append(conn[c].inbox, m)[Len(conn[c].inbox) + 1] = m
            /\ Len(conn[c].inbox) + 1 \in DOMAIN Append(conn[c].inbox, m)
        BY <3>1, <3>3, AppendOf
      <4>2. QED
        BY <3>1, <4>1 DEF Edited
    <3>5. Fresh(c) => Fresh(c)'
      BY <1>10, <1>19, <3>3, <3>4 DEF Fresh, ConfigMsg
    <3>6. QED
      BY <1>11, <1>19, <3>2, <3>5
  <2>3. ASSUME Leave(c) \/ \E tiers \in Seq(ConfigFiles), v \in Int : ApplyAndReboot(c, tiers, v)
        PROVE  ViewInv'
    <3>1. /\ Changes(c, {"inbox"})
          /\ \E m \in Messages : conn'[c].inbox = Append(conn[c].inbox, m)
      BY <1>1, <2>3, LeaveEffect
    <3>2. Fresh(c) => Fresh(c)'
      BY <1>10, <1>19, <3>1, FreshInbox
    <3>3. QED
      BY <1>11, <1>19, <3>1, <3>2
  <2>4. QED
    BY <1>1, <1>19, <2>1, <2>2, <2>3, UserSteps
<1>20. QED
  BY <1>3, <1>4, <1>5, <1>6, <1>7, <1>8, <1>9, <1>12, <1>13, <1>14, <1>15, <1>16, <1>17, <1>18,
     <1>19
  DEF Quietly, ConnectionStep

\* An HMI that has been told everything shows the configuration the features run on,
\* whoever set it and however often the car rebooted meanwhile, unless two have set it in
\* the same moment (ws_bridge.rs).
THEOREM ConfigViewsAgree == Spec => []ConfigViewsConverge
<1>1. Init => ViewInv
  BY DEF Init, ViewInv, Setting, OfThisBoot, Open
<1>2. StackTypes /\ ViewInv /\ [Next]_vars => ViewInv'
  <2> SUFFICES ASSUME StackTypes, ViewInv, [Next]_vars PROVE ViewInv'
    OBVIOUS
  <2>1. ConnOK /\ BootOK /\ team.clients \subseteq Clients
    BY PlatformAssumption DEF StackTypes, BootOK
  <2>2. CASE UNCHANGED <<boot, conn, live, overlap>>
    <3>1. \A d \in Clients : /\ OfThisBoot(d)' <=> OfThisBoot(d)
                            /\ (Setting(d)' <=> Setting(d)) /\ (Fresh(d)' <=> Fresh(d))
      BY <2>2 DEF OfThisBoot, Open, Setting, Fresh, Edited, ConfigMsg
    <3>2. QED
      BY <2>2, <3>1, ViewKept
  <2>3. ASSUME \A d \in Clients : ~OfThisBoot(d)' PROVE ViewInv'
    BY <2>3 DEF ViewInv, Setting
  <2>4. CASE BridgeStep
    <3>1. CASE BroadcasterSends
      <4>1. /\ UNCHANGED <<boot, live, overlap>>
            /\ \A d \in Clients : ~OfThisBoot(d) => conn'[d] = conn[d]
            /\ \A d \in Clients : OfThisBoot(d) =>
                /\ conn'[d]["boot"] = conn[d]["boot"] /\ conn'[d]["phase"] = conn[d]["phase"]
                /\ conn'[d]["view"] = conn[d]["view"] /\ conn'[d]["inbox"] = conn[d]["inbox"]
                /\ conn'[d]["job"] = conn[d]["job"]
                /\ conn'[d]["configs"] = conn[d]["configs"]
        BY <3>1, BroadcasterSendsEffect DEF BroadcasterSends, ConnFields
      <4>2. ASSUME NEW d \in Clients PROVE OfThisBoot(d)' <=> OfThisBoot(d)
        <5>1. OfThisBoot(d) => conn'[d] \in Conns
          <6>1. OfThisBoot(d) => Broadcast("updates", StateMsg(output))[d] \in Conns
            BY <2>1, BroadcastEffect, StateMsgType DEF StackTypes, BridgeOK
          <6>2. QED
            BY <3>1, <6>1 DEF BroadcasterSends
        <5>2. QED
          BY <4>1, <5>1, PlatformAssumption DEF OfThisBoot, Open
      <4>3. \A d \in Clients : OfThisBoot(d)' =>
              conn'[d].job = conn[d].job /\ (Fresh(d) => Fresh(d)')
        BY <4>1, <4>2 DEF Fresh, Edited, ConfigMsg
      <4>4. \A d \in Clients : Setting(d)' <=> Setting(d)
        BY <4>2, <4>3 DEF Setting
      <4>5. QED
        BY <4>1, <4>2, <4>3, <4>4, ViewKept DEF Setting
    <3>2. \/ UNCHANGED <<boot, conn, live, overlap>> \/ BroadcasterSends
          \/ \E c \in Clients : ConnectionStep(c) \/ UserStep(c)
      <4>1. /\ \A s \in Signals : SubscriberReads(s) => UNCHANGED <<boot, conn, live, overlap>>
            /\ Notified => UNCHANGED <<boot, conn, live, overlap>>
        BY DEF SubscriberReads, Notified
      <4>2. QED
        BY <2>1, <2>4, <4>1 DEF BridgeStep
    <3>3. QED
      BY <2>2, <3>1, <3>2, ConnectionViews
  <2>5. CASE SavingStep
    <3>1. PICK c \in Clients : SaveSection(c)
      BY <2>1, <2>5 DEF SavingStep
    <3>2. /\ Changes(c, {"job"}) /\ UNCHANGED <<boot, live, overlap>> /\ Open(c)
          /\ conn[c].job.op = "reboot" /\ conn'[c].job.op = "reboot"
      BY <3>1, SaveSectionEffect DEF Unmoved, SaveSection, Busy, Job
    <3>3. Fresh(c) => Fresh(c)'
      BY <3>2, FreshSame
    <3>4. QED
      BY <2>1, <3>2, <3>3, ViewStep
  <2>6. CASE BootStep
    <3>1. UNCHANGED <<conn, overlap>>
      BY <2>6 DEF BootStep
    <3>2. CASE boot.phase = "spawned"
      <4>1. UNCHANGED live /\ boot' = [boot EXCEPT !.phase = "running"]
        BY <2>6, <3>2 DEF BootStep, configVars
      <4>2. boot'.id = boot.id
        BY <2>1, <4>1 DEF BootOK
      <4>3. \A d \in Clients : /\ OfThisBoot(d)' <=> OfThisBoot(d)
                              /\ (Setting(d)' <=> Setting(d)) /\ (Fresh(d)' <=> Fresh(d))
        BY <3>1, <4>1, <4>2 DEF OfThisBoot, Open, Setting, Fresh, Edited, ConfigMsg
      <4>4. QED
        BY <3>1, <4>1, <4>3, ViewKept
    <3>3. CASE boot.phase # "spawned"
      <4>1. boot.phase \in {"down", "loading"} /\ boot'.id = boot.id
        BY <2>1, <2>6, <3>3 DEF BootStep, BootOK
      <4>2. \A d \in Clients : ~OfThisBoot(d)'
        BY <2>1, <3>1, <4>1 DEF ConnOK, OfThisBoot, Open
      <4>3. QED
        BY <2>3, <4>2
    <3>4. QED
      BY <3>2, <3>3
  <2>7. CASE MainWakes
    <3>1. UNCHANGED <<conn, live, overlap>>
      BY <2>7 DEF MainWakes, configVars
    <3>2. CASE IsForThisBoot(boot.id)
      <4>1. boot'.id = boot.id + 1 /\ boot.id \in Nat
        BY <2>1, <2>7, <3>2 DEF MainWakes, BootOK
      <4>2. \A d \in Clients : Open(d) => conn[d].boot \in Nat /\ conn[d].boot <= boot.id
        BY <2>1 DEF ConnOK, Open, Conns
      <4>3. \A d \in Clients : ~OfThisBoot(d)'
        BY <3>1, <4>1, <4>2 DEF OfThisBoot, Open
      <4>4. QED
        BY <2>3, <4>3
    <3>3. CASE ~IsForThisBoot(boot.id)
      <4>1. boot'.id = boot.id
        BY <2>1, <2>7, <3>3 DEF MainWakes, BootOK
      <4>2. \A d \in Clients : /\ OfThisBoot(d)' <=> OfThisBoot(d)
                              /\ (Setting(d)' <=> Setting(d)) /\ (Fresh(d)' <=> Fresh(d))
        BY <3>1, <4>1 DEF OfThisBoot, Open, Setting, Fresh, Edited, ConfigMsg
      <4>3. QED
        BY <3>1, <4>2, ViewKept
    <3>4. QED
      BY <3>2, <3>3
  <2>8. CASE PowerCut
    <3>1. \A d \in Clients : ~OfThisBoot(d)'
      BY <2>8 DEF PowerCut, OfThisBoot, Open
    <3>2. QED
      BY <2>3, <3>1
  <2>9. QED
    BY <2>2, <2>4, <2>5, <2>6, <2>7, <2>8
    DEF Next, vars, stackVars, StackNext, FileStep, PlantBoots, PlantMoves, KuksaTurns,
        KuksaDelivers, configVars
<1>3. ViewInv => ConfigViewsConverge
  <2> SUFFICES ASSUME ViewInv, ~overlap, NEW c \in Clients, Quiet(c),
                      \A d \in Clients : Open(d) => conn[d].job = None
               PROVE  conn[c].view = ConfigMsg
    BY DEF ConfigViewsConverge
  <2>1. \A d \in Clients : ~Setting(d)
    BY DEF Setting, OfThisBoot
  <2>2. /\ OfThisBoot(c) /\ conn[c].configs = <<>> /\ conn[c].phase = "serving"
        /\ conn[c].inbox = <<>>
    BY DEF Quiet
  <2>3. ~Edited(c)
    BY <2>2 DEF Edited
  <2>4. QED
    BY <2>1, <2>2, <2>3 DEF ViewInv, Fresh
<1>4. QED
  BY <1>1, <1>2, <1>3, StackInit, TypesStep, PTL DEF Spec

-----------------------------------------------------------------------------
(* The values that an HMI shows.                                           *)

\* A value that is published is the last that will be read.
LEMMA PublishOutput ==
    ASSUME BridgeOK, OutputInv, NEW s \in Signals, NEW v \in Values, Publish(s, v),
           UNCHANGED output
    PROVE  OutputInv' /\ \A r \in Signals : behind[r] # <<>> => behind'[r] # <<>>
<1>1. behind[s] \in Seq(Values)
  BY DEF BridgeOK
<1>2. Append(behind[s], v) # <<>> /\ Last(Append(behind[s], v)) = v
  BY <1>1, AppendOf
<1>3. /\ bus'[s] = v /\ behind'[s] = Append(behind[s], v)
      /\ \A r \in Signals \ {s} : bus'[r] = bus[r] /\ behind'[r] = behind[r]
  BY DEF Publish, BridgeOK
<1>4. ASSUME NEW r \in Signals
      PROVE  IF behind'[r] = <<>> THEN output'[r] = bus'[r] ELSE Last(behind'[r]) = bus'[r]
  BY <1>2, <1>3 DEF OutputInv
<1>5. ASSUME NEW r \in Signals, behind[r] # <<>> PROVE behind'[r] # <<>>
  BY <1>2, <1>3, <1>5
<1>6. QED
  BY <1>4, <1>5 DEF OutputInv

\* The message that is heard or told switches nothing back.
LEMMA SwitchedKept ==
    ASSUME NEW c \in Clients, conn[c] \in Conns, NEW n, Switched(c, n),
           \/ conn'[c].inbox = conn[c].inbox
           \/ /\ conn[c].inbox # <<>>
              /\ Head(conn[c].inbox).op # "sensor" \/ Head(conn[c].inbox).path # n
              /\ conn'[c].inbox = Tail(conn[c].inbox)
           \/ \E m \in Messages : conn'[c].inbox = Append(conn[c].inbox, m)
    PROVE  Switched(c, n)'
<1> DEFINE q == conn[c].inbox
           t == conn'[c].inbox
<1>1. q \in Seq(Messages)
  BY DEF Conns
<1>2. PICK i \in DOMAIN q : q[i].op = "sensor" /\ q[i].path = n
  BY DEF Switched
<1>3. \E j \in DOMAIN t : t[j] = q[i]
  <2>1. CASE t = q
    BY <1>2, <2>1
  <2>2. CASE q # <<>> /\ (Head(q).op # "sensor" \/ Head(q).path # n) /\ t = Tail(q)
    <3>1. /\ Head(q) = q[1]
          /\ \A k \in DOMAIN q \ {1} : k - 1 \in DOMAIN Tail(q) /\ Tail(q)[k - 1] = q[k]
      BY <1>1, <2>2, TailOf
    <3>2. QED
      BY <1>2, <2>2, <3>1
  <2>3. ASSUME NEW m \in Messages, t = Append(q, m) PROVE i \in DOMAIN t /\ t[i] = q[i]
    BY <1>1, <1>2, <2>3, AppendOf
  <2>4. QED
    BY <2>1, <2>2, <2>3
<1>4. QED
  BY <1>2, <1>3 DEF Switched

\* What concerns the others stays as it is while c acts.
LEMMA ShowStep ==
    ASSUME ShowInv, ReadyInv, ConnOK, UNCHANGED <<boot, output, dirty, batching, ready>>,
           \A s \in Signals : behind[s] # <<>> => behind'[s] # <<>>,
           NEW c \in Clients, NEW fs, Changes(c, fs), "boot" \notin fs, Open(c),
           (OfThisBoot(c) /\ ShowOf(c) /\ EssentialOf(c)) => (ShowOf(c) /\ EssentialOf(c))'
    PROVE  ShowInv' /\ ReadyInv'
<1>1. conn'[c]["boot"] = conn[c]["boot"]
  BY DEF Changes, ConnFields
<1>2. OfThisBoot(c)' => OfThisBoot(c)
  BY <1>1 DEF OfThisBoot
<1>3. ASSUME NEW d \in Clients \ {c}, OfThisBoot(d)'
      PROVE  ShowOf(d)' /\ EssentialOf(d)'
  <2>1. conn'[d] = conn[d]
    BY <1>3 DEF Changes, ConnOK
  <2>2. OfThisBoot(d)
    BY <1>3, <2>1 DEF OfThisBoot, Open
  <2>3. ShowOf(d) /\ EssentialOf(d)
    BY <2>2 DEF ShowInv
  <2>4. \A n \in HmiNames : Pending(d, n) => Pending(d, n)'
    BY <2>1, Names DEF Pending, Switched
  <2>5. StateMsg(output)' = StateMsg(output)
    BY DEF StateMsg
  <2>6. ShowOf(d)'
    BY <2>1, <2>3, <2>4, <2>5 DEF ShowOf
  <2>7. EssentialOf(d)'
    BY <2>1, <2>3 DEF EssentialOf
  <2>8. QED
    BY <2>6, <2>7
<1>4. ReadyInv'
  BY DEF ReadyInv, AllEssential
<1>5. QED
  BY <1>2, <1>3, <1>4 DEF ShowInv

\* A step that leaves alone what c shows and is told.
LEMMA ShowSame ==
    ASSUME NEW c \in Clients, NEW fs, Changes(c, fs),
           "phase" \notin fs, "updates" \notin fs, "shows" \notin fs,
           UNCHANGED <<boot, output, dirty, batching, ready>>,
           \A n \in HmiNames : Pending(c, n) => Pending(c, n)',
           ShowOf(c), EssentialOf(c)
    PROVE  ShowOf(c)' /\ EssentialOf(c)'
<1>1. /\ conn'[c]["phase"] = conn[c]["phase"] /\ conn'[c]["updates"] = conn[c]["updates"]
      /\ conn'[c]["shows"] = conn[c]["shows"]
  BY DEF Changes, ConnFields
<1>2. StateMsg(output)' = StateMsg(output)
  BY DEF StateMsg
<1>3. ShowOf(c)'
  BY <1>1, <1>2 DEF ShowOf
<1>4. EssentialOf(c)'
  BY <1>1 DEF EssentialOf
<1>5. QED
  BY <1>3, <1>4

\* What is merged is what was shown, under the names for which nothing is sent.
LEMMA MergedShows ==
    ASSUME NEW shows \in States, NEW n \in HmiNames
    PROVE  /\ Merged(shows, StateMsg(output))[n] =
                IF output[FromHmi[n]] = None THEN shows[n] ELSE output[FromHmi[n]]
           /\ \A state : Merged(shows, state)[n] =
                IF state[n] = None THEN shows[n] ELSE state[n]
  BY DEF Merged, StateMsg

\* A connection sets a signal: the switch is out of the inbox, and on its way over the bus.
LEMMA SensorShows ==
    ASSUME StackTypes, OutputInv, ShowInv, ReadyInv, NEW c \in Clients, HandleSensor(c)
    PROVE  OutputInv' /\ ShowInv' /\ ReadyInv'
<1> DEFINE m == Head(conn[c].inbox)
           s == FromHmi[m.path]
<1>1. /\ Hears(c, "sensor") /\ ConnOK /\ BridgeOK /\ Open(c)
      /\ UNCHANGED <<boot, output, dirty, batching, ready>>
  BY DEF HandleSensor, StackTypes, Hears, Selects, InPhase
<1>2. /\ Changes(c, {"inbox", "deaf"}) /\ conn[c].inbox # <<>>
      /\ conn'[c].inbox = Tail(conn[c].inbox)
  BY <1>1, HandleSensorEffect
<1>3. m \in Messages /\ m.op = "sensor" /\ conn[c] \in Conns
  BY <1>1, HearsEffect
<1>4. m.value \in Numbers /\ m.path \in {ToHmi(r) : r \in Inputs}
  BY <1>3 DEF Messages
<1>5. s \in Inputs /\ s \in Signals /\ SignalOf(m.value) \in Values
  <2>1. PICK r \in Inputs : m.path = ToHmi(r)
    BY <1>4
  <2>2. r \in Signals
    BY <2>1 DEF Signals
  <2>3. s = r
    BY <2>1, <2>2, Names
  <2>4. QED
    BY <1>4, <2>1, <2>2, <2>3 DEF SignalOf, Values
<1>6. CASE OfThisBoot(c)
  <2>1. boot.phase # "down"
    BY <1>1, <1>6 DEF ConnOK, OfThisBoot
  <2>2. Publish(s, SignalOf(m.value))
    BY <1>5, <1>6, <2>1 DEF HandleSensor, Writable
  <2> HIDE DEF s
  <2>3. OutputInv' /\ \A r \in Signals : behind[r] # <<>> => behind'[r] # <<>>
    BY <1>1, <1>5, <2>2, PublishOutput
  <2>4. behind'[s] # <<>>
    <3>1. behind[s] \in Seq(Values) /\ behind'[s] = Append(behind[s], SignalOf(m.value))
      BY <1>1, <1>5, <2>2 DEF Publish, BridgeOK
    <3>2. QED
      BY <1>5, <3>1, AppendOf
  <2>5. ASSUME NEW n \in HmiNames, Pending(c, n) PROVE Pending(c, n)'
    <3>1. CASE n = m.path
      BY <2>4, <3>1 DEF Pending, s
    <3>2. CASE behind[FromHmi[n]] # <<>>
      BY <2>3, <3>2, Names DEF Pending
    <3>3. CASE n # m.path /\ Switched(c, n)
      BY <1>2, <1>3, <3>3, SwitchedKept DEF Pending
    <3>4. QED
      BY <2>5, <3>1, <3>2, <3>3 DEF Pending
  <2>6. (ShowOf(c) /\ EssentialOf(c)) => (ShowOf(c)' /\ EssentialOf(c)')
    BY <1>1, <1>2, <2>5, ShowSame
  <2>7. QED
    BY <1>1, <1>2, <2>3, <2>6, ShowStep
<1>7. CASE ~OfThisBoot(c)
  <2>1. UNCHANGED <<bus, behind>>
    BY <1>7 DEF HandleSensor
  <2>2. OutputInv'
    BY <1>1, <2>1 DEF OutputInv
  <2>3. QED
    BY <1>1, <1>2, <1>7, <2>1, <2>2, ShowStep
<1>8. QED
  BY <1>6, <1>7

\* A connection's or a user's step.
LEMMA ConnectionShows ==
    ASSUME StackTypes, OutputInv, ShowInv, ReadyInv, NEW c \in Clients,
           ConnectionStep(c) \/ UserStep(c)
    PROVE  OutputInv' /\ ShowInv' /\ ReadyInv'
<1>1. /\ ConnOK /\ BridgeOK /\ team \in Teams /\ UNCHANGED <<output, dirty, batching, ready>>
      /\ HandleSensor(c) \/ UNCHANGED <<bus, behind>>
      /\ SendCounter(c) \/ UNCHANGED boot
  BY ConnectionFrame DEF StackTypes, BootOK
<1>2. CASE HandleSensor(c)
  BY <1>2, SensorShows
<1> SUFFICES ASSUME ~HandleSensor(c) PROVE OutputInv' /\ ShowInv' /\ ReadyInv'
  BY <1>2
<1>3. UNCHANGED <<bus, behind>> /\ OutputInv'
  BY <1>1 DEF OutputInv
<1>4. \A s \in Signals : behind[s] # <<>> => behind'[s] # <<>>
  BY <1>3
<1>5. StateMsg(output)' = StateMsg(output)
  BY <1>1 DEF StateMsg
<1>6. CASE Accept(c)
  <2>1. /\ conn' = [conn EXCEPT ![c] = NewConn] /\ UNCHANGED boot
    BY <1>6, AcceptEffect DEF Unmoved
  <2>2. /\ NewConn.phase = "accepted" /\ NewConn.updates = <<>>
        /\ NewConn.shows = StateMsg(Unknown)
    BY DEF NewConn
  <2>3. \A n \in HmiNames : NewConn.shows[n] = None
    BY <2>2, Names DEF StateMsg, Unknown
  <2> HIDE DEF NewConn
  <2>4. conn'[c] = NewConn /\ \A d \in Clients \ {c} : conn'[d] = conn[d]
    BY <1>1, <2>1 DEF ConnOK
  <2>5. ShowOf(c)' /\ EssentialOf(c)'
    <3>1. EssentialOf(c)'
      BY <2>2, <2>4 DEF EssentialOf
    <3>2. conn'[c].updates = <<>> /\ conn'[c].phase = "accepted"
          /\ \A n \in HmiNames : conn'[c].shows[n] = None
      BY <2>2, <2>3, <2>4
    <3>3. DOMAIN conn'[c].updates = {}
      BY <3>2
    <3>4. QED
      BY <3>1, <3>2, <3>3 DEF ShowOf
  <2>6. ASSUME NEW d \in Clients \ {c}, OfThisBoot(d)' PROVE ShowOf(d)' /\ EssentialOf(d)'
    <3>1. conn'[d] = conn[d] /\ OfThisBoot(d)
      BY <2>1, <2>4, <2>6 DEF OfThisBoot, Open
    <3>2. ShowOf(d) /\ EssentialOf(d)
      BY <3>1 DEF ShowInv
    <3>3. \A n \in HmiNames : Pending(d, n) <=> Pending(d, n)'
      BY <1>3, <3>1 DEF Pending, Switched
    <3>4. ShowOf(d)'
      BY <1>1, <1>5, <3>1, <3>2, <3>3 DEF ShowOf
    <3>5. EssentialOf(d)'
      BY <1>1, <2>1, <3>1, <3>2 DEF EssentialOf
    <3>6. QED
      BY <3>4, <3>5
  <2>7. ReadyInv'
    BY <1>1, <2>1 DEF ReadyInv, AllEssential
  <2>8. QED
    BY <1>3, <2>5, <2>6, <2>7 DEF ShowInv
<1> DEFINE Others == \A d \in Clients : OfThisBoot(d)' =>
                /\ OfThisBoot(d)
                /\ conn'[d]["phase"] = conn[d]["phase"]
                /\ conn'[d]["updates"] = conn[d]["updates"]
                /\ conn'[d]["shows"] = conn[d]["shows"]
                /\ conn'[d]["inbox"] = conn[d]["inbox"]
<1>7. ASSUME Others, boot'.id = boot.id PROVE ShowInv' /\ ReadyInv'
  <2>1. ASSUME NEW d \in Clients, OfThisBoot(d)' PROVE ShowOf(d)' /\ EssentialOf(d)'
    <3>1. ShowOf(d) /\ EssentialOf(d)
      BY <1>7, <2>1 DEF ShowInv
    <3>2. \A n \in HmiNames : Pending(d, n) <=> Pending(d, n)'
      BY <1>3, <1>7, <2>1 DEF Pending, Switched
    <3>3. ShowOf(d)'
      BY <1>1, <1>5, <1>7, <2>1, <3>1, <3>2 DEF ShowOf
    <3>4. EssentialOf(d)'
      BY <1>1, <1>7, <2>1, <3>1 DEF EssentialOf
    <3>5. QED
      BY <3>3, <3>4
  <2>2. ReadyInv'
    BY <1>1, <1>7 DEF ReadyInv, AllEssential
  <2>3. QED
    BY <2>1, <2>2 DEF ShowInv
<1>8. CASE SeesReboot(c) \/ Disconnect(c)
  <2>1. conn' = [conn EXCEPT ![c] = None] /\ UNCHANGED boot
    BY <1>8, ClosesEffect DEF Unmoved
  <2>2. Others
    BY <1>1, <2>1 DEF ConnOK, OfThisBoot, Open
  <2>3. QED
    BY <1>3, <1>7, <2>1, <2>2
<1>9. CASE BroadcastConfig(c)
  <2>1. /\ UNCHANGED boot
        /\ \A d \in Clients : Open(d)' =>
            /\ Open(d)
            /\ conn'[d]["boot"] = conn[d]["boot"] /\ conn'[d]["phase"] = conn[d]["phase"]
            /\ conn'[d]["updates"] = conn[d]["updates"] /\ conn'[d]["shows"] = conn[d]["shows"]
            /\ conn'[d]["inbox"] = conn[d]["inbox"]
    BY <1>9, BroadcastConfigEffect DEF Unmoved, ConnFields
  <2>2. Others
    BY <2>1 DEF OfThisBoot
  <2>3. QED
    BY <1>3, <1>7, <2>1, <2>2
<1>10. CASE SendCounter(c)
  <2>1. /\ boot' = [boot EXCEPT !.unseen = TRUE]
        /\ \A d \in Clients : Open(d)' =>
            /\ Open(d)
            /\ conn'[d]["boot"] = conn[d]["boot"] /\ conn'[d]["phase"] = conn[d]["phase"]
            /\ conn'[d]["updates"] = conn[d]["updates"] /\ conn'[d]["shows"] = conn[d]["shows"]
            /\ conn'[d]["inbox"] = conn[d]["inbox"]
    BY <1>10, SendCounterEffect DEF ConnFields
  <2>2. boot'.id = boot.id
    BY <2>1 DEF StackTypes, BootOK
  <2>3. Others
    BY <2>1, <2>2 DEF OfThisBoot
  <2>4. QED
    BY <1>3, <1>7, <2>2, <2>3
<1> DEFINE Alone == ~Accept(c) /\ ~SeesReboot(c) /\ ~Disconnect(c) /\ ~BroadcastConfig(c)
                    /\ ~SendCounter(c)
<1> HIDE DEF Others
<1>11. Alone => UNCHANGED <<boot, output, dirty, batching, ready>> /\ Open(c)
  <2> SUFFICES ASSUME Alone PROVE UNCHANGED <<boot, output, dirty, batching, ready>> /\ Open(c)
    OBVIOUS
  <2>1. UNCHANGED boot
    BY <1>1
  <2>2. Open(c)
    BY DEF ConnectionStep, Subscribe, PassGate, SendSnapshot, SendConfig, ForwardUpdate,
           ForwardConfig, CopyTier, StoreTier, BuildConfig, HandleReboot, ReadCounter, UserStep,
           SetSensor, SetConfig, ApplyAndReboot, Leave, Uses, InPhase, Selects, Hears, Job, Busy
  <2>3. QED
    BY <1>1, <2>1, <2>2
<1> HIDE DEF Alone
\* What c is told or hears, when it shows what it has shown.
<1>12. ASSUME Alone, NEW fs, Changes(c, fs), "boot" \notin fs, "phase" \notin fs,
              "updates" \notin fs, "shows" \notin fs,
              \/ conn'[c].inbox = conn[c].inbox
              \/ /\ conn[c].inbox # <<>> /\ Head(conn[c].inbox).op # "sensor"
                 /\ conn'[c].inbox = Tail(conn[c].inbox)
              \/ \E m \in Messages : conn'[c].inbox = Append(conn[c].inbox, m)
       PROVE  ShowInv' /\ ReadyInv'
  <2>1. ASSUME NEW n \in HmiNames, Pending(c, n) PROVE Pending(c, n)'
    <3>1. Switched(c, n) => Switched(c, n)'
      BY <1>12, SwitchedKept DEF Changes
    <3>2. QED
      BY <1>3, <2>1, <3>1 DEF Pending
  <2>2. (ShowOf(c) /\ EssentialOf(c)) => (ShowOf(c)' /\ EssentialOf(c)')
    BY <1>11, <1>12, <2>1, ShowSame
  <2>3. QED
    BY <1>1, <1>4, <1>11, <1>12, <2>2, ShowStep
<1>13. ASSUME Alone, NEW fs, Changes(c, fs), "boot" \notin fs, "phase" \notin fs,
              "updates" \notin fs, "shows" \notin fs, "inbox" \notin fs
       PROVE  ShowInv' /\ ReadyInv'
  <2>1. conn'[c]["inbox"] = conn[c]["inbox"]
    BY <1>13 DEF Changes, ConnFields
  <2>2. QED
    BY <1>12, <1>13, <2>1
<1>14. ASSUME Alone, Subscribe(c) \/ PassGate(c) PROVE ShowInv' /\ ReadyInv'
  <2>1. /\ Changes(c, {"phase", "late"}) /\ conn'[c].phase \in {"waiting", "passed"}
        /\ conn'[c].phase = "passed" => conn[c].boot \in ready
    BY <1>1, <1>14, SubscribeEffect, PassGateEffect DEF Changes
  <2>2. /\ conn'[c]["updates"] = conn[c]["updates"] /\ conn'[c]["shows"] = conn[c]["shows"]
        /\ conn'[c]["inbox"] = conn[c]["inbox"]
    BY <2>1 DEF Changes, ConnFields
  <2>3. ASSUME OfThisBoot(c), ShowOf(c), EssentialOf(c) PROVE ShowOf(c)' /\ EssentialOf(c)'
    <3>1. \A n \in HmiNames : Pending(c, n) <=> Pending(c, n)'
      BY <1>3, <2>2 DEF Pending, Switched
    <3>2. ShowOf(c)'
      BY <1>1, <1>5, <2>1, <2>2, <2>3, <3>1 DEF ShowOf
    <3>3. EssentialOf(c)'
      BY <1>11, <1>14, <2>1, <2>3 DEF EssentialOf, OfThisBoot
    <3>4. QED
      BY <3>2, <3>3
  <2>4. QED
    BY <1>1, <1>4, <1>11, <1>14, <2>1, <2>3, ShowStep
<1>15. ASSUME Alone, SendSnapshot(c) PROVE ShowInv' /\ ReadyInv'
  <2>1. /\ Changes(c, {"phase", "shows"})
        /\ conn[c].phase = "passed" /\ conn'[c].phase = "shown"
        /\ conn'[c].shows = IF OfThisBoot(c) THEN Merged(conn[c].shows, StateMsg(output))
                            ELSE conn[c].shows
    BY <1>15, SendSnapshotEffect
  <2>2. /\ conn'[c]["updates"] = conn[c]["updates"] /\ conn'[c]["inbox"] = conn[c]["inbox"]
        /\ conn[c].shows \in States
    BY <2>1 DEF Changes, ConnFields, Conns
  <2>3. ASSUME OfThisBoot(c), ShowOf(c), EssentialOf(c) PROVE ShowOf(c)' /\ EssentialOf(c)'
    <3>1. \A n \in HmiNames : conn'[c].shows[n] =
              IF output[FromHmi[n]] = None THEN conn[c].shows[n] ELSE output[FromHmi[n]]
      BY <2>1, <2>2, <2>3, MergedShows
    <3>2. \A n \in HmiNames : Pending(c, n) <=> Pending(c, n)'
      BY <1>3, <2>2 DEF Pending, Switched
    <3>3. ShowOf(c)'
      <4>1. ASSUME NEW n \in HmiNames
            PROVE  \/ conn'[c].shows[n] = output[FromHmi[n]]
                   \/ Pending(c, n)
        BY <2>3, <3>1 DEF ShowOf
      <4>2. ASSUME NEW n \in HmiNames, conn'[c].shows[n] # None
            PROVE  output[FromHmi[n]] # None \/ Pending(c, n)
        BY <2>3, <3>1, <4>2 DEF ShowOf
      <4>3. QED
        BY <1>1, <1>5, <2>2, <2>3, <3>2, <4>1, <4>2 DEF ShowOf
    <3>4. EssentialOf(c)'
      <4>1. boot.id \in ready /\ AllEssential(output)
        BY <2>1, <2>3 DEF EssentialOf, ReadyInv
      <4>2. \A s \in Essential : conn'[c].shows[ToHmi(s)] # None
        BY <3>1, <4>1, Names, BridgeAssumption DEF AllEssential
      <4>3. QED
        BY <1>11, <1>15, <4>1, <4>2 DEF EssentialOf
    <3>5. QED
      BY <3>3, <3>4
  <2>4. QED
    BY <1>1, <1>4, <1>11, <1>15, <2>1, <2>3, ShowStep
<1>16. ASSUME Alone, SendConfig(c) PROVE ShowInv' /\ ReadyInv'
  <2>1. /\ Changes(c, {"phase", "view"})
        /\ conn[c].phase = "shown" /\ conn'[c].phase = "serving"
    BY <1>16, SendConfigEffect
  <2>2. /\ conn'[c]["updates"] = conn[c]["updates"] /\ conn'[c]["shows"] = conn[c]["shows"]
        /\ conn'[c]["inbox"] = conn[c]["inbox"]
    BY <2>1 DEF Changes, ConnFields
  <2>3. ASSUME OfThisBoot(c), ShowOf(c), EssentialOf(c) PROVE ShowOf(c)' /\ EssentialOf(c)'
    <3>1. \A n \in HmiNames : Pending(c, n) <=> Pending(c, n)'
      BY <1>3, <2>2 DEF Pending, Switched
    <3>2. ShowOf(c)'
      BY <1>1, <1>5, <2>1, <2>2, <2>3, <3>1 DEF ShowOf
    <3>3. EssentialOf(c)'
      BY <1>11, <1>16, <2>1, <2>2, <2>3 DEF EssentialOf
    <3>4. QED
      BY <3>2, <3>3
  <2>4. QED
    BY <1>1, <1>4, <1>11, <1>16, <2>1, <2>3, ShowStep
<1>17. ASSUME Alone, ForwardUpdate(c) PROVE ShowInv' /\ ReadyInv'
  <2> DEFINE q == conn[c].updates
  <2>1. /\ Changes(c, {"updates", "deaf", "shows"}) /\ conn[c].phase = "serving"
        /\ q # <<>> /\ conn'[c].updates = Tail(q)
        /\ conn'[c].shows = Merged(conn[c].shows, Head(q))
    BY <1>17, ForwardUpdateEffect
  <2>2. /\ conn'[c]["phase"] = conn[c]["phase"] /\ conn'[c]["inbox"] = conn[c]["inbox"]
        /\ conn[c].shows \in States /\ q \in Seq(States)
    BY <2>1 DEF Changes, ConnFields, Conns
  <2> HIDE DEF q
  <2>3. /\ Head(q) = q[1] /\ 1 \in DOMAIN q
        /\ \A i \in DOMAIN Tail(q) : i + 1 \in DOMAIN q /\ Tail(q)[i] = q[i + 1]
        /\ IF Tail(q) = <<>> THEN Last(q) = Head(q) ELSE Last(Tail(q)) = Last(q)
    BY <2>1, <2>2, TailOf
  <2>4. \A n \in HmiNames : conn'[c].shows[n] =
            IF Head(q)[n] = None THEN conn[c].shows[n] ELSE Head(q)[n]
    BY <2>1, <2>2, MergedShows
  <2>5. ASSUME OfThisBoot(c), ShowOf(c), EssentialOf(c) PROVE ShowOf(c)' /\ EssentialOf(c)'
    <3>1. \A n \in HmiNames : Pending(c, n) <=> Pending(c, n)'
      BY <1>3, <2>2 DEF Pending, Switched
    <3>2. ASSUME NEW n \in HmiNames
          PROVE  /\ \A i \in DOMAIN q : q[i][n] # None => output[FromHmi[n]] # None
                 /\ conn[c].shows[n] # None => (output[FromHmi[n]] # None \/ Pending(c, n))
      BY <2>5 DEF ShowOf, q
    <3>3. \/ dirty \/ batching \/ Last(q) = StateMsg(output)
      BY <2>1, <2>5 DEF ShowOf, q
    <3>4. \/ dirty \/ batching \/ Tail(q) = <<>> \/ Last(Tail(q)) = StateMsg(output)
      BY <2>3, <3>3
    <3>5. ASSUME NEW n \in HmiNames, NEW i \in DOMAIN Tail(q), Tail(q)[i][n] # None
          PROVE  output[FromHmi[n]] # None
      BY <2>3, <3>2, <3>5
    <3>6. ASSUME NEW n \in HmiNames, conn'[c].shows[n] # None
          PROVE  output[FromHmi[n]] # None \/ Pending(c, n)
      BY <2>3, <2>4, <3>2, <3>6
    <3>7. ASSUME NEW n \in HmiNames, ~dirty, ~batching, Tail(q) = <<>>
          PROVE  conn'[c].shows[n] = output[FromHmi[n]] \/ Pending(c, n)
      <4>1. Head(q) = StateMsg(output)
        BY <2>3, <3>3, <3>7
      <4>2. Head(q)[n] = output[FromHmi[n]]
        BY <4>1 DEF StateMsg
      <4>3. QED
        BY <2>4, <3>2, <4>2
    <3>8. ShowOf(c)'
      BY <1>1, <1>5, <2>1, <3>1, <3>4, <3>5, <3>6, <3>7 DEF ShowOf
    <3>9. EssentialOf(c)'
      <4>1. boot.id \in ready /\ \A s \in Essential : conn[c].shows[ToHmi(s)] # None
        BY <2>1, <2>5 DEF EssentialOf
      <4>2. \A s \in Essential : ToHmi(s) \in HmiNames
        BY Names, BridgeAssumption
      <4>3. \A s \in Essential : conn'[c].shows[ToHmi(s)] # None
        BY <2>4, <4>1, <4>2
      <4>4. QED
        BY <1>11, <1>17, <4>1, <4>3 DEF EssentialOf
    <3>10. QED
      BY <3>8, <3>9
  <2>6. QED
    BY <1>1, <1>4, <1>11, <1>17, <2>1, <2>5, ShowStep
<1>18. ASSUME Alone, ForwardConfig(c) PROVE ShowInv' /\ ReadyInv'
  BY <1>13, <1>18, ForwardConfigEffect
<1>19. ASSUME Alone, CopyTier(c) PROVE ShowInv' /\ ReadyInv'
  <2>1. /\ Changes(c, {"inbox", "deaf", "job"})
        /\ conn[c].inbox # <<>> /\ Head(conn[c].inbox).op # "sensor"
        /\ conn'[c].inbox = Tail(conn[c].inbox)
    BY <1>19, CopyTierEffect
  <2>2. QED
    BY <1>12, <1>19, <2>1
<1>20. ASSUME Alone, StoreTier(c) \/ BuildConfig(c) \/ ReadCounter(c) PROVE ShowInv' /\ ReadyInv'
  <2>1. Changes(c, {"job"})
    BY <1>20, StoreTierEffect, BuildConfigEffect, ReadCounterEffect
  <2>2. QED
    BY <1>13, <1>20, <2>1
<1>21. ASSUME Alone, HandleReboot(c) PROVE ShowInv' /\ ReadyInv'
  <2>1. /\ Changes(c, {"inbox", "deaf", "job"})
        /\ conn[c].inbox # <<>> /\ Head(conn[c].inbox).op # "sensor"
        /\ conn'[c].inbox = Tail(conn[c].inbox)
    BY <1>21, HandleRebootEffect
  <2>2. QED
    BY <1>12, <1>21, <2>1
<1>22. ASSUME Alone, UserStep(c) PROVE ShowInv' /\ ReadyInv'
  <2>1. ASSUME NEW s \in Inputs, NEW v \in Numbers, SetSensor(c, ToHmi(s), v)
        PROVE  ShowInv' /\ ReadyInv'
    <3> DEFINE n == ToHmi(s)
    <3>1. /\ Changes(c, {"inbox", "shows"})
          /\ conn'[c].shows = [conn[c].shows EXCEPT ![n] = v]
      BY <1>1, <2>1, SetSensorEffect
    <3>2. PICK m \in Messages :
             /\ m.op = "sensor" /\ m.path = n
             /\ conn'[c].inbox = Append(conn[c].inbox, m)
      BY <1>1, <2>1, SetSensorEffect
    <3>3. /\ conn'[c]["phase"] = conn[c]["phase"] /\ conn'[c]["updates"] = conn[c]["updates"]
          /\ conn[c].shows \in States /\ conn[c].inbox \in Seq(Messages) /\ conn[c] \in Conns
      BY <3>1 DEF Changes, ConnFields, Conns
    <3>4. n \in HmiNames /\ v # None
      BY Names, PlatformAssumption DEF Signals, Values
    <3> HIDE DEF n
    <3>5. /\ conn'[c].shows[n] = v
          /\ \A k \in HmiNames \ {n} : conn'[c].shows[k] = conn[c].shows[k]
      BY <3>1, <3>3, <3>4 DEF States
    <3>6. Switched(c, n)'
      <4>1. /\ Append(conn[c].inbox, m)[Len(conn[c].inbox) + 1] = m
            /\ Len(conn[c].inbox) + 1 \in DOMAIN Append(conn[c].inbox, m)
        BY <3>2, <3>3, AppendOf
      <4>2. QED
        BY <3>2, <4>1 DEF Switched
    <3>7. ASSUME NEW k \in HmiNames, Pending(c, k) PROVE Pending(c, k)'
      <4>1. Switched(c, k) => Switched(c, k)'
        BY <3>2, <3>3, SwitchedKept
      <4>2. QED
        BY <1>3, <3>7, <4>1 DEF Pending
    <3>8. ASSUME ShowOf(c), EssentialOf(c) PROVE ShowOf(c)' /\ EssentialOf(c)'
      <4>1. Pending(c, n)'
        BY <3>6 DEF Pending
      <4>2. ShowOf(c)'
        BY <1>1, <1>5, <3>3, <3>5, <3>7, <3>8, <4>1 DEF ShowOf
      <4>3. \A k \in HmiNames : conn[c].shows[k] # None => conn'[c].shows[k] # None
        BY <3>4, <3>5
      <4>4. \A r \in Essential : ToHmi(r) \in HmiNames
        BY Names, BridgeAssumption
      <4>5. EssentialOf(c)'
        BY <1>11, <1>22, <3>3, <3>8, <4>3, <4>4 DEF EssentialOf
      <4>6. QED
        BY <4>2, <4>5
    <3>9. QED
      BY <1>1, <1>4, <1>11, <1>22, <3>1, <3>8, ShowStep
  <2>2. ASSUME NEW k \in Settable, SetConfig(c, k[1], k[2], 1) PROVE ShowInv' /\ ReadyInv'
    <3>1. /\ Changes(c, {"inbox", "view"})
          /\ \E m \in Messages : conn'[c].inbox = Append(conn[c].inbox, m)
      BY <1>1, <2>2, SetConfigEffect
    <3>2. QED
      BY <1>12, <1>22, <3>1
  <2>3. ASSUME Leave(c) \/ \E tiers \in Seq(ConfigFiles), v \in Int : ApplyAndReboot(c, tiers, v)
        PROVE  ShowInv' /\ ReadyInv'
    <3>1. /\ Changes(c, {"inbox"})
          /\ \E m \in Messages : conn'[c].inbox = Append(conn[c].inbox, m)
      BY <1>1, <2>3, LeaveEffect
    <3>2. QED
      BY <1>12, <1>22, <3>1
  <2>4. QED
    BY <1>1, <1>22, <2>1, <2>2, <2>3, UserSteps
<1>23. QED
  BY <1>3, <1>6, <1>8, <1>9, <1>10, <1>14, <1>15, <1>16, <1>17, <1>18, <1>19, <1>20, <1>21,
     <1>22
  DEF Alone, ConnectionStep

\* Nobody is told anything, and what is to be read stays so.
LEMMA ShowUntold ==
    ASSUME ShowInv, ReadyInv, boot'.id = boot.id,
           UNCHANGED <<output, dirty, batching, ready, conn>>,
           \A s \in Signals : behind[s] # <<>> => behind'[s] # <<>>
    PROVE  ShowInv' /\ ReadyInv'
<1>1. ASSUME NEW d \in Clients, OfThisBoot(d)' PROVE ShowOf(d)' /\ EssentialOf(d)'
  <2>1. ShowOf(d) /\ EssentialOf(d)
    BY <1>1 DEF ShowInv, OfThisBoot, Open
  <2>2. \A n \in HmiNames : Pending(d, n) => Pending(d, n)'
    BY Names DEF Pending, Switched
  <2>3. StateMsg(output)' = StateMsg(output)
    BY DEF StateMsg
  <2>4. ShowOf(d)'
    BY <2>1, <2>2, <2>3 DEF ShowOf
  <2>5. EssentialOf(d)'
    BY <2>1 DEF EssentialOf
  <2>6. QED
    BY <2>4, <2>5
<1>2. ReadyInv'
  BY DEF ReadyInv, AllEssential
<1>3. QED
  BY <1>1, <1>2 DEF ShowInv

\* A value is read: the broadcaster is told, and what was known stays known.
LEMMA ReadShows ==
    ASSUME StackTypes, OutputInv, ShowInv, ReadyInv, NEW s \in Signals, SubscriberReads(s)
    PROVE  OutputInv' /\ ShowInv' /\ ReadyInv'
<1>1. /\ behind[s] # <<>> /\ behind[s] \in Seq(Values)
      /\ output[s] \in Values \cup {None}
      /\ output' = [output EXCEPT ![s] = Head(behind[s])]
      /\ behind' = [behind EXCEPT ![s] = Tail(behind[s])]
      /\ dirty' = TRUE
      /\ UNCHANGED <<bus, batching, ready, conn, boot>>
  BY DEF SubscriberReads, StackTypes, BridgeOK
<1>2. /\ Head(behind[s]) \in Values
      /\ IF Tail(behind[s]) = <<>> THEN Last(behind[s]) = Head(behind[s])
         ELSE Last(Tail(behind[s])) = Last(behind[s])
  BY <1>1, TailOf
<1>3. /\ output'[s] = Head(behind[s]) /\ behind'[s] = Tail(behind[s]) /\ output'[s] # None
      /\ \A r \in Signals \ {s} : output'[r] = output[r] /\ behind'[r] = behind[r]
  BY <1>1, <1>2, PlatformAssumption DEF StackTypes, BridgeOK
<1>4. ASSUME NEW r \in Signals
      PROVE  IF behind'[r] = <<>> THEN output'[r] = bus'[r] ELSE Last(behind'[r]) = bus'[r]
  <2>1. CASE r = s
    BY <1>1, <1>2, <1>3, <2>1 DEF OutputInv
  <2>2. CASE r # s
    BY <1>1, <1>3, <2>2 DEF OutputInv
  <2>3. QED
    BY <2>1, <2>2
<1>5. \A r \in Signals : output[r] # None => output'[r] # None
  BY <1>3
<1>6. ASSUME NEW d \in Clients, OfThisBoot(d)' PROVE ShowOf(d)' /\ EssentialOf(d)'
  <2>1. ShowOf(d) /\ EssentialOf(d)
    BY <1>1, <1>6 DEF ShowInv, OfThisBoot, Open
  <2>2. \A n \in HmiNames : Pending(d, n) => (Pending(d, n)' \/ output'[FromHmi[n]] # None)
    BY <1>1, <1>3, Names DEF Pending, Switched
  <2>3. ShowOf(d)'
    BY <1>1, <1>5, <2>1, <2>2, Names DEF ShowOf
  <2>4. EssentialOf(d)'
    BY <1>1, <2>1 DEF EssentialOf
  <2>5. QED
    BY <2>3, <2>4
<1>7. ReadyInv'
  BY <1>1, <1>5, BridgeAssumption DEF ReadyInv, AllEssential
<1>8. QED
  BY <1>4, <1>6, <1>7 DEF OutputInv, ShowInv

\* The broadcaster has been told and will tell.
LEMMA NotifiedShows ==
    ASSUME OutputInv, ShowInv, ReadyInv, Notified
    PROVE  OutputInv' /\ ShowInv' /\ ReadyInv'
<1>1. batching' = TRUE /\ UNCHANGED <<bus, behind, output, ready, conn, boot>>
  BY DEF Notified
<1>2. ASSUME NEW d \in Clients, OfThisBoot(d)' PROVE ShowOf(d)' /\ EssentialOf(d)'
  <2>1. ShowOf(d) /\ EssentialOf(d)
    BY <1>1, <1>2 DEF ShowInv, OfThisBoot, Open
  <2>2. \A n \in HmiNames : Pending(d, n) => Pending(d, n)'
    BY <1>1 DEF Pending, Switched
  <2>3. ShowOf(d)'
    BY <1>1, <2>1, <2>2 DEF ShowOf
  <2>4. EssentialOf(d)'
    BY <1>1, <2>1 DEF EssentialOf
  <2>5. QED
    BY <2>3, <2>4
<1>3. OutputInv' /\ ReadyInv'
  BY <1>1 DEF OutputInv, ReadyInv, AllEssential
<1>4. QED
  BY <1>2, <1>3 DEF ShowInv

\* Everyone of this boot is sent what is known, and the gate opens only on that.
LEMMA BroadcastShows ==
    ASSUME StackTypes, OutputInv, ShowInv, ReadyInv, BroadcasterSends
    PROVE  OutputInv' /\ ShowInv' /\ ReadyInv'
<1>1. /\ UNCHANGED <<bus, behind, output, boot>>
      /\ ready \subseteq ready'
      /\ boot.id \in ready' => (boot.id \in ready \/ AllEssential(output))
  BY DEF BroadcasterSends
<1>2. StateMsg(output)' = StateMsg(output) /\ AllEssential(output)' = AllEssential(output)
  BY <1>1 DEF StateMsg, AllEssential
<1>3. OutputInv' /\ ReadyInv'
  BY <1>1, <1>2 DEF OutputInv, ReadyInv
<1>4. ASSUME NEW d \in Clients, OfThisBoot(d)' PROVE ShowOf(d)' /\ EssentialOf(d)'
  <2>1. OfThisBoot(d)
    <3>1. ~OfThisBoot(d) => conn'[d] = conn[d]
      BY BroadcasterSendsEffect
    <3>2. QED
      BY <1>1, <1>4, <3>1 DEF OfThisBoot, Open
  <2>2. /\ conn'[d].updates # <<>> /\ Last(conn'[d].updates) = StateMsg(output)
        /\ \A i \in DOMAIN conn'[d].updates :
             \/ conn'[d].updates[i] = StateMsg(output)
             \/ \E j \in DOMAIN conn[d].updates : conn'[d].updates[i] = conn[d].updates[j]
        /\ conn'[d]["phase"] = conn[d]["phase"] /\ conn'[d]["shows"] = conn[d]["shows"]
        /\ conn'[d]["inbox"] = conn[d]["inbox"]
    BY <2>1, BroadcasterSendsEffect DEF ConnFields
  <2>3. ShowOf(d) /\ EssentialOf(d)
    BY <2>1 DEF ShowInv
  <2>4. \A n \in HmiNames : Pending(d, n)' = Pending(d, n)
    BY <1>1, <2>2 DEF Pending, Switched
  <2>5. \A n \in HmiNames : StateMsg(output)[n] = output[FromHmi[n]]
    BY DEF StateMsg
  <2>6. ShowOf(d)'
    BY <1>1, <1>2, <2>2, <2>3, <2>4, <2>5 DEF ShowOf
  <2>7. EssentialOf(d)'
    BY <1>1, <2>2, <2>3 DEF EssentialOf
  <2>8. QED
    BY <2>6, <2>7
<1>5. QED
  BY <1>3, <1>4 DEF ShowInv

\* A value is published by someone who has no connection.
LEMMA PublishShows ==
    ASSUME StackTypes, OutputInv, ShowInv, ReadyInv, boot'.id = boot.id,
           UNCHANGED <<output, dirty, batching, ready, conn>>,
           \/ UNCHANGED <<bus, behind>>
           \/ \E s \in Signals, v \in Values : Publish(s, v)
    PROVE  OutputInv' /\ ShowInv' /\ ReadyInv'
<1>1. OutputInv' /\ \A s \in Signals : behind[s] # <<>> => behind'[s] # <<>>
  <2>1. CASE UNCHANGED <<bus, behind>>
    BY <2>1 DEF OutputInv
  <2>2. CASE \E s \in Signals, v \in Values : Publish(s, v)
    BY <2>2, PublishOutput DEF StackTypes
  <2>3. QED
    BY <2>1, <2>2
<1>2. QED
  BY <1>1, ShowUntold

\* A boot whose bus is new and that nobody has connected to.
LEMMA NewBootShows ==
    ASSUME NoStack, boot'.id \notin ready', \A d \in Clients : ~OfThisBoot(d)'
    PROVE  OutputInv' /\ ShowInv' /\ ReadyInv'
<1>1. \A s \in Signals : behind'[s] = <<>> /\ output'[s] = bus'[s]
  BY DEF NoStack, NoneRead
<1>2. QED
  BY <1>1 DEF OutputInv, ShowInv, ReadyInv

\* An HMI that has been told everything shows what is on the bus, whenever it connected,
\* whatever its user switched meanwhile and however often the car rebooted, and from its
\* first message on it shows all the essential signals (ws_bridge.rs).
THEOREM ClientsAgree == Spec => []ClientsConverge
<1> DEFINE Inv == OutputInv /\ ShowInv /\ ReadyInv
<1>1. Init => Inv
  <2> SUFFICES ASSUME Init PROVE Inv
    OBVIOUS
  <2>1. \A s \in Signals : behind[s] = <<>> /\ output[s] = bus[s]
    BY DEF Init, NoneRead
  <2>2. ready = {} /\ \A c \in Clients : ~OfThisBoot(c)
    BY DEF Init, OfThisBoot, Open
  <2>3. QED
    BY <2>1, <2>2 DEF OutputInv, ShowInv, ReadyInv
<1>2. StackTypes /\ Inv /\ [Next]_vars => Inv'
  <2> SUFFICES ASSUME StackTypes, Inv, [Next]_vars PROVE Inv'
    OBVIOUS
  <2>1. ConnOK /\ BootOK /\ DiskOK /\ team.clients \subseteq Clients
    BY PlatformAssumption DEF StackTypes, BootOK
  <2>2. PlantSignal \in Signals /\ BootSignal \in Signals
    BY PlatformAssumption
  <2>3. CASE UNCHANGED <<boot, bus, behind, output, dirty, batching, ready, conn>>
    BY <2>3, PublishShows
  <2>4. CASE BridgeStep
    <3>1. \A s \in Signals : SubscriberReads(s) => Inv'
      BY ReadShows
    <3>2. (Notified \/ BroadcasterSends) => Inv'
      BY NotifiedShows, BroadcastShows
    <3>3. \A c \in Clients : (ConnectionStep(c) \/ UserStep(c)) => Inv'
      BY ConnectionShows
    <3> HIDE DEF Inv
    <3>4. QED
      BY <2>1, <2>4, <3>1, <3>2, <3>3 DEF BridgeStep
  <2>5. CASE SavingStep
    <3>1. PICK c \in Clients : SaveSection(c)
      BY <2>1, <2>5 DEF SavingStep
    <3>2. /\ Changes(c, {"job"}) /\ Unmoved /\ Open(c)
      BY <3>1, SaveSectionEffect DEF SaveSection, Busy, Job
    <3>3. UNCHANGED <<boot, bus, behind, output, dirty, batching, ready>>
      BY <3>2 DEF Unmoved, bridgeVars
    <3>4. OutputInv'
      BY <3>3 DEF OutputInv
    <3>5. ASSUME NEW n \in HmiNames, Pending(c, n) PROVE Pending(c, n)'
      <4>1. conn'[c]["inbox"] = conn[c]["inbox"]
        BY <3>2 DEF Changes, ConnFields
      <4>2. QED
        BY <3>3, <3>5, <4>1 DEF Pending, Switched
    <3>6. (ShowOf(c) /\ EssentialOf(c)) => (ShowOf(c) /\ EssentialOf(c))'
      BY <3>2, <3>3, <3>5, ShowSame
    <3>7. QED
      BY <2>1, <3>2, <3>3, <3>4, <3>6, ShowStep
  <2>6. CASE PlantBoots \/ PlantMoves
    <3>1. /\ plant' \in BOOLEAN /\ Publish(PlantSignal, plant')
          /\ UNCHANGED <<output, dirty, batching, ready, boot, conn>>
      BY <2>1, <2>6, LoadedType DEF PlantBoots, PlantMoves, BootOK
    <3>2. plant' \in Values
      BY <3>1 DEF Values
    <3>3. QED
      BY <2>2, <3>1, <3>2, PublishShows
  <2>7. ASSUME NEW path, NEW v \in Numbers, KuksaDelivers(path, v) PROVE Inv'
    <3>1. /\ UNCHANGED <<output, dirty, batching, ready, boot, conn>>
          /\ UNCHANGED <<bus, behind>> \/ (path \in Signals /\ Publish(path, v))
      BY <2>7 DEF KuksaDelivers, ALL_SIGNALS
    <3>2. v \in Values
      BY DEF Values
    <3>3. QED
      BY <3>1, <3>2, PublishShows
  <2>8. CASE BootStep
    <3>1. /\ UNCHANGED <<output, dirty, batching, ready, conn>> /\ boot'.id = boot.id
          /\ UNCHANGED <<bus, behind>> \/ Publish(BootSignal, FALSE)
      BY <2>1, <2>8 DEF BootStep, BootOK
    <3>2. FALSE \in Values
      BY DEF Values
    <3>3. QED
      BY <2>2, <3>1, <3>2, PublishShows
  <2>9. CASE MainWakes
    <3>1. CASE IsForThisBoot(boot.id)
      <4>1. /\ boot'.id = boot.id + 1 /\ boot.id \in Nat /\ NoStack
            /\ UNCHANGED <<ready, conn>> /\ ready \subseteq 1..boot.id
        BY <2>1, <2>9, <3>1 DEF MainWakes, BootOK
      <4>2. boot'.id \notin ready'
        BY <4>1
      <4>3. \A d \in Clients : Open(d) => conn[d].boot \in Nat /\ conn[d].boot <= boot.id
        BY <2>1 DEF ConnOK, Open, Conns
      <4>4. \A d \in Clients : ~OfThisBoot(d)'
        BY <4>1, <4>3 DEF OfThisBoot, Open
      <4>5. QED
        BY <4>1, <4>2, <4>4, NewBootShows
    <3>2. CASE ~IsForThisBoot(boot.id)
      <4>1. /\ boot'.id = boot.id
            /\ UNCHANGED <<bus, behind, output, dirty, batching, ready, conn>>
        BY <2>1, <2>9, <3>2 DEF MainWakes, BootOK
      <4>2. QED
        BY <4>1, PublishShows
    <3>3. QED
      BY <3>1, <3>2
  <2>10. CASE PowerCut
    <3>1. /\ NoStack /\ boot'.id \notin ready'
          /\ \A d \in Clients : ~OfThisBoot(d)'
      BY <2>10 DEF PowerCut, OfThisBoot, Open
    <3>2. QED
      BY <3>1, NewBootShows
  <2> HIDE DEF Inv
  <2>11. QED
    BY <2>3, <2>4, <2>5, <2>6, <2>7, <2>8, <2>9, <2>10
    DEF Next, vars, stackVars, bridgeVars, StackNext, FileStep, KuksaTurns
<1>3. StackTypes /\ Inv => ClientsConverge
  <2> SUFFICES ASSUME StackTypes, Inv, NEW c \in Clients, OfThisBoot(c),
                      conn[c].phase = "serving"
               PROVE  /\ (Quiet(c) /\ BusAtRest) => conn[c].shows = StateMsg(bus)
                      /\ \A s \in Essential : conn[c].shows[ToHmi(s)] # None
    BY DEF ClientsConverge, Quiet
  <2>1. ShowOf(c) /\ EssentialOf(c)
    BY DEF ShowInv
  <2>2. ASSUME Quiet(c), BusAtRest PROVE conn[c].shows = StateMsg(bus)
    <3>1. /\ ~dirty /\ ~batching /\ conn[c].updates = <<>> /\ conn[c].inbox = <<>>
          /\ \A s \in Signals : behind[s] = <<>>
      BY <2>2 DEF Quiet, BusAtRest
    <3>2. ASSUME NEW n \in HmiNames PROVE conn[c].shows[n] = bus[FromHmi[n]]
      <4>1. FromHmi[n] \in Signals /\ ~Pending(c, n)
        BY <3>1, Names DEF Pending, Switched
      <4>2. output[FromHmi[n]] = bus[FromHmi[n]]
        BY <3>1, <4>1 DEF OutputInv
      <4>3. QED
        BY <2>1, <3>1, <4>1, <4>2 DEF ShowOf
    <3>3. conn[c].shows \in States
      BY DEF StackTypes, ConnOK, OfThisBoot, Open, Conns
    <3>4. QED
      BY <3>2, <3>3 DEF States, StateMsg
  <2>3. \A s \in Essential : conn[c].shows[ToHmi(s)] # None
    BY <2>1 DEF EssentialOf
  <2>4. QED
    BY <2>2, <2>3
<1> HIDE DEF Inv
<1>4. QED
  BY <1>1, <1>2, <1>3, StackInit, TypesStep, PTL DEF Spec

-----------------------------------------------------------------------------
(* One signal of the bus (MockBus).  With one publisher the broadcasts are *)
(* 1, 2, 3 ... up to the latest value or one short of it, in the order in  *)
(* which they were stored; and what a stream has yielded is never behind   *)
(* the position of its receiver.                                           *)

\* Broadcasts follow the map: at most the latest value is still to be sent.
InOrder ==
    /\ latest = published
    /\ \A i \in 1..Len(sent) : sent[i] = i
    /\ \A p \in Publishers :
          /\ sending[p] = 0 => Len(sent) = published
          /\ sending[p] # 0 => sending[p] = published /\ Len(sent) + 1 = published

\* What the stream has yielded, or is about to replay, is not behind its
\* receiver, nor behind what the subscriber asked for.
NotBehind(s) ==
    /\ asked[s] <= position[s]
    /\ progress[s] # "ready" => yielded[s] = 0 /\ replay[s] = 0
    /\ replay[s] # 0 => replay[s] >= position[s] - 1 /\ replay[s] >= asked[s]
    /\ progress[s] = "ready" /\ replay[s] = 0 => yielded[s] >= position[s] - 1
    /\ yielded[s] # 0 => yielded[s] >= asked[s]

SignalInv ==
    /\ TypeOK
    /\ SoleWriter => InOrder /\ \A s \in Subscribers : NotBehind(s)

-----------------------------------------------------------------------------

\* The initial state: nothing is published and nobody has subscribed.
LEMMA SignalStarts == BusInit => SignalInv
  BY BusAssumption
  DEF BusInit, SignalInv, TypeOK, InOrder, NotBehind, SoleWriter

\* A publisher's step preserves the invariant: it touches no subscriber, and
\* every bound only grows.
LEMMA SendingKeeps ==
    ASSUME SignalInv, NEW p \in Publishers, WriteLatest(p) \/ SendLive(p)
    PROVE  SignalInv'
<1> USE BusAssumption DEF busVars, subscriberVars
<1>1. CASE WriteLatest(p)
  <2>1. TypeOK'
    BY <1>1 DEF SignalInv, TypeOK, WriteLatest
  <2>2. ASSUME SoleWriter PROVE InOrder'
    BY <1>1, <2>2 DEF SignalInv, TypeOK, InOrder, WriteLatest, SoleWriter
  <2>3. ASSUME SoleWriter, NEW s \in Subscribers PROVE NotBehind(s)'
    BY <1>1, <2>3 DEF SignalInv, NotBehind, WriteLatest
  <2>4. QED
    BY <2>1, <2>2, <2>3 DEF SignalInv, SoleWriter
<1>2. CASE SendLive(p)
  <2>1. TypeOK'
    BY <1>2 DEF SignalInv, TypeOK, SendLive
  <2>2. ASSUME SoleWriter PROVE InOrder'
    <3>1. sending[p] = published /\ Len(sent) + 1 = published
      BY <1>2, <2>2 DEF SignalInv, InOrder, SendLive
    <3>2. Len(sent') = published /\ \A i \in 1..Len(sent') : sent'[i] = i
      BY <1>2, <2>2, <3>1 DEF SignalInv, TypeOK, InOrder, SendLive
    <3>3. \A q \in Publishers : sending'[q] = 0
      BY <1>2, <2>2 DEF SignalInv, TypeOK, SendLive, SoleWriter
    <3>4. QED
      BY <1>2, <2>2, <3>2, <3>3 DEF SignalInv, InOrder, SendLive
  <2>3. ASSUME SoleWriter, NEW s \in Subscribers PROVE NotBehind(s)'
    BY <1>2, <2>3 DEF SignalInv, NotBehind, SendLive
  <2>4. QED
    BY <2>1, <2>2, <2>3 DEF SignalInv, SoleWriter
<1>3. QED
  BY <1>1, <1>2

\* A subscriber's step preserves the invariant: it touches only its own
\* stream.
LEMMA ReadingKeeps ==
    ASSUME SignalInv, NEW s \in Subscribers,
           OpenReceiver(s) \/ ReadLatest(s) \/ YieldReplay(s) \/ YieldLive(s)
    PROVE  SignalInv'
<1> USE BusAssumption DEF busVars, subscriberVars
<1>1. UNCHANGED busVars
  BY DEF OpenReceiver, ReadLatest, YieldReplay, YieldLive
<1>2. ASSUME YieldLive(s)
      PROVE  \E i \in 1..Len(sent) :
                /\ yielded' = [yielded EXCEPT ![s] = sent[i]]
                /\ position' = [position EXCEPT ![s] = i + 1]
                /\ i >= position[s]
  <2> DEFINE i == IF position[s] < Oldest THEN Oldest ELSE position[s]
  <2>1. i \in 1..Len(sent) /\ i >= position[s]
    BY <1>2 DEF SignalInv, TypeOK, YieldLive, Oldest
  <2>2. /\ yielded' = [yielded EXCEPT ![s] = sent[i]]
        /\ position' = [position EXCEPT ![s] = i + 1]
    BY <1>2 DEF YieldLive
  <2> HIDE DEF i
  <2>3. QED
    BY <2>1, <2>2
<1>3. TypeOK'
  <2>1. CASE OpenReceiver(s)
    BY <2>1 DEF SignalInv, TypeOK, OpenReceiver
  <2>2. CASE ReadLatest(s)
    BY <2>2 DEF SignalInv, TypeOK, ReadLatest
  <2>3. CASE YieldReplay(s)
    BY <2>3 DEF SignalInv, TypeOK, YieldReplay
  <2>4. CASE YieldLive(s)
    <3>1. PICK i \in 1..Len(sent) :
             /\ yielded' = [yielded EXCEPT ![s] = sent[i]]
             /\ position' = [position EXCEPT ![s] = i + 1]
      BY <1>2, <2>4
    <3>2. sent[i] \in 1..published /\ i + 1 \in 1..(Len(sent) + 1)
      BY DEF SignalInv, TypeOK
    <3>3. yielded' \in [Subscribers -> 0..published]
      BY <3>1, <3>2 DEF SignalInv, TypeOK
    <3>4. position' \in [Subscribers -> 1..(Len(sent) + 1)]
      BY <3>1, <3>2 DEF SignalInv, TypeOK
    <3>5. QED
      BY <1>1, <2>4, <3>3, <3>4 DEF SignalInv, TypeOK, YieldLive
  <2>5. QED
    BY <2>1, <2>2, <2>3, <2>4
<1>4. ASSUME SoleWriter PROVE InOrder'
  BY <1>1, <1>4 DEF SignalInv, InOrder
<1>5. ASSUME SoleWriter, NEW t \in Subscribers PROVE NotBehind(t)'
  <2>1. InOrder /\ NotBehind(t) /\ NotBehind(s) /\ latest <= Len(sent) + 1
    <3>1. InOrder /\ NotBehind(t) /\ NotBehind(s)
      BY <1>5 DEF SignalInv
    <3>2. PICK p \in Publishers : TRUE
      OBVIOUS
    <3>3. QED
      BY <3>1, <3>2 DEF SignalInv, InOrder, TypeOK
  <2>2. CASE OpenReceiver(s)
    BY <2>1, <2>2 DEF SignalInv, TypeOK, NotBehind, OpenReceiver
  <2>3. CASE ReadLatest(s)
    BY <2>1, <2>3 DEF SignalInv, TypeOK, NotBehind, InOrder, ReadLatest
  <2>4. CASE YieldReplay(s)
    BY <2>1, <2>4 DEF SignalInv, TypeOK, NotBehind, YieldReplay
  <2>5. CASE YieldLive(s)
    <3>1. PICK i \in 1..Len(sent) :
             /\ yielded' = [yielded EXCEPT ![s] = sent[i]]
             /\ position' = [position EXCEPT ![s] = i + 1]
             /\ i >= position[s]
      BY <1>2, <2>5
    <3>2. sent[i] = i
      BY <2>1 DEF InOrder
    <3>3. CASE t # s
      BY <2>1, <2>5, <3>1, <3>3 DEF SignalInv, TypeOK, NotBehind, YieldLive
    <3>4. CASE t = s
      <4>1. yielded'[s] = i /\ position'[s] = i + 1
        BY <3>1, <3>2 DEF SignalInv, TypeOK
      <4>2. asked[s] <= i /\ asked[s] \in Nat /\ position[s] \in Nat
        <5>1. asked[s] <= position[s]
          BY <2>1 DEF NotBehind
        <5>2. QED
          BY <3>1, <5>1 DEF SignalInv, TypeOK
      <4>3. QED
        BY <2>1, <2>5, <3>4, <4>1, <4>2 DEF NotBehind, YieldLive
    <3>5. QED
      BY <3>3, <3>4
  <2>6. QED
    BY <2>2, <2>3, <2>4, <2>5
<1>6. QED
  BY <1>3, <1>4, <1>5 DEF SignalInv, SoleWriter

\* The invariant holds in every reachable state.
THEOREM SignalIsSound == BusSpec => []SignalInv
<1>1. SignalInv /\ [BusNext]_signalVars => SignalInv'
  <2> SUFFICES ASSUME SignalInv, [BusNext]_signalVars PROVE SignalInv'
    OBVIOUS
  <2>1. CASE BusNext
    BY <2>1, SendingKeeps, ReadingKeeps DEF BusNext
  <2>2. CASE UNCHANGED signalVars
    BY <2>2
    DEF signalVars, busVars, subscriberVars, SignalInv, TypeOK, SoleWriter, InOrder, NotBehind
  <2>3. QED
    BY <2>1, <2>2
<1>2. QED
  BY SignalStarts, <1>1, PTL DEF BusSpec

-----------------------------------------------------------------------------

\* Every variable keeps its type, with any number of publishers.
THEOREM SignalIsTyped == BusSpec => []TypeOK
  BY SignalIsSound, PTL DEF SignalInv

\* A subscriber of a signal with one publisher that has consumed its stream
\* holds the latest value, however subscribe interleaved with publish
\* (mock.rs:101-124) and however many values the receiver lost.
THEOREM SubscribersCatchUp == BusSpec => []DrainedSeesLatest
<1>1. SignalInv => DrainedSeesLatest
  <2> SUFFICES ASSUME SignalInv, SoleWriter, AllSent, NEW s \in Subscribers, Drained(s)
               PROVE  yielded[s] = latest
    BY DEF DrainedSeesLatest
  <2>1. yielded[s] >= Len(sent) /\ yielded[s] <= published /\ latest = published
    BY DEF SignalInv, TypeOK, InOrder, NotBehind, Drained
  <2>2. PICK p \in Publishers : TRUE
    BY BusAssumption
  <2>3. Len(sent) = published
    BY <2>2 DEF SignalInv, InOrder, AllSent
  <2>4. QED
    BY <2>1, <2>3 DEF SignalInv, TypeOK
<1>2. QED
  BY SignalIsSound, <1>1, PTL

\* A stream never steps back behind what was current at its subscription.
THEOREM StreamsStartFresh == BusSpec => []NeverOlderThanAsked
<1>1. SignalInv => NeverOlderThanAsked
  BY DEF SignalInv, NotBehind, NeverOlderThanAsked
<1>2. QED
  BY SignalIsSound, <1>1, PTL
=============================================================================
