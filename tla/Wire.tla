-------------------------------- MODULE Wire --------------------------------
(***************************************************************************)
(* The frames of ipc_message.rs, between the processors, and the values    *)
(* kuksa_sync.rs exchanges with its broker.                                *)
(*                                                                         *)
(* A frame is a header, a body and a CRC over both, at an offset that      *)
(* depends on its type.  Here a frame is the sequence of its fields; the   *)
(* CRC is taken to be perfect, and is what it was computed over.           *)
(***************************************************************************)
EXTENDS Integers, Sequences

CONSTANTS
    Numbers,    \* values of a number field
    WireNothing \* no frame

VARIABLE
    wire \* the frame under way: as it was sent, as it is now, and what it was read as

-----------------------------------------------------------------------------
(* Codes.                                                                  *)

\* Magic and version are in the header of every frame.
IpcMagic   == "magic"
IpcVersion == 1

ActuatorCmd == 1
StateUpdate == 2
CmdAck      == 3
FaultReport == 4

MsgTypes == {ActuatorCmd, StateUpdate, CmdAck, FaultReport}

\* What from_u8 takes for one of FeatureId, Priority, SigType, AckStatus, FaultCode and
\* FaultSeverity.
FeatureIds     == (1..39) \cup (43..45)
Priorities     == 1..3
SigTypes       == 0..4
AckStatuses    == 0..6
FaultCodes     == 1..5
FaultSeverities == 0..1

\* A priority is written as its discriminant: VeryLow is 0 and Critical 4.
PriorityCodes == 0..4

-----------------------------------------------------------------------------
(* Encoding.  A long frame has a value between its body and its CRC.       *)

Fields == {"magic", "version", "type", "seq", "signal", "first", "second", "value", "crc"}

Long(type) == type \in {ActuatorCmd, StateUpdate}

\* Bytes 20 and 21 are the CRC of a short frame and the start of a long one's value.
Crc(f, long) ==
    <<f["magic"], f["version"], f["type"], f["seq"], f["signal"], f["first"], f["second"],
      IF long THEN f["value"] ELSE WireNothing>>

\* Header, body and CRC of a frame, which each type calls its own.
Encode(type, seq, signal, first, second, value) ==
    LET f == [magic |-> IpcMagic, version |-> IpcVersion, type |-> type,
              seq |-> seq, signal |-> signal, first |-> first, second |-> second,
              value |-> IF Long(type) THEN value ELSE WireNothing, crc |-> WireNothing]
    IN  [f EXCEPT !["crc"] = Crc(f, Long(type))]

\* encode of VssActuatorCmd, VssStateUpdate, VssCmdAck and VssFaultReport.  A
\* command's value type goes with its value.
CmdFrame(seq, signal, feature, priority, v) ==
    Encode(ActuatorCmd, seq, signal, feature, priority, v)
UpdateFrame(seq, signal, sigType, feature, v) ==
    Encode(StateUpdate, seq, signal, sigType, feature, v)
AckFrame(seq, signal, ackSeq, status) ==
    Encode(CmdAck, seq, signal, ackSeq, status, WireNothing)
FaultFrame(seq, signal, fault, severity) ==
    Encode(FaultReport, seq, signal, fault, severity, WireNothing)

-----------------------------------------------------------------------------
(* Decoding.                                                               *)

\* IpcHeader::decode
HeaderOk(f) == f["magic"] = IpcMagic /\ f["version"] = IpcVersion /\ f["type"] \in MsgTypes

\* Wrong: checks a CRC that does not cover the value.
CrcOkOfHeader(f) == SubSeq(f["crc"], 1, 7) = SubSeq(Crc(f, Long(f["type"])), 1, 7)

\* verify_crc.  Fields read at another type's offset are no CRC.
CrcOk(f) == f["crc"] = Crc(f, Long(f["type"]))

\* Codes are checked after the CRC; a value type is checked, a value never is.
CmdOk(f)    == f["first"] \in FeatureIds /\ f["second"] \in Priorities
UpdateOk(f) == f["first"] \in SigTypes /\ f["second"] \in FeatureIds
AckOk(f)    == f["second"] \in AckStatuses
FaultOk(f)  == f["first"] \in FaultCodes /\ f["second"] \in FaultSeverities

BodyOk(f) ==
    \/ f["type"] = ActuatorCmd /\ CmdOk(f)
    \/ f["type"] = StateUpdate /\ UpdateOk(f)
    \/ f["type"] = CmdAck      /\ AckOk(f)
    \/ f["type"] = FaultReport /\ FaultOk(f)

\* A frame that stands in for its fields, or none.
Decode(f) == IF HeaderOk(f) /\ CrcOk(f) /\ BodyOk(f) THEN f ELSE WireNothing

\* InboundMessage::parse: a command is for the other side.
Parse(f) == IF HeaderOk(f) /\ f["type"] = ActuatorCmd THEN WireNothing ELSE Decode(f)

-----------------------------------------------------------------------------
(* A frame on its way.                                                     *)

Sendable ==
    {UpdateFrame(n, m, t, x, v) :
        n \in Numbers, m \in Numbers, t \in {0, 4}, x \in {1, 45}, v \in Numbers}
    \cup {AckFrame(n, m, a, x) : n \in Numbers, m \in Numbers, a \in Numbers, x \in {0, 6}}
    \cup {FaultFrame(n, m, x, y) :
        n \in Numbers, m \in Numbers, x \in {1, 5}, y \in FaultSeverities}
    \cup {CmdFrame(n, m, x, p, v) :
        n \in Numbers, m \in Numbers, x \in {1, 45}, p \in PriorityCodes, v \in Numbers}

WireInit == wire = WireNothing

SendFrame ==
    /\ wire = WireNothing
    /\ \E f \in Sendable : wire' = [sent |-> f, now |-> f, got |-> WireNothing, read |-> FALSE]

\* One field is changed: a code or a number.
DamageFrame ==
    /\ wire # WireNothing
    /\ wire.now = wire.sent /\ ~wire.read
    /\ \E x \in Fields \ {"magic", "crc"} : \E v \in Numbers \cup MsgTypes :
        /\ wire.now[x] # WireNothing
        /\ wire.now[x] # v
        /\ wire' = [wire EXCEPT !.now[x] = v]

\* A command is read by the other side.
ReadFrame ==
    /\ wire # WireNothing
    /\ ~wire.read
    /\ wire' = [wire EXCEPT !.read = TRUE,
                            !.got = IF wire.sent["type"] = ActuatorCmd THEN Decode(wire.now)
                                    ELSE Parse(wire.now)]

WireNext == SendFrame \/ DamageFrame \/ ReadFrame

\* A frame that was damaged is refused, and one that was not is read as it was sent,
\* but for a command of the lowest or the highest priority, whose code the decoder
\* does not know (ipc_message.rs:331-338).
NoFrameIsMistaken ==
    (wire # WireNothing /\ wire.read) =>
        IF wire.now # wire.sent THEN wire.got = WireNothing
        ELSE \/ wire.got = wire.sent
             \/ wire.sent["type"] = ActuatorCmd /\ wire.sent["second"] \notin Priorities
=============================================================================
