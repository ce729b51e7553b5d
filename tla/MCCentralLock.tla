--------------------------- MODULE MCCentralLock ---------------------------
(* Values for model checking CentralLock: two doors, the fob, the release. *)
EXTENDS CentralLock

CONSTANTS KeyfobRke, Crash, DLR, Left, Right

MCFeatures  == {KeyfobRke, Crash, DLR}
MCAllowList == MCFeatures
MCDoors     == {Left, Right}
MCOneDoor   == {Left}

Req(f, c) == [feature |-> f, command |-> c]

\* What the fob asks for, with two-stage unlocking.
MCRequests ==
    {Req(KeyfobRke, "LockAll"), Req(KeyfobRke, "UnlockAll"),
     Req(KeyfobRke, "DoubleLockAll"), Req(KeyfobRke, "UnlockDriver")}

MCNone == {}
MCHmi  == {"DoubleLockAll", "ReleaseDouble"}
=============================================================================
