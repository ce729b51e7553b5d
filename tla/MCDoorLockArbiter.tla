------------------------- MODULE MCDoorLockArbiter -------------------------
(* Values for model checking DoorLockArbiter. *)
EXTENDS DoorLockArbiter

CONSTANTS KeyfobRke, AutoRelock, Drl, Crash

MCFeatures  == {KeyfobRke, AutoRelock, Drl, Crash}
MCAllowList == {KeyfobRke, AutoRelock, Crash}

Req(f, c) == [feature |-> f, command |-> c]

\* The fob locks and unlocks, a relock comes in between, a feature without
\* permission tries, and a crash opens the doors.
MCSubmittable ==
    {Req(KeyfobRke, "UnlockDriver"), Req(KeyfobRke, "DoubleLockAll"),
     Req(KeyfobRke, "LockAll"), Req(AutoRelock, "LockAll"), Req(Drl, "LockAll"), Req(Crash, "UnlockAll")}
=============================================================================
