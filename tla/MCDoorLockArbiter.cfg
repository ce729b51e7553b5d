\* The arbiter with reboots: safety, the promise to the motor, and progress.
SPECIFICATION FairSpec
CONSTANTS
    Features <- MCFeatures
    AllowList <- MCAllowList
    Submittable <- MCSubmittable
    CrashUnlock <- Crash
    None = None
    Ack = Ack
    KeyfobRke = KeyfobRke
    AutoRelock = AutoRelock
    Drl = Drl
    Crash = Crash
    CmdCap = 3
    AckCap = 1
    LockoutTicks = 2
    MaxEventNum = 4
INVARIANTS
    LastAcceptedWins
PROPERTIES
    ImplementsLockMotor
    CrashIsServed
