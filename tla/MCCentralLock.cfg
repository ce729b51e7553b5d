\* Two doors, echoes before commands; the ignition, the HMI and reboots.
SPECIFICATION LockSpec
CONSTANTS
    Features <- MCFeatures
    AllowList <- MCAllowList
    Submittable <- MCRequests
    Doors <- MCDoors
    HmiCommands <- MCHmi
    CrashUnlock <- Crash
    DoubleLockRelease <- DLR
    DriverDoor <- Left
    None = None
    Ack = Ack
    KeyfobRke = KeyfobRke
    Crash = Crash
    DLR = DLR
    Left = Left
    Right = Right
    MaxUpsets = 1
    Ignition = TRUE
    Reboots = TRUE
    CmdCap = 1
    AckCap = 1
    LockoutTicks = 1
    MaxEventNum = 2
    EchoCap = 2
    SwcCap = 1
    PowerCap = 1
INVARIANTS
    DoorsFollowStatus
    NoSuperlockOnceOpen
