\* The ignition comes on in an unlocked vehicle.
SPECIFICATION LockSpec
CONSTANTS
    Features <- MCFeatures
    AllowList <- MCAllowList
    Submittable <- MCRequests
    Doors <- MCDoors
    HmiCommands <- MCNone
    CrashUnlock <- Crash
    DoubleLockRelease <- DLR
    DriverDoor <- Left
    None = None
    Ack = Ack
    KeyfobRke = KeyfobRke
    Crash = Crash
    DLR = DLR
    Left = Left
    Right = Right
    MaxUpsets = 0
    Ignition = TRUE
    Reboots = FALSE
    CmdCap = 1
    AckCap = 1
    LockoutTicks = 1
    MaxEventNum = 2
    EchoCap = 2
    SwcCap = 2
    PowerCap = 1
INVARIANTS
    LockedMeansLocked
