SPECIFICATION Spec

CONSTANTS
    Fobs = {"fob"}
    Phones = {"phone"}
    Paired = {"fob", "phone"}
    None = None
    Patience = 1
    Debounce = 2
    WarningTime = 2
    Period = 3
    MaxMissed = 2
    AnswerTime = 1
    StageWindow = 2
    WindowNormal = 2
    WindowResync = 6
    ResyncRequired = 3
    PressWindow = 2
    ComboWindow = 1
    InversionDelay = 1
    PressHold = 1
    BypassWindow = 2
    PeriodNormal = 2
    PeriodDefect = 1
    FlashCount = 3
    LeadIn = 1
    FlashOn = 2
    Gap = 1
    Honk = 1
    LockChime = 1
    WelcomeHold = 3
    PollFast = 1
    PollSlow = 2
    ArmWindow = 2
    FarewellHold = 1
    HomeTime = 2
    Accessory = 2
    Dark = 1
    PressAt = 5
    ReleaseAt = 2
    StuckTime = 2
    Travel = 2
    FullPct = 3
    Settle = 1
    Reach = 1
    PullWindow = 1
    Teams <- ChildTeams

PROPERTIES
    ChildLockHolds

CHECK_DEADLOCK FALSE
