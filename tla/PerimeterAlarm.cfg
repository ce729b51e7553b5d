\* Both alarms, with the arbiter's commands, doors, presses and the ignition: the owner's fob,
\* the trim button, and SlamLock, which arms without being able to disarm.
SPECIFICATION FairSpec
CONSTANTS
    Requestors = {KeyfobRke, DoorTrimButton, SlamLock}
    AuthSources = {KeyfobRke}
    Internal = {DoorTrimButton}
    Trusted = {KeyfobRke, SlamLock}
    None = None
    GraceTicks = 1
    ChimeTicks = 2
    HornTicks = 2
    LightTicks = 4
    Budget = 4
CHECK_DEADLOCK FALSE
INVARIANTS
    NothingLeftOn
    NeverAwaitsRunningAlarm
    LockedIsWatched
    OwnerIsNotAlarmed
PROPERTIES
    GraceIsKept
    AlarmEnds
