\* A gated lamp, two features at one priority and one above them; a motor with
\* a configured default, whose publishes may fail.
SPECIFICATION FairSpec
CONSTANTS
    Welcome = Welcome
    Farewell = Farewell
    PerimeterAlarm = PerimeterAlarm
    PowerWindow = PowerWindow
    Puddle = Puddle
    Motor = Motor
    Features = {Welcome, Farewell, PerimeterAlarm, PowerWindow}
    Signals = {Puddle, Motor}
    AllowList <- MCAllowList
    Gated = {Puddle}
    Configured = {Motor}
    Off <- MCOff
    Values = {"true", "false", "STOPPED", "UP"}
    Unset = Unset
    Submittable <- MCSubmittable
    Gate = Gate
    Release = Release
    MaxPriority = 4
    ChanCap = 2
    GateCap = 2
    MaxSeq = 4
    Fallible = {Motor}
INVARIANT DeliversWants
PROPERTY GatesAreObeyed
