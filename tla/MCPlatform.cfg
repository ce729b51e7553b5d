SPECIFICATION MCSpec

CONSTANTS
    NvmFiles = {"trunk"}
    ConfigFiles = {"vehicle_line", "variant"}
    Clients = {"hmi", "tablet"}
    Savers = {"plant", "hmi", "tablet"}
    None = None
    Torn = Torn
    Inputs = {"lux"}
    Outputs = {"trunkOpen", "armed"}
    Essential = {"trunkOpen", "armed"}
    PlantFile = "trunk"
    PlantSignal = "trunkOpen"
    BootSignal = "armed"
    Aliases <- OldNames
    Room = 2
    Numbers = {3, 70000}
    WireNothing = WireNothing
    MaxBackoff = 4
    MaxClaims = 3
    MaxHold = 2
    Interval = 2
    Publishers = {p1}
    Subscribers = {s1, s2}
    Capacity = 2
    MaxValues = 5
    Teams <- AllTeams

INVARIANTS
    NoTornFile
    EditReachesBoot
    OldConnectionsClose
    ClientsConverge
    ConfigViewsConverge
    StuckClaimsExpire
    NoFrameIsMistaken
    DrainedSeesLatest
    NeverOlderThanAsked

CHECK_DEADLOCK FALSE
