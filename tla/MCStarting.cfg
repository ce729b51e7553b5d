\* Push-button and cylinder start: one key, other features that search, taps.
SPECIFICATION FairSpec
CONSTANTS
    Keys = {fob}
    None = None
    Window = 1
    Sources = {"Peps", "KeyCylinder"}
    OtherScans <- MCScans
    HoldTicks = 1
    BypassTicks = 13
    Places <- MCPlaces
    Budget <- MCBudget
CHECK_DEADLOCK FALSE
INVARIANTS
    LockedCarIsParked
PROPERTIES
    NoPowerWithoutKey
    NoKeyIsOverlooked
    SearchIsAnswered
