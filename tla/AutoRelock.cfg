\* The feature keeps up with its streams; one requestor of each kind.
SPECIFICATION FairSpec
CONSTANTS
    External = {KeyfobRke}
    Internal = {DoorTrimButton}
    Doors = {Left}
    None = None
    Timeout = 2
    Budget = 6
    Prompt = TRUE
    KeepsUp = TRUE
CHECK_DEADLOCK FALSE
INVARIANTS
    ArmedByExternalUnlock
PROPERTIES
    NoRelockWithDoorOpen
    LockoutTakesCycle
    RelockHappens
