\* A crash in a car whose ignition has come on since it booted.
SPECIFICATION Spec
CONSTANTS
    External = {KeyfobRke}
    Internal = {DoorTrimButton}
    Doors = {Left}
    None = None
    Timeout = 2
    Budget = 6
    Prompt = TRUE
    KeepsUp = TRUE
CHECK_DEADLOCK FALSE
PROPERTIES
    NoRelockAfterCrash
