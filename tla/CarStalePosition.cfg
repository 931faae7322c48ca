SPECIFICATION Spec
CONSTANTS
    NumFloors = 3
    Buttons <- MixedButtons
    HasPeers = TRUE
    MaxPresses = 3
    MaxStops = 0
    MaxToggles = 0
    MaxBackground = 1
    MaxCrashes = 0
INVARIANTS
    NextIndexIsNextCall
CHECK_DEADLOCK FALSE
