SPECIFICATION FairSpec
CONSTANTS
    NumFloors = 3
    Buttons <- MixedButtons
    HasPeers = FALSE
    MaxPresses = 1
    MaxStops = 0
    MaxToggles = 1
    MaxBackground = 0
    MaxCrashes = 0
PROPERTIES
    LeverHalts
CHECK_DEADLOCK FALSE
