SPECIFICATION FairSpec
CONSTANTS
    NumFloors = 3
    Buttons <- TwoPerFloor
    HasPeers = FALSE
    MaxPresses = 1
    MaxStops = 0
    MaxToggles = 0
    MaxBackground = 0
    MaxCrashes = 1
PROPERTIES
    ElsewhereServed
CHECK_DEADLOCK FALSE
