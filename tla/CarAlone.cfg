SPECIFICATION FairSpec
CONSTANTS
    NumFloors = 3
    Buttons <- TwoPerFloor
    HasPeers = FALSE
    MaxPresses = 4
    MaxStops = 1
    MaxToggles = 1
    MaxBackground = 0
    MaxCrashes = 0
INVARIANTS
    InShaft
    HeadingToCall
    LampsShowCalls
    OwnedCallsQueued
PROPERTIES
    ServedAtItsFloor
    ElsewhereServed
CHECK_DEADLOCK FALSE
