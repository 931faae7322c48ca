SPECIFICATION Spec
CONSTANTS
    NumFloors = 3
    Buttons <- MixedButtons
    HasPeers = TRUE
    MaxPresses = 2
    MaxStops = 1
    MaxToggles = 1
    MaxBackground = 1
    MaxCrashes = 1
INVARIANTS
    TypeOK
    NoDuplicateCalls
    CabCallsSurvive
    MotorFollowsDirection
    CabCallTaken
    RunsOpenOnlyInWait
PROPERTIES
    KeepsDirection
CHECK_DEADLOCK FALSE
