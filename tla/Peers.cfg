SPECIFICATION Spec
CONSTANTS
    NumFloors = 3
    Elevators <- TwoElevators
    Pressed <- TwoCalls
    MaxTime = 1
    MaxPresses = 2
    MaxFaults = 1
INVARIANTS
    TypeOK
    TakenOver
    LostInTwoWays
CHECK_DEADLOCK FALSE
