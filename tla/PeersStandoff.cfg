SPECIFICATION Spec
CONSTANTS
    NumFloors = 3
    Elevators <- TwoElevators
    Pressed <- TwoCalls
    MaxTime = 0
    MaxPresses = 2
    MaxFaults = 0
INVARIANTS
    StatesSettleOwners
CHECK_DEADLOCK FALSE
