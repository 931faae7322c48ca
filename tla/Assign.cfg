SPECIFICATION Spec
CONSTANTS
    NumFloors = 3
    Elevators <- TwoElevators
    MaxQueue = 2
INVARIANTS
    TypeOK
    FreeBeforeObstructed
    Agreement
    NearestIdle
CHECK_DEADLOCK FALSE
