SPECIFICATION FairSpec
CONSTANTS
    NumFloors = 2
    Me = "1"
    Peers = {"2"}
    Pressed <- BothCalls
    MaxTime = 1
    Limit <- TwoPresses
    MaxOperations = 4
INVARIANTS
    TypeOK
    Attended
    OwnedIsQueued
    QueuedIsLit
    PositionHolds
PROPERTIES
    Owned
CHECK_DEADLOCK FALSE
