SPECIFICATION Spec
CONSTANTS
    NumFloors = 2
    Buttons <- ThreeButtons
    MaxQueue = 3
INVARIANTS
    TypeOK
    CabCallsRecovered
PROPERTIES
    FileKeepsContract
