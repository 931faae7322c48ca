SPECIFICATION Spec
CONSTANTS
    Threads = {"main", "listener", "monitor", "reconnection"}
    Role <- EachItsRole
INVARIANTS
    TypeOK
    NoCircularWait
    MapIsNeverHeldUp
