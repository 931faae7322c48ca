SPECIFICATION Spec
CONSTANTS
    ElevatorMessage <- SomeMessages
    BufferSize = 20
    MaxSent = 3
INVARIANTS
    HandledWereSent
PROPERTIES
    WholeReadsHandled
CHECK_DEADLOCK FALSE
