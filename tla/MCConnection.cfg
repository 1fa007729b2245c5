SPECIFICATION Spec
CONSTANTS
    MaxQueue = 3
    AsioThrows = TRUE
INVARIANTS
    TypeOK
    ReleasedOnce
    OneWriteOutstanding
    NeverForgotten
PROPERTIES
    WritesEnd
CHECK_DEADLOCK FALSE
