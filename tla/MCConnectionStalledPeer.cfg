SPECIFICATION Spec
CONSTANTS
    MaxQueue = 1
    AsioThrows = FALSE
PROPERTIES
    SocketCloses
CHECK_DEADLOCK FALSE
