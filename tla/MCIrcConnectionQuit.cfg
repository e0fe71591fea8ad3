SPECIFICATION Spec
CONSTANTS
    Fd <- MCFd
    Reconnect = TRUE
    MaxQueue = 1
    MaxFailures = 1
    Tolerated = {"quit unheard"}
CHECK_DEADLOCK FALSE
INVARIANTS
    MemorySafe
