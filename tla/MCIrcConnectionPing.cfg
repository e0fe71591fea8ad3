SPECIFICATION Spec
CONSTANTS
    Fd <- MCFd
    Reconnect = TRUE
    MaxQueue = 1
    MaxFailures = 1
    Tolerated = {}
CHECK_DEADLOCK FALSE
INVARIANTS
    PingBeforeStoned
