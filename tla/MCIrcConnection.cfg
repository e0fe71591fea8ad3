SPECIFICATION FairSpec
CONSTANTS
    Fd <- MCFd
    Reconnect = TRUE
    MaxQueue = 1
    MaxFailures = 1
    Tolerated = {}
CHECK_DEADLOCK FALSE
INVARIANTS
    MemorySafe
    OneSocket
PROPERTIES
    SilentServerDropped
    ClosedServerDropped
    Reconnects
