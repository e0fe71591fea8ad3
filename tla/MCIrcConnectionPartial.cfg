SPECIFICATION FairSpec
CONSTANTS
    Fd <- MCFd
    Reconnect = TRUE
    MaxQueue = 1
    MaxFailures = 1
    Tolerated = {"partial line"}
CHECK_DEADLOCK FALSE
PROPERTIES
    SilentServerDropped
