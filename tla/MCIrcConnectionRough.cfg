SPECIFICATION Spec
CONSTANTS
    Fd <- MCTwoFd
    Reconnect = TRUE
    MaxQueue = 1
    MaxFailures = 0
    Tolerated <- MCHardships
CHECK_DEADLOCK FALSE
INVARIANTS
    Watched
PROPERTIES
    StaysQuit
