SPECIFICATION FairSpec
CONSTANTS
    Fd <- MCFd
    MaxBytes = 2
    MaxNode = 2
    MaxCalls = 2
    Foreign = FALSE
CHECK_DEADLOCK FALSE
INVARIANTS
    NothingLost
    MemorySafe
PROPERTIES
    ImplementsStreams
    CloseCompletes
