SPECIFICATION Spec
CONSTANTS
    Fd <- MCFd
    MaxBytes = 2
    MaxNode = 2
    MaxCalls = 2
    Foreign = TRUE
CHECK_DEADLOCK FALSE
INVARIANTS
    MemorySafe
