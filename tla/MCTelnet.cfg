SPECIFICATION MCSpec
CONSTANTS
    Client = {c1, c2}
    Fd = {1, 2}
    Line <- MCLine
    None = None
    Letter = {97, 68}
    Size = {80}
    MaxTyped = 4
    MaxWire = 10
CHECK_DEADLOCK FALSE
INVARIANTS
    Coherent
    NoDeadDescriptor
    MemorySafe
    LoggedIn
    Understood
    ScreenShowsLine
PROPERTIES
    ServiceQuitCompletes
