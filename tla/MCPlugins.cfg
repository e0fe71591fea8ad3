SPECIFICATION MCSpec
CONSTANTS
    Name <- MCName
    NoName = NoName
    Dir <- MCDir
    Deps <- MCDeps
    StartsWith <- MCStartsWith
    Broken = {"keepnick_old"}
    Invalid = {}
    TelListener = {"telnet_commands", "users"}
    IrcListener = {"autojoin", "seen", "users"}
    Timed = {"keepnick"}
    Telnet = "telnet"
    Commander = "telnet_commands"
    Asked = {"keepnick", "keepnick_old", "seen"}
    MaxDepth = 8
    Timeout = {1, 2}
    MaxTimers = 3
    MaxTime = 4
    Autojoin <- MCAutojoin
    NickLen = 1
    MaxTrouble = 4
    MaxFlight = 3
    Span = 2
    MaxPiv = 2
    MaxClock = 5
    Nick = {"a", "b"}
    None = "nobody"
    MaxMinutes = 1
    MaxFlood = 33
    MaxFrogs = 1
CHECK_DEADLOCK FALSE
INVARIANTS
    ListSound
    MemorySafe
    DepsLoaded
    Registered
    NotTooEarly
    NeverLate
    NickAgreed
    DrinksBounded
    FrogQuiet
    KissEarned
PROPERTIES
    LoaderReturns
    SessionComesHome
