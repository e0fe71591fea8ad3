SPECIFICATION MCSpec
CONSTANTS
    Nick = {"bot", "n", "w"}
    Channel = {"#a", "#b"}
    Uid = {1, 2}
    Prefix = {}
    Bot = "bot"
    NoNick = "nobody"
    NoPrefix = " "
    Typed <- MCTyped
    Value <- MCMeaning
    Pad <- MCPad
    Lower <- MCLower
CHECK_DEADLOCK FALSE
INVARIANTS
    SavedIsLoaded
    CutFileHarmless
    GivenByUser
    HeardAsMeant
    SeenRight
PROPERTIES
    ImplementsGlossary
