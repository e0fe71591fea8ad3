SPECIFICATION Spec
CONSTANTS
    c1 = c1
    bot = bot
    n1 = n1
    n2 = n2
    n3 = n3
    Nick = {bot, n1, n2, n3}
    Channel = {c1}
    Uid = {1, 2, 3, 4, 5}
    Prefix = {}
    Bot = bot
    NoNick = NoNick
    NoPrefix = NoPrefix
SYMMETRY Symmetry
CHECK_DEADLOCK FALSE
INVARIANTS
    NoDangling
