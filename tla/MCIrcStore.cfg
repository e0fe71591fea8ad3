SPECIFICATION MCSpec
CONSTANTS
    c1 = c1
    c2 = c2
    bot = bot
    n1 = n1
    n2 = n2
    o = o
    Nick = {bot, n1, n2}
    Channel = {c1, c2}
    Uid = {1, 2, 3}
    Prefix = {o}
    Bot = bot
    NoNick = NoNick
    NoPrefix = NoPrefix
SYMMETRY Symmetry
CHECK_DEADLOCK FALSE
INVARIANTS
    BackLinks
    NoDanglingUnclashed
    MembersTracked
    PrefixSound
