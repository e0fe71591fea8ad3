------------------------------ MODULE IrcStore ------------------------------
(***************************************************************************)
(* The user and channel storages of the IRC library                        *)
(* (src/irclib/irc_users.c, irc_channels.c) and the message handlers of    *)
(* irc_parser.c that change them.                                          *)
(*                                                                         *)
(* Three linked structures must agree.  The global user storage is a list  *)
(* of user records; the channel storage is a list of channels, each with   *)
(* its own list of members; a member points at a user record, and a user   *)
(* record lists the channels it is on.  A user record is identified by an  *)
(* element of Uid (its address), so that two records may carry the same    *)
(* nickname, as they may in the C program.  Lookups go by nickname and     *)
(* return the first match in list order.                                   *)
(*                                                                         *)
(* The network is modelled by what it may tell the bot: it reports only    *)
(* what happens in the channels the bot is on.  Everyone else connects,    *)
(* renames and quits unseen, at any time, so a nickname that is in no      *)
(* channel of the bot's may belong to anybody.                             *)
(***************************************************************************)
EXTENDS Naturals, Sequences, SequencesExt, FiniteSets

CONSTANTS
    Nick,       \* nicknames
    Channel,    \* channel names, already lower case (strtolower)
    Uid,        \* addresses a user record may have: the bound on live records
    Prefix,     \* user prefix modes of the server (PREFIX=(ov)@+ of 005)
    Bot,        \* nickname the bot is connected with
    NoNick,     \* nick of an address that holds no record
    NoPrefix    \* the ' ' stored for a member without a prefix

ASSUME StoreAssumption ==
    /\ Bot \in Nick
    /\ NoNick \notin Nick
    /\ NoPrefix \notin Prefix

VARIABLES
    store,      \* userStorage and channelStorage of the connection
    me,         \* connection->nickname
    roster,     \* network: who is on each of the bot's channels
    due,        \* network: who the replies 353 under way have still to name
    held,       \* network: the prefix modes held on each channel
    clashed     \* history: two records have carried one nickname

network == <<roster, due, held>>
vars == <<store, me, roster, due, held, clashed>>

-----------------------------------------------------------------------------
(* The storages and the C functions that change them.                      *)

Empty == [users   |-> <<>>,
          nick    |-> [u \in Uid |-> NoNick],
          chans   |-> [u \in Uid |-> {}],
          joined  |-> {},
          members |-> [c \in Channel |-> <<>>],
          prefix  |-> [c \in Channel |-> [u \in Uid |-> NoPrefix]]]

Live(s) == Range(s.users)

On(s, c) == Range(s.members[c])

\* The first record of a list that carries the nickname n.
Named(s, list, n) == {i \in DOMAIN list : s.nick[list[i]] = n}

First(s, list, n) ==
    list[CHOOSE i \in Named(s, list, n) : \A j \in Named(s, list, n) : i <= j]

\* ll_remove: a record is at most once in a list.
Without(list, u) == RemoveAt(list, CHOOSE i \in DOMAIN list : list[i] = u)

KnowsUser(s, n) == Named(s, s.users, n) # {}

FindUser(s, n) == First(s, s.users, n)

HasMember(s, c, n) == c \in s.joined /\ Named(s, s.members[c], n) # {}

FindMember(s, c, n) == First(s, s.members[c], n)

Free(s) == Uid \ Live(s)

AddUser(s, n) ==
    IF KnowsUser(s, n) THEN s
    ELSE LET u == CHOOSE v \in Free(s) : TRUE
         IN  [s EXCEPT !.users = Append(@, u), !.nick[u] = n]

\* What AddUser needs of the bounded set of addresses.
Room(s, n) == KnowsUser(s, n) \/ Free(s) # {}

AddChannel(s, c) == [s EXCEPT !.joined = @ \cup {c}]

AddChannelUser(s, c, n) ==
    IF c \notin s.joined THEN s
    ELSE IF HasMember(s, c, n)
    THEN [s EXCEPT !.prefix[c][FindMember(s, c, n)] = NoPrefix]
    ELSE LET t == AddUser(s, n)
             u == FindUser(t, n)
         IN  [t EXCEPT !.members[c] = Append(@, u),
                       !.chans[u] = @ \cup {c},
                       !.prefix[c][u] = NoPrefix]

\* Mutant: the member goes, its entry in the user's channel list stays.
RemoveChannelUserOneSided(s, c, n) ==
    IF ~HasMember(s, c, n) THEN s
    ELSE [s EXCEPT !.members[c] = Without(@, FindMember(s, c, n))]

RemoveChannelUser(s, c, n) ==
    IF ~HasMember(s, c, n) THEN s
    ELSE LET u == FindMember(s, c, n)
         IN  [s EXCEPT !.members[c] = Without(@, u),
                       !.chans[u] = @ \ {c},
                       !.prefix[c][u] = NoPrefix]

RemoveChannel(s, c) ==
    [s EXCEPT !.joined = @ \ {c},
              !.members[c] = <<>>,
              !.chans = [u \in Uid |-> IF u \in On(s, c) THEN @[u] \ {c} ELSE @[u]],
              !.prefix[c] = [u \in Uid |-> NoPrefix]]

\* Mutant: the record is freed and stays a member of its channels.
RemoveUserOnly(s, u) ==
    [s EXCEPT !.users = Without(@, u), !.nick[u] = NoNick, !.chans[u] = {}]

\* Takes the record out of the storage, then out of each of its channels: by
\* nickname, so the member that goes is the first one that carries it.
RemoveUser(s, u) ==
    LET gone(c) == FindMember(s, c, s.nick[u])
        left == {c \in s.chans[u] : HasMember(s, c, s.nick[u])}
    IN  [users   |-> Without(s.users, u),
         nick    |-> [s.nick EXCEPT ![u] = NoNick],
         chans   |-> [v \in Uid |-> IF v = u THEN {}
                                    ELSE s.chans[v] \ {c \in left : gone(c) = v}],
         joined  |-> s.joined,
         members |-> [c \in Channel |-> IF c \in left
                                        THEN Without(s.members[c], gone(c))
                                        ELSE s.members[c]],
         prefix  |-> [c \in Channel |-> IF c \in left
                                        THEN [s.prefix[c] EXCEPT ![gone(c)] = NoPrefix]
                                        ELSE s.prefix[c]]]

RenameUser(s, u, n) == [s EXCEPT !.nick[u] = n]

\* Mutant: a mode that is taken leaves the prefix as it was.
ChangePrefixOnlySet(s, c, n, p) ==
    IF HasMember(s, c, n) /\ p # NoPrefix
    THEN [s EXCEPT !.prefix[c][FindMember(s, c, n)] = p]
    ELSE s

ChangePrefix(s, c, n, p) ==
    IF HasMember(s, c, n) THEN [s EXCEPT !.prefix[c][FindMember(s, c, n)] = p]
                          ELSE s

-----------------------------------------------------------------------------
(* What goes wrong, as state functions of the storages.                    *)

\* A member entry whose user record has been freed: from here on the program
\* reads freed memory and the model says nothing more.
Dangling(s) == \E c \in Channel : ~(On(s, c) \subseteq Live(s))

\* Two records of the user storage carry one nickname.
Clash(s) == \E u, v \in Live(s) : u # v /\ s.nick[u] = s.nick[v]

-----------------------------------------------------------------------------
(* Network bookkeeping.                                                    *)

MyChannels == {c \in Channel : me \in roster[c]}

Visible(n) == n = me \/ \E c \in Channel : n \in roster[c]

\* n leaves the channels of cs.
Leave(n, cs) ==
    /\ roster' = [c \in Channel |-> IF c \in cs THEN roster[c] \ {n} ELSE roster[c]]
    /\ due' = [c \in Channel |-> IF c \in cs THEN due[c] \ {n} ELSE due[c]]
    /\ held' = [c \in Channel |-> IF c \in cs THEN held[c] \ ({n} \X Prefix)
                                              ELSE held[c]]

\* The bot leaves channel c and hears no more of it.
LeaveMyself(c) ==
    /\ roster' = [roster EXCEPT ![c] = {}]
    /\ due' = [due EXCEPT ![c] = {}]
    /\ held' = [held EXCEPT ![c] = {}]

\* The new value of store, and the history of clashes that goes with it.
Becomes(s) ==
    /\ store' = s
    /\ clashed' = (clashed \/ Clash(s))

-----------------------------------------------------------------------------
Init ==
    /\ store = Empty
    /\ me = Bot
    /\ roster = [c \in Channel |-> {}]
    /\ due = [c \in Channel |-> {}]
    /\ held = [c \in Channel |-> {}]
    /\ clashed = FALSE

\* PRIVMSG, NOTICE and every other message that only fills the user storage.
Message(n) ==
    /\ Room(store, n)
    /\ Becomes(AddUser(store, n))
    /\ UNCHANGED <<me, network>>

\* The bot's own JOIN; the others on the channel are named by 353 replies.
JoinMyself(c, others, modes) ==
    /\ c \notin MyChannels
    /\ Room(store, me)
    /\ Becomes(AddChannel(AddUser(store, me), c))
    /\ roster' = [roster EXCEPT ![c] = others \cup {me}]
    /\ due' = [due EXCEPT ![c] = others \cup {me}]
    /\ held' = [held EXCEPT ![c] = modes]
    /\ UNCHANGED me

\* One name of a 353 reply, its prefix symbol stripped before it is added.
NameReply(c, n) ==
    /\ n \in due[c]
    /\ Room(store, n)
    /\ Becomes(AddChannelUser(store, c, n))
    /\ due' = [due EXCEPT ![c] = @ \ {n}]
    /\ UNCHANGED <<me, roster, held>>

Join(c, n) ==
    /\ c \in MyChannels /\ n \notin roster[c]
    /\ Room(store, n)
    /\ Becomes(AddChannelUser(AddUser(store, n), c, n))
    /\ roster' = [roster EXCEPT ![c] = @ \cup {n}]
    /\ UNCHANGED <<me, due, held>>

Part(c, n) ==
    /\ n \in roster[c] /\ n # me
    /\ Room(store, n)
    /\ Becomes(RemoveChannelUser(AddUser(store, n), c, n))
    /\ Leave(n, {c})
    /\ UNCHANGED me

PartMyself(c) ==
    /\ c \in MyChannels
    /\ Room(store, me)
    /\ Becomes(RemoveChannel(AddUser(store, me), c))
    /\ LeaveMyself(c)
    /\ UNCHANGED me

\* Mutant: the one who kicks is taken off the channel.
KickTheKicker(c, n, by) ==
    /\ n \in roster[c] /\ n # me
    /\ Room(store, by)
    /\ Becomes(RemoveChannelUser(AddUser(store, by), c, by))
    /\ Leave(n, {c})
    /\ UNCHANGED me

\* by may be a server or a service, which is on no channel.
Kick(c, n, by) ==
    /\ n \in roster[c] /\ n # me
    /\ Room(store, by)
    /\ Becomes(RemoveChannelUser(AddUser(store, by), c, n))
    /\ Leave(n, {c})
    /\ UNCHANGED me

KickMyself(c, by) ==
    /\ c \in MyChannels
    /\ Room(store, by)
    /\ Becomes(RemoveChannel(AddUser(store, by), c))
    /\ LeaveMyself(c)
    /\ UNCHANGED me

\* NICK of the bot or of somebody on its channels.  The network gives out a
\* nickname once; whoever carried new unseen has gone unseen.
ChangeNick(n, new) ==
    /\ Visible(n) /\ ~Visible(new)
    /\ Room(store, n)
    /\ LET s == AddUser(store, n)
       IN  Becomes(RenameUser(s, FindUser(s, n), new))
    /\ me' = IF n = me THEN new ELSE me
    /\ LET swap(names) == IF n \in names THEN (names \ {n}) \cup {new} ELSE names
       IN  /\ roster' = [c \in Channel |-> swap(roster[c])]
           /\ due' = [c \in Channel |-> swap(due[c])]
           /\ held' = [c \in Channel |->
                        {h \in held[c] : h[1] # n}
                        \cup {<<new, p>> : p \in {q \in Prefix : <<n, q>> \in held[c]}}]

Quit(n) ==
    /\ Visible(n) /\ n # me
    /\ Room(store, n)
    /\ LET s == AddUser(store, n) IN Becomes(RemoveUser(s, FindUser(s, n)))
    /\ Leave(n, Channel)
    /\ UNCHANGED me

\* MODE +p / -p of a user prefix.
GiveMode(c, n, p, by) ==
    /\ n \in roster[c] /\ <<n, p>> \notin held[c]
    /\ Room(store, by)
    /\ Becomes(ChangePrefix(AddUser(store, by), c, n, p))
    /\ held' = [held EXCEPT ![c] = @ \cup {<<n, p>>}]
    /\ UNCHANGED <<me, roster, due>>

TakeMode(c, n, p, by) ==
    /\ n \in roster[c] /\ <<n, p>> \in held[c]
    /\ Room(store, by)
    /\ Becomes(ChangePrefix(AddUser(store, by), c, n, NoPrefix))
    /\ held' = [held EXCEPT ![c] = @ \ {<<n, p>>}]
    /\ UNCHANGED <<me, roster, due>>

\* irclib_shutdown: both storages are cleared, and the bot is on no channel.
Shutdown ==
    /\ store # Empty
    /\ store' = Empty
    /\ clashed' = FALSE
    /\ roster' = [c \in Channel |-> {}]
    /\ due' = [c \in Channel |-> {}]
    /\ held' = [c \in Channel |-> {}]
    /\ UNCHANGED me

Next ==
    /\ ~Dangling(store)
    /\ \/ \E n \in Nick : Message(n) \/ Quit(n)
       \/ \E c \in Channel, others \in SUBSET (Nick \ {me}) :
            \E modes \in SUBSET ((others \cup {me}) \X Prefix) :
                JoinMyself(c, others, modes)
       \/ \E c \in Channel, n \in Nick : NameReply(c, n) \/ Join(c, n) \/ Part(c, n)
       \/ \E c \in Channel : PartMyself(c)
       \/ \E c \in Channel, n, by \in Nick : Kick(c, n, by)
       \/ \E c \in Channel, by \in Nick : KickMyself(c, by)
       \/ \E n, new \in Nick : ChangeNick(n, new)
       \/ \E c \in Channel, n, by \in Nick, p \in Prefix :
            GiveMode(c, n, p, by) \/ TakeMode(c, n, p, by)
       \/ Shutdown

Spec == Init /\ [][Next]_vars

-----------------------------------------------------------------------------
(* Properties.                                                             *)

Storage == [users   : Seq(Uid),
            nick    : [Uid -> Nick \cup {NoNick}],
            chans   : [Uid -> SUBSET Channel],
            joined  : SUBSET Channel,
            members : [Channel -> Seq(Uid)],
            prefix  : [Channel -> [Uid -> Prefix \cup {NoPrefix}]]]

\* What the C functions keep true of the storages, one conjunct per list: the
\* inductive strengthening that the proofs use.
Linked(s) == \A u \in Live(s) : s.chans[u] = {c \in s.joined : u \in On(s, c)}

WellFormed(s) ==
    /\ s \in Storage
    /\ \A u \in Uid : u \in Live(s) <=> s.nick[u] # NoNick
    /\ IsInjective(s.users)
    /\ \A c \in Channel : IsInjective(s.members[c])
    /\ \A c \in Channel \ s.joined : s.members[c] = <<>>
    /\ \A u \in Uid \ Live(s) : s.chans[u] = {}
    /\ Linked(s)

NetworkTypeOK ==
    /\ me \in Nick
    /\ roster \in [Channel -> SUBSET Nick]
    /\ due \in [Channel -> SUBSET Nick]
    /\ held \in [Channel -> SUBSET (Nick \X Prefix)]

IInv ==
    /\ WellFormed(store)
    /\ NetworkTypeOK
    /\ clashed \in BOOLEAN
    /\ ~clashed => ~Clash(store) /\ ~Dangling(store)

\* A member of channel c has nickname n and prefix p.
Entry(s, c, n, p) == \E u \in On(s, c) : s.nick[u] = n /\ s.prefix[c][u] = p

\* What ties the storages to the network, the inductive strengthening for
\* MembersTracked and PrefixSound: the entries of a channel are of those who are
\* there, whoever is there and has no entry has still to be named, and of a
\* channel that the bot is not on it remembers nobody.
Follows ==
    /\ store.joined = MyChannels
    /\ \A c \in Channel : due[c] \subseteq roster[c]
    /\ \A c \in Channel \ MyChannels : roster[c] = {}
    /\ ~clashed => \A c \in Channel :
         /\ \A n \in Nick, p \in Prefix \cup {NoPrefix} : Entry(store, c, n, p) =>
               n \in roster[c] /\ (p # NoPrefix => <<n, p>> \in held[c])
         /\ \A n \in roster[c] \ due[c] :
               \E p \in Prefix \cup {NoPrefix} : Entry(store, c, n, p)

\* Type invariant of the storages and of the network's bookkeeping: the list of
\* users holds the records in use and no freed one.
TypeOK ==
    /\ store \in Storage
    /\ \A u \in Uid : u \in Live(store) <=> store.nick[u] # NoNick
    /\ NetworkTypeOK
    /\ clashed \in BOOLEAN

\* A user's personal channel list names exactly the joined channels that have
\* the user as a member, whatever was renamed, kicked or removed by nickname:
\* irclib_remove_user frees the memberships that this list leads to.
BackLinks == Linked(store)

\* The userinfo of every member points into the user storage, as the comment
\* of sIRCLib_ChannelUser says.  The code breaks this.
NoDangling == ~Dangling(store)

\* As long as no two records have carried one nickname, no member points at a
\* freed record: removing a user by nickname then removes that very user from
\* every channel.
NoDanglingUnclashed == ~clashed => ~Dangling(store)

\* The channel storage follows the network: the bot has exactly the channels it
\* is on, in which it has nobody who has left, been kicked, quit or changed
\* nickname, and misses nobody but those that a 353 reply has still to name.
MembersTracked ==
    /\ store.joined = MyChannels
    /\ ~clashed => \A c \in Channel :
         LET names == {store.nick[u] : u \in On(store, c)}
         IN  names \subseteq roster[c] /\ roster[c] \subseteq names \cup due[c]

\* A prefix recorded for a member is one that member really holds: it does not
\* survive a part, a kick, a quit or a MODE that takes it, nor pass to whoever
\* takes the nickname next.
PrefixSound ==
    ~clashed => \A c \in Channel : \A u \in On(store, c) :
        store.prefix[c][u] # NoPrefix =>
            <<store.nick[u], store.prefix[c][u]>> \in held[c]
=============================================================================
