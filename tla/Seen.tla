-------------------------------- MODULE Seen --------------------------------
(***************************************************************************)
(* The plugin seen: it writes down who joined, parted and quit, and        *)
(* answers where somebody is or was last seen.  It stands between two      *)
(* memories: the storages of the library, which a PART or QUIT changes     *)
(* after the event has been fired, and a database of its own, which        *)
(* survives the connection.  It does not listen to KICK and NICK.          *)
(***************************************************************************)
EXTENDS IrcStore

VARIABLES
    db,         \* the row of each nickname: what it did last, and where
    gone,       \* history: how each nickname was last seen to leave, if by PART or QUIT
    missed      \* history: nicknames that have left in another way since

seenVars == <<vars, db, gone, missed>>

NoRow == [action |-> "none", channel |-> {}]
Row(action, channel) == [action |-> action, channel |-> {channel}]

SeenInit ==
    /\ Init
    /\ db = [n \in Nick |-> NoRow]
    /\ gone = [n \in Nick |-> NoRow]
    /\ missed = {}

\* updateLastSeen
UpdateLastSeen(n, row) == db' = [db EXCEPT ![n] = row]

\* The channels of the record that irclib_find_user finds.
ChannelsOf(s, n) == IF KnowsUser(s, n) THEN s.chans[FindUser(s, n)] ELSE {}

Sighted(n) == {c \in Channel : n \in roster[c]}

\* Of these, the channels of which the bot has been told so.
Told(n) == {c \in Channel : n \in roster[c] \ due[c]}

\* n parts c and is not known to be elsewhere.
Parted(c, n) ==
    /\ gone' = IF Told(n) \subseteq {c} THEN [gone EXCEPT ![n] = Row("part", c)] ELSE gone
    /\ missed' = IF Sighted(n) = {c} THEN missed \ {n} ELSE missed

-----------------------------------------------------------------------------
(* The handlers, with the message that fires their event.                  *)

SeenJoin(c, n) ==
    /\ Join(c, n) /\ n # me
    /\ UpdateLastSeen(n, Row("is on", c))
    /\ UNCHANGED <<gone, missed>>

\* Mutant: the part is what counts, also of one who is on another channel.
SeenPartAlways(c, n) ==
    /\ Part(c, n)
    /\ UpdateLastSeen(n, Row("part", c))
    /\ Parted(c, n)

\* onpart is fired while the member is still on the channel.
SeenPart(c, n) ==
    /\ Part(c, n)
    /\ LET others == ChannelsOf(AddUser(store, n), n) \ {c}
       IN  \/ others = {} /\ UpdateLastSeen(n, Row("part", c))
           \/ \E d \in others : UpdateLastSeen(n, Row("is on", d))
    /\ Parted(c, n)

\* onquited is fired while the record still has its channels; with none, the row
\* keeps the channel it had.
SeenQuit(n) ==
    LET channels == ChannelsOf(AddUser(store, n), n)
    IN  /\ Quit(n)
        /\ \/ channels = {} /\ UpdateLastSeen(n, [db[n] EXCEPT !.action = "quit"])
           \/ \E c \in channels : UpdateLastSeen(n, Row("quit", c))
        /\ gone' = [gone EXCEPT ![n] =
                      [action |-> "quit",
                       channel |-> IF channels = {} THEN db[n].channel ELSE Sighted(n)]]
        /\ missed' = missed \ {n}

\* What the plugin does not listen to.
Unseen ==
    /\ \/ \E n \in Nick : Message(n)
       \/ \E c \in Channel, others \in SUBSET (Nick \ {me}) : JoinMyself(c, others, {})
       \/ \E c \in Channel, n \in Nick : NameReply(c, n) \/ Kick(c, n, me)
       \/ \E c \in Channel : PartMyself(c) \/ KickMyself(c, me)
       \/ \E n \in Nick \ {me}, new \in Nick : ChangeNick(n, new)
       \/ Shutdown
    /\ missed' = missed \cup {n \in Nick : Sighted(n) # {} /\ \A c \in Channel : n \notin roster'[c]}
    /\ UNCHANGED <<db, gone>>

\* Bound: nothing follows once two records have carried one nickname.
SeenNext ==
    /\ ~clashed
    /\ \/ \E c \in Channel, n \in Nick : SeenJoin(c, n) \/ SeenPart(c, n)
       \/ \E n \in Nick : SeenQuit(n)
       \/ Unseen

SeenSpec == SeenInit /\ [][SeenNext]_seenVars

-----------------------------------------------------------------------------
\* seen_command: what may be answered to one who asks for n.  The storages come
\* first; "should be on" is the answer of which the code says it should not
\* happen: the row has n on a channel where the storages do not.
Answers(n) ==
    IF ChannelsOf(store, n) # {} THEN {Row("is on", c) : c \in ChannelsOf(store, n)}
    ELSE IF db[n].action = "is on" THEN {[db[n] EXCEPT !.action = "should be on"]}
    ELSE {db[n]}

\* Two memories, one truth: whoever has been named on a channel is said to be
\* there, nobody is said to be where he is not, a PART or QUIT that is told was
\* the last one and from a channel he was on, and one who has left so is told
\* of, however the events and the removals after them mixed on many channels.
SeenRight ==
    ~clashed =>
        \A n \in Nick \ {me} : \A a \in Answers(n) :
            /\ a.action = "is on" => a.channel \subseteq Sighted(n)
            /\ Told(n) # {} => a.action = "is on"
            /\ a.action \in {"part", "quit"} =>
                 a.action = gone[n].action /\ a.channel \subseteq gone[n].channel
            /\ Sighted(n) = {} /\ a.action = "should be on" => n \in missed
            /\ Sighted(n) = {} /\ a.action = "none" => n \in missed \/ gone[n] = NoRow
=============================================================================
