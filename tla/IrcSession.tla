----------------------------- MODULE IrcSession -----------------------------
(***************************************************************************)
(* The bot's own name and its channels: what irc_parser.c makes of the     *)
(* replies 433 and 376 and of the bot's own NICK, JOIN and KICK, with the  *)
(* plugins keepnick (asks for the configured name again) and autojoin      *)
(* (joins the configured channels, and again after a kick).                *)
(*                                                                         *)
(* The bot and the server exchange messages over two queues.  A name is    *)
(* one of Base with a number of "_" appended; the server cuts names after  *)
(* NickLen of them.  The library never asks what name it was given: it     *)
(* takes the one it sent for its own until a NICK message tells otherwise. *)
(***************************************************************************)
EXTENDS Naturals, Sequences, SequencesExt

CONSTANTS
    Autojoin,     \* autojoin:channel, in the order of the configuration
    NickLen,      \* "_" that the server keeps of a name
    MaxTrouble,   \* bound: steps of others against the bot
    MaxFlight     \* bound: messages under way when keepnick adds one

ASSUME SessionAssumption ==
    /\ NickLen \in Nat /\ MaxTrouble \in Nat /\ MaxFlight \in Nat \ {0}
    /\ Autojoin \in Seq(Range(Autojoin))

VARIABLES
    status,     \* connection->status
    nickname,   \* connection->nickname
    known,      \* channels of connection->channelStorage
    toServer,   \* commands under way to the server
    toBot,      \* messages under way to the bot
    name,       \* server: the name the bot goes by, or Nobody
    on,         \* server: the channels that the bot is on
    taken,      \* server: the names that others have
    trouble     \* steps taken against the bot so far

bot == <<status, nickname, known>>
server == <<name, on, taken>>
sessionVars == <<bot, toServer, toBot, server, trouble>>

\* The configured name (irc:nickname), one that a service gives, and none.
Target == [base |-> "bot", tail |-> 0]
Guest == [base |-> "guest", tail |-> 0]
Nobody == [base |-> "nobody", tail |-> 0]

AnyName == [base : {"bot", "guest"}, tail : 0..NickLen]

Cut(n) == IF n.tail > NickLen THEN [n EXCEPT !.tail = NickLen] ELSE n

\* The name is longer than the server allows: it knows the bot by another.
TooLong == nickname.tail > NickLen

-----------------------------------------------------------------------------
SessionInit ==
    /\ status = "DISCONNECTED" /\ nickname = Target /\ known = {}
    /\ toServer = <<>> /\ toBot = <<>>
    /\ name = Nobody /\ on = {} /\ taken \in SUBSET {Target, Guest}
    /\ trouble = 0

\* irclib_sendraw
Send(cmds) == toServer' = toServer \o cmds

Command(cmd, arg) == [cmd |-> cmd, arg |-> arg]

\* irclib_connect, as the reconnect timer calls it: the name is the one that the
\* last connection ended with.
Connect ==
    /\ status = "DISCONNECTED"
    /\ status' = "CONNECTING"
    /\ Send(<<Command("NICK", nickname)>>)
    /\ UNCHANGED <<nickname, known, toBot, server, trouble>>

\* keepnick_timer, every 30 seconds.
KeepNick ==
    /\ status = "CONNECTED" /\ nickname # Target
    /\ Len(toServer) + Len(toBot) < MaxFlight
    /\ Send(<<Command("NICK", Target)>>)
    /\ UNCHANGED <<bot, toBot, server, trouble>>

-----------------------------------------------------------------------------
(* irclib_parse: one message of the server.                                *)

Receive(cmd) ==
    /\ toBot # <<>> /\ Head(toBot).cmd = cmd
    /\ toBot' = Tail(toBot)
    /\ UNCHANGED <<server, trouble>>

\* Mutant: the name is changed whenever it is refused, and not only before the
\* connection is made.
NickInUseAnyhow ==
    /\ Receive("433")
    /\ ~TooLong
    /\ nickname' = [nickname EXCEPT !.tail = @ + 1]
    /\ Send(<<Command("NICK", nickname')>>)
    /\ UNCHANGED <<status, known>>

\* 433.  Bound: one "_" more than the server keeps.
NickInUse ==
    /\ Receive("433")
    /\ IF status = "CONNECTING"
       THEN /\ ~TooLong
            /\ nickname' = [nickname EXCEPT !.tail = @ + 1]
            /\ Send(<<Command("NICK", nickname')>>)
       ELSE UNCHANGED <<nickname, toServer>>
    /\ UNCHANGED <<status, known>>

\* 376, and autojoin_onconnected.
EndOfMotd ==
    /\ Receive("376")
    /\ IF status = "CONNECTING"
       THEN /\ status' = "CONNECTED"
            /\ Send([i \in DOMAIN Autojoin |-> Command("JOIN", Autojoin[i])])
       ELSE UNCHANGED <<status, toServer>>
    /\ UNCHANGED <<nickname, known>>

ToMe == Head(toBot).who = nickname

NickChange ==
    /\ Receive("NICK")
    /\ nickname' = IF ToMe THEN Head(toBot).arg ELSE nickname
    /\ UNCHANGED <<status, known, toServer>>

Joined ==
    /\ Receive("JOIN")
    /\ known' = IF ToMe THEN known \cup {Head(toBot).arg} ELSE known
    /\ UNCHANGED <<status, nickname, toServer>>

\* Mutant: nothing joins the channel again.
KickedForGood ==
    /\ Receive("KICK")
    /\ known' = IF ToMe THEN known \ {Head(toBot).arg} ELSE known
    /\ UNCHANGED <<status, nickname, toServer>>

\* KICK, and autojoin_onkicked.
Kicked ==
    /\ Receive("KICK")
    /\ IF ToMe THEN /\ Send(<<Command("JOIN", Head(toBot).arg)>>)
                    /\ known' = known \ {Head(toBot).arg}
               ELSE UNCHANGED <<known, toServer>>
    /\ UNCHANGED <<status, nickname>>

-----------------------------------------------------------------------------
(* The server.                                                             *)

\* A message about the bot, by the name it has when the message is written.
Tell(cmd, arg) == toBot' = Append(toBot, [cmd |-> cmd, who |-> name, arg |-> arg])

ServeNick ==
    LET n == Cut(Head(toServer).arg)
    IN  /\ Head(toServer).cmd = "NICK"
        /\ \/ n \in taken /\ Tell("433", n) /\ UNCHANGED name
           \/ n \notin taken /\ name = Nobody /\ name' = n /\ Tell("376", n)
           \/ n \notin taken /\ name \notin {n, Nobody} /\ name' = n /\ Tell("NICK", n)
           \/ n \notin taken /\ name = n /\ UNCHANGED <<name, toBot>>
        /\ UNCHANGED on

ServeJoin ==
    LET c == Head(toServer).arg
    IN  /\ Head(toServer).cmd = "JOIN"
        /\ on' = on \cup {c}
        /\ IF c \in on THEN UNCHANGED toBot ELSE Tell("JOIN", c)
        /\ UNCHANGED name

Serve ==
    /\ toServer # <<>>
    /\ ServeNick \/ ServeJoin
    /\ toServer' = Tail(toServer)
    /\ UNCHANGED <<bot, taken, trouble>>

\* Others come and go, or rename themselves.
Take(n) ==
    /\ n \notin taken \cup {name}
    /\ taken' = taken \cup {n}
    /\ UNCHANGED <<bot, toServer, toBot, name, on>>

Free(n) ==
    /\ n \in taken
    /\ taken' = taken \ {n}
    /\ UNCHANGED <<bot, toServer, toBot, name, on, trouble>>

\* A service takes the bot its name, as it does when the owner wants it back.
ForceName ==
    /\ name \notin {Nobody, Guest} /\ Guest \notin taken
    /\ name' = Guest /\ Tell("NICK", Guest)
    /\ UNCHANGED <<bot, toServer, on, taken>>

Kick(c) ==
    /\ c \in on
    /\ on' = on \ {c} /\ Tell("KICK", c)
    /\ UNCHANGED <<bot, toServer, name, taken>>

\* The connection is lost, and irclib_shutdown follows.  The server may take
\* time to notice: the name is then still taken when the bot comes back.
Drop(ghost) ==
    /\ status # "DISCONNECTED"
    /\ status' = "DISCONNECTED" /\ known' = {}
    /\ toServer' = <<>> /\ toBot' = <<>>
    /\ name' = Nobody /\ on' = {}
    /\ taken' = taken \cup (IF ghost THEN {name} \ {Nobody} ELSE {})
    /\ UNCHANGED nickname

Trouble ==
    /\ trouble < MaxTrouble
    /\ \/ \E n \in AnyName : Take(n)
       \/ \E c \in on : Kick(c)
       \/ \E ghost \in BOOLEAN : Drop(ghost)
       \/ ForceName
    /\ trouble' = trouble + 1

Hear == NickInUse \/ EndOfMotd \/ NickChange \/ Joined \/ Kicked

SessionNext == Connect \/ KeepNick \/ Hear \/ Serve \/ Trouble \/ \E n \in taken : Free(n)

\* The main loop reads what has come and lets the timers go off, the server
\* answers; nobody has to make room for the bot.
Fairness == WF_sessionVars(Connect) /\ WF_sessionVars(KeepNick) /\ WF_sessionVars(Hear) /\ WF_sessionVars(Serve)

SessionSpec == SessionInit /\ [][SessionNext]_sessionVars /\ Fairness

-----------------------------------------------------------------------------
\* Once it has read what the server said, the bot knows its own name and the
\* channels it is on, after any number of refused, forced and crossing changes
\* of the name; unless the server cut it.
NickAgreed ==
    status = "CONNECTED" /\ toBot = <<>> /\ ~TooLong => nickname = name /\ known = on

\* The bot ends up on the network, under its configured name and on its
\* configured channels, if the name becomes free and no cut name came between.
ComesHome ==
    <>[](Target \notin taken) /\ []~TooLong =>
        <>[](/\ status = "CONNECTED" /\ nickname = Target /\ name = Target
             /\ known = Range(Autojoin) /\ on = known)
=============================================================================
