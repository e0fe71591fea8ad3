---------------------------- MODULE IrcConnection ----------------------------
(***************************************************************************)
(* The life cycle of the connection to the IRC server: irclib.c with the   *)
(* main loop that drives it (main.c), the part of the socket pool it uses  *)
(* (socketpool.c), its two timers (timers.c) and the telnet commands that  *)
(* start and end it (telnet_commands).                                     *)
(*                                                                         *)
(* The bot has one thread.  Each turn of the main loop selects the sockets *)
(* that are ready, visits them one after the other (receive handler, then  *)
(* at most one node of the send queue) and runs the timers.  The server    *)
(* and the network act between any two of these steps.                     *)
(*                                                                         *)
(* Time is counted in units of aliveCheckTimeout, the period of the alive  *)
(* timer, up to the four that make a server stoned.  A write takes a whole *)
(* node; partial writes are in SocketPool.                                 *)
(*                                                                         *)
(* Hardships are what the program is not proof against; a run names in     *)
(* Tolerated those that it lets happen.                                    *)
(***************************************************************************)
EXTENDS Naturals, Sequences, SequencesExt, FiniteSets, FiniteSetsExt

CONSTANTS
    Fd,             \* descriptors the process may have
    Reconnect,      \* connection->reconnect
    MaxQueue,       \* bound: queued lines beyond which the bot gives no answers
    MaxFailures,    \* bound: attempts to connect that fail, over a whole run
    Tolerated       \* hardships that a run lets happen

Hardships ==
    {"partial line",        \* a line arrives in two pieces
     "broken pipe",         \* a write to a server that has closed fails
     "quit unheard",        \* a quit is sent to a server that does not answer it
     "hasty connect",       \* connect before the server has closed after a quit
     "change server",       \* irc connect <server> while connected
     "busy exit"}           \* the process is stopped while lines are queued

ASSUME ConnectionAssumption ==
    /\ Fd \subseteq Nat \ {0} /\ IsFiniteSet(Fd) /\ Fd # {}
    /\ Reconnect \in BOOLEAN
    /\ MaxQueue \in Nat /\ MaxFailures \in Nat
    /\ Tolerated \subseteq Hardships

VARIABLES
    conn,       \* the connection, its sockets and its timers
    server,     \* per descriptor: "up", "mute", "shut" or, not in the pool, "none"
    phase,      \* where the main loop is
    turn,       \* descriptor the pool visits next, 0 at the end of the list
    ready       \* rdsock and wrsock as select left them

vars == <<conn, server, phase, turn, ready>>

\* More than four periods of silence.
Stoned == 5

Active == {"CONNECTING", "CONNECTED"}

-----------------------------------------------------------------------------
(* The connection as a record, and the functions that change it.  Those    *)
(* that may connect have several outcomes and denote their set.            *)

Fresh ==
    [status |-> "DISCONNECTED",
     socket |-> 0,      \* connection->socket
     pool   |-> <<>>,   \* the IRC sockets of the pool, in its order
     open   |-> {},     \* open descriptors, in the pool or not
     timer  |-> FALSE,  \* the alive timer is in the list of timers
     ref    |-> FALSE,  \* connection->testalivetimer is set
     age    |-> 0,      \* periods since the alive timer was set, up to 1
     quiet  |-> Stoned, \* periods since lastActivity, which starts at 0 (1970)
     pinged |-> FALSE,  \* history: a PING was sent on this connection
     told   |-> {},     \* history: descriptors on which QUIT has gone out
     failed |-> 0,      \* attempts to connect that have failed
     freed  |-> FALSE,  \* irclib_close has freed nickname, buffer and storages
     sound  |-> TRUE]   \* nothing was freed twice or used after it was freed

Fds(c) == {c.pool[i].fd : i \in DOMAIN c.pool}

Index(c, fd) == CHOOSE i \in DOMAIN c.pool : c.pool[i].fd = fd

Sendq(c, fd) == c.pool[Index(c, fd)].sendq

\* irclib_sendraw: nothing is queued unless the connection is up.
SendRaw(c, line) ==
    IF c.status \notin Active \/ c.socket \notin Fds(c) THEN c
    ELSE [c EXCEPT !.pool[Index(c, c.socket)].sendq = Append(@, line),
                   !.pinged = @ \/ line = "PING"]

\* irclib_shutdown, the timer (the storages it clears are those of IrcStore).
Shutdown(c) ==
    [c EXCEPT !.sound = @ /\ ~c.freed /\ (c.ref => c.timer),
              !.timer = @ /\ ~c.ref,
              !.ref = FALSE]

\* irclib_connect once the host name is resolved and the socket made.
Connected(c, fd) ==
    [c EXCEPT !.status = "CONNECTING",
              !.socket = fd,
              !.open = @ \cup {fd},
              !.pool = Append(@, [fd |-> fd, sendq |-> <<"NICK", "USER">>, closing |-> FALSE]),
              !.pinged = FALSE,
              !.sound = @ /\ ~c.freed,
              !.timer = @ \/ ~c.ref,
              !.ref = TRUE,
              !.age = IF c.ref THEN @ ELSE 0]

\* irclib_connect: the name does not resolve, no descriptor is left, the server
\* refuses (and the descriptor stays open for good), or the connection stands.
Connect(c) ==
    LET unused == Fd \ c.open
        fd == Min(unused)
        down == [c EXCEPT !.status = "DISCONNECTED"]
    IN  IF c.status \in Active THEN {c}
        ELSE IF unused = {} THEN {[down EXCEPT !.socket = 0]}
        ELSE {Connected(c, fd)} \cup
             IF c.failed = MaxFailures THEN {}
             ELSE {[down EXCEPT !.failed = @ + 1],
                   [down EXCEPT !.failed = @ + 1, !.socket = fd, !.open = @ \cup {fd}]}

\* Mutant: also a connection that the operator has quit is made again.
ClosedForgetsQuit(c) ==
    UNION {IF Reconnect THEN Connect(s) ELSE {s} :
              s \in {[Shutdown(c) EXCEPT !.status = "DISCONNECTED"]}}

\* irclib_closed, the closed handler of the socket.
Closed(c) ==
    IF c.status = "QUITED" THEN {Shutdown(c)}
    ELSE UNION {IF Reconnect THEN Connect(s) ELSE {s} :
                   s \in {[Shutdown(c) EXCEPT !.status = "DISCONNECTED"]}}

\* Mutant: the node is removed and the descriptor stays open.
DropStaysOpen(c, fd) ==
    [c EXCEPT !.pool = RemoveAt(@, Index(c, fd)), !.told = @ \ {fd}]

\* close and socketpool_remove.
Drop(c, fd) ==
    [c EXCEPT !.pool = RemoveAt(@, Index(c, fd)), !.open = @ \ {fd}, !.told = @ \ {fd}]

\* Mutant: a socket that is to be closed is not closed again.
CloseOnce(c, fd) ==
    LET i == Index(c, fd)
    IN  IF fd \notin Fds(c) THEN {[c EXCEPT !.open = @ \ {fd}]}
        ELSE IF c.pool[i].sendq # <<>> \/ c.pool[i].closing
        THEN {[c EXCEPT !.pool[i].closing = TRUE]}
        ELSE {Drop(x, fd) : x \in Closed(c)}

\* socketpool_close: at once if nothing is queued, else when the queue gets
\* empty.  A descriptor that is not in the pool is closed by its number.
Close(c, fd) ==
    IF fd \notin Fds(c) THEN {[c EXCEPT !.open = @ \ {fd}]}
    ELSE IF Sendq(c, fd) # <<>>
         THEN {[c EXCEPT !.pool[Index(c, fd)].closing = TRUE]}
         ELSE {Drop(x, fd) : x \in Closed(c)}

\* Mutant: the close that was delayed is forgotten.
SendNodeNoClose(c, fd) == {[c EXCEPT !.pool[Index(c, fd)].sendq = Tail(@)]}

\* socketpool_sendnode: the first node goes out; a socket that should be closed
\* is closed after its last one.
SendNode(c, fd) ==
    LET i == Index(c, fd)
        line == Head(c.pool[i].sendq)
    IN  UNION {IF s.pool[i].sendq = <<>> /\ s.pool[i].closing THEN Close(s, fd) ELSE {s} :
                  s \in {[c EXCEPT !.pool[i].sendq = Tail(@),
                                   !.told = IF line = "QUIT" THEN @ \cup {fd} ELSE @]}}

\* socketpool_sendnode when write fails: the node stays, the close is delayed.
SendFails(c, fd) == {[c EXCEPT !.pool[Index(c, fd)].closing = TRUE]}

\* irclib_receive and irclib_parse of a whole line.
Parse(c, line) ==
    CASE line = "ENDOFMOTD" ->
           [c EXCEPT !.quiet = 0, !.status = IF @ = "CONNECTING" THEN "CONNECTED" ELSE @]
      [] line = "PING" -> SendRaw([c EXCEPT !.quiet = 0], "PONG")
      [] line = "TEXT" -> [c EXCEPT !.quiet = 0]

\* Mutant: testalivetimer keeps pointing at the timer that is removed.
CheckAliveKeepsPointer(c) ==
    IF c.quiet = Stoned
    THEN UNION {{[x EXCEPT !.timer = FALSE] : x \in Close(s, s.socket)} :
                   s \in {SendRaw(c, "QUIT")}}
    ELSE {[c EXCEPT !.age = 0]}

\* irclib_timercheckalive, and the timers_remove or the reset that follow it: a
\* server silent for more than four periods is told QUIT and its socket closed,
\* one silent for more than one period is sent a PING.  When the socket closes
\* at once, its closed handler has already removed the timer.
CheckAlive(c) ==
    IF c.quiet = Stoned
    THEN UNION {{[x EXCEPT !.sound = @ /\ Fds(x) = Fds(s), !.timer = FALSE, !.ref = FALSE] :
                    x \in Close(s, s.socket)} :
                   s \in {SendRaw(c, "QUIT")}}
    ELSE IF c.quiet > 1 THEN {SendRaw([c EXCEPT !.age = 0], "PING")}
    ELSE {[c EXCEPT !.age = 0]}

\* Mutant: the timer also connects what the operator has quit.
TimerReconnectAlways(c) == IF Reconnect THEN Connect(c) ELSE {c}

\* irclib_timerreconnect.
TimerReconnect(c) ==
    IF c.status = "DISCONNECTED" /\ Reconnect THEN Connect(c) ELSE {c}

\* irclib_vquit.
Quit(c) == [SendRaw(c, "QUIT") EXCEPT !.status = "QUITED"]

\* irclib_close.
IrcClose(c) ==
    UNION {{[Shutdown(x) EXCEPT !.freed = TRUE] : x \in Close(s, s.socket)} :
              s \in {[c EXCEPT !.status = "QUITED"]}}

-----------------------------------------------------------------------------
(* The main loop.                                                          *)

\* The connection is c from here on; a new socket has a live server behind it.
Becomes(c) ==
    /\ conn' = c
    /\ server' = [fd \in Fd |-> IF fd \notin Fds(c) THEN "none"
                                ELSE IF fd \in Fds(conn) THEN server[fd] ELSE "up"]

FirstFd(c) == IF c.pool = <<>> THEN 0 ELSE c.pool[1].fd

NextFd(c, fd) ==
    IF Index(c, fd) = Len(c.pool) THEN 0 ELSE c.pool[Index(c, fd) + 1].fd

Init ==
    /\ conn \in Connect(Fresh)
    /\ server = [fd \in Fd |-> IF fd \in Fds(conn) THEN "up" ELSE "none"]
    /\ phase = "select"
    /\ turn = 0
    /\ ready = [lines |-> {}, ends |-> {}, write |-> {}]

\* socketpool_pool up to and with select.  A peer that has closed is readable,
\* a live one when it has sent something; queued data can be written.  In the
\* meantime a period may have passed: a turn of the loop takes less than that.
Select(period) ==
    /\ phase = "select"
    /\ period = 1 /\ "quit unheard" \notin Tolerated =>
         \A fd \in conn.told : server[fd] # "up"
    /\ conn' = [conn EXCEPT !.quiet = Min({Stoned, @ + period}),
                            !.age = Max({@, period})]
    /\ \E lines \in SUBSET {fd \in Fds(conn) : server[fd] = "up"} :
         ready' = [lines |-> lines,
                   ends  |-> {fd \in Fds(conn) : server[fd] = "shut"},
                   write |-> {fd \in Fds(conn) : Sendq(conn, fd) # <<>>}]
    /\ phase' = "visit"
    /\ turn' = FirstFd(conn)
    /\ UNCHANGED server

\* Writes to a server that has closed may succeed until it says so.
Broken(fd) == "broken pipe" \in Tolerated /\ server[fd] = "shut"

\* socketpool_pool has found, before the receive handler, that there is something
\* to send, and select that it can be written.
Sends == turn \in ready.write /\ Sendq(conn, turn) # <<>>

\* The rest of the visit of a socket whose receive handler has left c.
Proceed(c) ==
    /\ \E x \in IF ~Sends THEN {c}
              ELSE SendNode(c, turn) \cup IF Broken(turn) THEN SendFails(c, turn) ELSE {} :
          Becomes(x)
    /\ phase' = "visit"
    /\ turn' = NextFd(conn, turn)
    /\ UNCHANGED ready

\* Nothing to receive.
VisitSend ==
    /\ phase = "visit" /\ turn \in Fd \ (ready.lines \cup ready.ends)
    /\ Proceed(conn)

\* Who is at the other end of connection->socket.
Peer == IF conn.socket \in Fds(conn) THEN server[conn.socket] ELSE "none"

Lines == {"ENDOFMOTD", "PING", "TEXT"}

\* irclib_receive of a line.  It reads connection->socket, byte after byte up to
\* the end of a line, and the socket is a blocking one: when there is nothing
\* to read, or no more, it waits.
VisitLine(line) ==
    /\ phase = "visit" /\ turn \in ready.lines /\ turn = conn.socket
    /\ line = "PING" => Len(Sendq(conn, turn)) < MaxQueue
    /\ Proceed(Parse(conn, line))

VisitWait ==
    /\ phase = "visit"
    /\ \/ turn \in ready.lines /\ turn = conn.socket /\ "partial line" \in Tolerated
       \/ turn \in ready.lines \cup ready.ends /\ turn # conn.socket
          /\ Peer \in {"up", "mute"}
    /\ phase' = "reading"
    /\ UNCHANGED <<conn, server, turn, ready>>

ReadLine(line) ==
    /\ phase = "reading" /\ Peer = "up"
    /\ line = "PING" => Len(Sendq(conn, conn.socket)) < MaxQueue
    /\ Proceed(Parse(conn, line))

\* irclib_receive that meets the end of the connection (or an error).
ReadEnd ==
    /\ \/ phase = "visit" /\ turn \in ready.ends /\ turn = conn.socket
       \/ /\ \/ phase = "visit" /\ turn \in ready.lines \cup ready.ends
                /\ turn # conn.socket
             \/ phase = "reading"
          /\ Peer \in {"shut", "none"}
    /\ \E c \in Close(conn, turn) : Proceed(c)

\* A write to a closed connection raises SIGPIPE, which ends the program.
SigPipe ==
    /\ phase = "visit" /\ turn # 0 /\ Sends /\ Broken(turn)
    /\ phase' = "stopped"
    /\ UNCHANGED <<conn, server, turn, ready>>

\* timers_test: the reconnect timer is set every two seconds, so it may go off
\* in any turn; the alive timer goes off once a period.
Timers(reconnect) ==
    /\ phase = "visit" /\ turn = 0
    /\ \E c \in IF reconnect THEN TimerReconnect(conn) ELSE {conn} :
         \E x \in IF c.timer /\ c.age = 1 THEN CheckAlive(c) ELSE {c} : Becomes(x)
    /\ phase' = "select"
    /\ UNCHANGED <<turn, ready>>

\* Telnet commands, run by the receive handler of a telnet socket.
CommandQuit ==
    /\ phase = "visit"
    /\ "quit unheard" \in Tolerated \/
         (conn.status \in Active => conn.quiet <= 1 /\ server[conn.socket] # "mute")
    /\ Becomes(Quit(conn))
    /\ UNCHANGED <<phase, turn, ready>>

CommandConnect ==
    /\ phase = "visit"
    /\ conn.status \notin Active
    /\ "hasty connect" \in Tolerated \/ conn.pool = <<>>
    /\ \E c \in Connect(conn) : Becomes(c)
    /\ UNCHANGED <<phase, turn, ready>>

\* irc connect <server> while connected: quit, irclib_close, irclib_connect.
CommandChange ==
    /\ phase = "visit"
    /\ "change server" \in Tolerated /\ conn.status \in Active
    /\ \E q \in {Quit(conn)} : \E c \in IrcClose(q) : \E x \in Connect(c) : Becomes(x)
    /\ UNCHANGED <<phase, turn, ready>>

\* The end of main: irclib_close, events_free, and socketpool_shutdown, which
\* sends what is queued and calls the closed handlers.
Exit ==
    /\ phase = "select"
    /\ "busy exit" \in Tolerated \/ \A fd \in Fds(conn) : Sendq(conn, fd) = <<>>
    /\ \E c \in IrcClose(conn) :
         Becomes([c EXCEPT !.sound = @ /\ c.pool = <<>>,
                           !.pool = <<>>, !.open = @ \ Fds(c), !.told = {}])
    /\ phase' = "stopped"
    /\ UNCHANGED <<turn, ready>>

\* The server, or the path to it: it goes silent for good, or closes.
Mute(fd) ==
    /\ server[fd] = "up"
    /\ "quit unheard" \in Tolerated \/ conn.status # "QUITED"
    /\ server' = [server EXCEPT ![fd] = "mute"]
    /\ UNCHANGED <<conn, phase, turn, ready>>

Shut(fd) ==
    /\ server[fd] = "up"
    /\ server' = [server EXCEPT ![fd] = "shut"]
    /\ UNCHANGED <<conn, phase, turn, ready>>

Read == ReadEnd \/ \E line \in Lines : ReadLine(line)

Loop ==
    \/ \E period \in {0, 1} : Select(period)
    \/ VisitSend \/ VisitWait \/ Read
    \/ \E line \in Lines : VisitLine(line)
    \/ \E reconnect \in BOOLEAN : Timers(reconnect)

Next ==
    \/ conn.sound /\ (Loop \/ CommandQuit \/ CommandConnect \/ CommandChange
                     \/ SigPipe \/ Exit)
    \/ \E fd \in Fd : Mute(fd) \/ Shut(fd)

\* The thread keeps running unless it waits in read; periods pass, and the
\* reconnect timer goes off, again and again.
Fairness == WF_vars(Loop) /\ SF_vars(Select(1)) /\ SF_vars(Timers(TRUE))

Spec == Init /\ [][Next]_vars

FairSpec == Spec /\ Fairness

-----------------------------------------------------------------------------
(* Properties.                                                             *)

TypeOK ==
    /\ conn.status \in Active \cup {"DISCONNECTED", "QUITED"}
    /\ conn.socket \in Fd \cup {0}
    /\ conn.pool \in Seq([fd : Fd, sendq : Seq({"NICK", "USER", "PING", "PONG", "QUIT"}),
                          closing : BOOLEAN])
    /\ Fds(conn) \subseteq conn.open /\ conn.open \subseteq Fd
    /\ conn.told \subseteq Fds(conn)
    /\ conn.quiet \in 0..Stoned /\ conn.age \in 0..1 /\ conn.failed \in 0..MaxFailures
    /\ \A f \in {"timer", "ref", "pinged", "freed", "sound"} : conn[f] \in BOOLEAN
    /\ server \in [Fd -> {"none", "up", "mute", "shut"}]
    /\ \A fd \in Fd : server[fd] = "none" <=> fd \notin Fds(conn)
    /\ phase \in {"select", "visit", "reading", "stopped"}
    /\ turn \in Fd \cup {0}
    /\ ready \in [lines : SUBSET Fd, ends : SUBSET Fd, write : SUBSET Fd]

\* No timer is removed twice, no freed nickname, storage or event list is used,
\* and the socket the pool goes to next has not been freed in the meantime, in
\* whatever order the socket, its handlers, the timers and the commands act.
MemorySafe ==
    /\ conn.sound
    /\ phase = "visit" /\ turn # 0 => turn \in Fds(conn)

\* A connection in use is watched: unless its socket is already being closed,
\* the alive timer is running, and connection->testalivetimer never points at a
\* timer that is gone, nor is a timer left without its pointer.
Watched ==
    conn.sound =>
        /\ conn.timer = conn.ref
        /\ conn.status \in Active /\ ~conn.pool[Index(conn, conn.socket)].closing
             => conn.timer

\* At most one socket to the server, and it is the one the status speaks of.
OneSocket ==
    /\ TypeOK
    /\ Len(conn.pool) <= 1
    /\ conn.status \in Active => conn.socket \in Fds(conn)
    /\ conn.status = "DISCONNECTED" => conn.pool = <<>>

\* QUITED means "Disconnected and do not reconnect": no timer, no closing
\* socket and no late line ever leads out of it, only the command to connect.
StaysQuit ==
    [][conn.status = "QUITED" /\ conn.status' # "QUITED" =>
         CommandConnect \/ CommandChange]_vars

\* A server is told QUIT as stoned only after a PING it has not answered.  The
\* code breaks this: lastActivity is not set when the connection is made.
PingBeforeStoned ==
    \A i \in DOMAIN conn.pool :
        conn.status \in Active /\ conn.pool[i].fd = conn.socket
        /\ Contains(conn.pool[i].sendq, "QUIT") => conn.pinged

\* A server that has gone silent is given up: its socket is closed.
SilentServerDropped == \A fd \in Fd : server[fd] = "mute" ~> server[fd] = "none"

\* So is one that has closed the connection, whatever was queued for it, as long
\* as it takes what is still written to it.
ClosedServerDropped == \A fd \in Fd : server[fd] = "shut" ~> server[fd] = "none"

\* The bot does not stay disconnected while it is told to reconnect.
Reconnects == Reconnect /\ conn.status = "DISCONNECTED" ~> conn.status # "DISCONNECTED"
=============================================================================
