-------------------------------- MODULE Telnet -------------------------------
(***************************************************************************)
(* The telnet service (plugins/telnet), the driver that brings it clients  *)
(* over sockets (telnet_socket_driver), its commands (telnet_commands) and *)
(* the login dialogue of the users plugin, over the part of the socket     *)
(* pool that they see.                                                     *)
(*                                                                         *)
(* A client is in two lists and behind the handler of a socket, and all of *)
(* it is taken down by a command that the client itself runs, while that   *)
(* socket's receive handler is under way.  A step is a handler with all    *)
(* that it calls.  A line is a sequence of words, and keys are left to     *)
(* TelnetTerminal.                                                         *)
(***************************************************************************)
EXTENDS Naturals, Sequences, SequencesExt, FiniteSets

CONSTANTS
    Client,     \* addresses of client structures
    Fd,         \* descriptors that accept may return
    Line,       \* the lines that are typed
    None        \* the NULL pointer

\* NULL is the address of no structure.
ASSUME TelnetAssumption ==
    /\ IsFiniteSet(Fd)
    /\ Line \subseteq Seq(STRING)
    /\ None \notin Client
    /\ None \notin [fd : Fd, state : {"interactive", "prompt", "processing", "disconnected"},
                    callback : {"login", "password"}, user : BOOLEAN, cd : Seq(STRING)]
    /\ None \notin [handler : Client \cup {None}, queued : BOOLEAN, closing : BOOLEAN,
                    gone : BOOLEAN]

VARIABLES
    sys,        \* the two lists, the clients, the pool, the open descriptors
    guarded,    \* the users plugin listens to new connections
    mode,       \* how far main is
    quits       \* history: descriptors of clients that have typed telnet quit

vars == <<sys, guarded, mode, quits>>

-----------------------------------------------------------------------------
(* The socket pool.                                                        *)

Pooled(s) == {fd \in Fd : s.pool[fd] # None}

\* socketpool_add.
PoolAdd(s, fd, handler) ==
    [s EXCEPT !.pool[fd] =
        IF fd \in Pooled(s) THEN [@ EXCEPT !.handler = handler]
        ELSE [handler |-> handler, queued |-> FALSE, closing |-> FALSE, gone |-> FALSE]]

\* close and socketpool_remove.
PoolRemove(s, fd) ==
    [s EXCEPT !.pool[fd] = None, !.open = @ \ {fd}]

\* socketpool_close, of a socket without closed handler.
PoolClose(s, fd) ==
    IF fd \in Pooled(s) /\ s.pool[fd].queued THEN [s EXCEPT !.pool[fd].closing = TRUE]
    ELSE PoolRemove(s, fd)

\* socketpool_send.
PoolSend(s, fd) ==
    IF fd \in Pooled(s) THEN [s EXCEPT !.pool[fd].queued = TRUE] ELSE s

-----------------------------------------------------------------------------
(* The driver and the service.                                             *)

Live(s) == {c \in Client : s.client[c] # None}

\* telnet_socket_send, with the actions on the terminal that it stands for.
Send(s, c) == PoolSend(s, s.client[c].fd)

Without(list, c) == RemoveFirst(list, c)

\* Mutant: the handlers of the socket are left in place.
DriverDisconnectKeepsHandler(s, c) ==
    LET fd == s.client[c].fd
    IN  [PoolClose(s, fd) EXCEPT !.drivers = Without(@, c)]

\* telnet_socket_disconnect.
DriverDisconnect(s, c) ==
    LET fd == s.client[c].fd
    IN  [PoolAdd(PoolClose(s, fd), fd, None) EXCEPT !.drivers = Without(@, c)]

\* Mutant: a command that is under way does not defer the disconnect.
DisconnectAtOnce(s, c) ==
    LET t == DriverDisconnect(s, c)
    IN  [t EXCEPT !.clients = Without(@, c), !.client[c] = None]

\* telnet_disconnect, deferred while a command of the client is processed.
Disconnect(s, c) ==
    IF s.client[c].state = "processing" THEN [s EXCEPT !.client[c].state = "disconnected"]
    ELSE LET t == DriverDisconnect(s, c)
         IN  [t EXCEPT !.clients = Without(@, c), !.client[c] = None]

\* telnet_prompt.
Prompt(s, c) == [Send(s, c) EXCEPT !.client[c].state = "prompt"]

\* telnet_motd.
Motd(s, c) == Prompt([s EXCEPT !.client[c].state = "processing"], c)

\* telnet_add_client, with users_telnetconnected, which asks for a login.
AddClient(s, c, fd) ==
    LET t == [s EXCEPT
                !.clients = Append(@, c),
                !.client[c] = [fd |-> fd, state |-> "interactive", callback |-> "login",
                               user |-> FALSE, cd |-> <<>>]]
    IN  IF guarded THEN Send(t, c) ELSE Motd(t, c)

\* telnet_socket_accept_client: the socket gets its handler when there is a
\* client for it, and the client is told of the handshake.
AcceptClient(s, c, fd) ==
    LET t == AddClient(PoolAdd([s EXCEPT !.open = @ \cup {fd}], fd, None), c, fd)
    IN  [Send(PoolAdd(t, fd, c), c) EXCEPT !.drivers = Append(@, c)]

-----------------------------------------------------------------------------
(* Commands.                                                               *)

\* The context of the client is put before what it has typed.
Full(s, c, line) == s.client[c].cd \o line

\* The words that take a subcommand, and become the context without one.
Topics == {"system", "telnet", "irc"}

IsQuit(s, c, line) == Full(s, c, line) = <<"telnet", "quit">>

IsSystemQuit(s, c, line) == Full(s, c, line) = <<"system", "quit">>

\* telnet quit of telnet_commands_telnet.
TelnetQuit(s, c) == Disconnect(Send(s, c), c)

\* telnet_commands_handler, and the answer to a command nobody has handled.
Handle(s, c, line) ==
    LET full == Full(s, c, line)
    IN  IF IsQuit(s, c, line) THEN TelnetQuit(s, c)
        ELSE IF Len(full) = 1 /\ full[1] \in Topics THEN [s EXCEPT !.client[c].cd = full]
        ELSE IF IsSystemQuit(s, c, line) THEN s
        ELSE Send(s, c)

\* The client is still used after the handlers of its command: is it there?
Survives(s, c, line) ==
    line = <<"..">> \/ c \in Live(Handle([s EXCEPT !.client[c].state = "processing"], c, line))

\* telnet_process_command; `..` goes one context up and is no command.
ProcessCommand(s, c, line) ==
    LET p == [s EXCEPT !.client[c].state = "processing"]
        t == IF line # <<"..">> THEN Handle(p, c, line)
             ELSE [p EXCEPT !.client[c].cd = IF @ = <<>> THEN @ ELSE Front(@)]
    IN  IF c \in Live(t) /\ t.client[c].state = "disconnected" THEN Disconnect(t, c)
        ELSE IF c \in Live(t) THEN Prompt(t, c)
        ELSE t

\* Mutant: a password that is not known lets the user in, too.
PasswordReceivedAnyhow(s, c, known) ==
    LET t == Send(s, c)
    IN  Motd([t EXCEPT !.client[c].user = known], c)

\* Mutant: the one who is not let in is not told so.
PasswordReceivedSilently(s, c, known) ==
    IF known THEN Motd([s EXCEPT !.client[c].user = TRUE], c) ELSE Disconnect(s, c)

\* users_telnetpasswreceive at the end of the password.
PasswordReceived(s, c, known) ==
    LET t == Send(s, c)
    IN  IF known THEN Motd([t EXCEPT !.client[c].user = TRUE], c)
        ELSE Disconnect(Send(t, c), c)

\* users_telnetloginreceive at the end of the login.
LoginReceived(s, c) == Send([s EXCEPT !.client[c].callback = "password"], c)

\* telnet_received of an Enter.
Received(s, c, line, known) ==
    CASE s.client[c].state = "interactive" /\ s.client[c].callback = "login" -> LoginReceived(s, c)
      [] s.client[c].state = "interactive" /\ s.client[c].callback = "password" ->
            PasswordReceived(s, c, known)
      [] OTHER -> ProcessCommand(Send(s, c), c, line)

-----------------------------------------------------------------------------
(* The program.                                                            *)

Init ==
    /\ sys = [clients |-> <<>>, drivers |-> <<>>, open |-> {},
              client |-> [c \in Client |-> None], pool |-> [fd \in Fd |-> None]]
    /\ guarded \in BOOLEAN
    /\ mode = "running"
    /\ quits = {}

InLoop == mode \in {"running", "breaking"}

Accept(c, fd) ==
    /\ InLoop /\ c \notin Live(sys) /\ fd \notin sys.open
    /\ sys' = AcceptClient(sys, c, fd)
    /\ quits' = quits \ {fd}
    /\ UNCHANGED <<guarded, mode>>

\* telnet_socket_client_receive of a whole line; after the line it looks at the
\* socket, and at the data of the client unless the socket is to be closed.
Receive(fd, line, known) ==
    /\ InLoop /\ fd \in Pooled(sys) /\ sys.pool[fd].handler # None /\ ~sys.pool[fd].gone
    /\ LET c == sys.pool[fd].handler
           there == c \in Live(sys)
           t == IF there THEN Received(sys, c, line, known) ELSE sys
           command == there /\ sys.client[c].state = "prompt"
           freed == \/ ~there \/ fd \notin Pooled(t)
                    \/ (~t.pool[fd].closing /\ c \notin Live(t))
                    \/ (command /\ ~Survives(sys, c, line))
       IN  /\ sys' = t
           /\ quits' = IF command /\ IsQuit(sys, c, line) THEN quits \cup {fd} ELSE quits
           /\ mode' = IF freed THEN "crashed"
                      ELSE IF command /\ IsSystemQuit(sys, c, line) THEN "breaking" ELSE mode
    /\ UNCHANGED guarded

\* SIGINT.
Interrupt ==
    /\ mode = "running" /\ mode' = "breaking"
    /\ UNCHANGED <<sys, guarded, quits>>

\* plugins_close as far as it is about clients: PluginBeforeUnload of telnet
\* tells them all and disconnects them, and PluginDone of the driver follows.
UnloadPlugins(s) ==
    LET told == FoldLeft(LAMBDA t, c : Send(t, c), s, s.clients)
        left == FoldLeft(LAMBDA t, c : Disconnect(t, c), told, told.clients)
    IN  FoldLeft(LAMBDA t, c : Disconnect(t, c), left, left.drivers)

\* main after its loop, up to the loop of socketpool_shutdown.
Close ==
    /\ mode = "breaking" /\ mode' = "draining"
    /\ sys' = LET s == UnloadPlugins(sys)
              IN  FoldLeft(LAMBDA t, fd : PoolClose(t, fd), s, SetToSeq(Pooled(s)))
    /\ UNCHANGED <<guarded, quits>>

Working == mode \in {"running", "breaking", "draining"}

\* Mutant: a socket whose queue has become empty is not closed.
WriteKeepsSocket(fd) ==
    /\ Working /\ fd \in Pooled(sys) /\ sys.pool[fd].queued /\ ~sys.pool[fd].gone
    /\ sys' = [sys EXCEPT !.pool[fd].queued = FALSE]
    /\ UNCHANGED <<guarded, mode, quits>>

\* socketpool_sendnode of the last node.
Write(fd) ==
    /\ Working /\ fd \in Pooled(sys) /\ sys.pool[fd].queued /\ ~sys.pool[fd].gone
    /\ LET s == [sys EXCEPT !.pool[fd].queued = FALSE]
       IN  sys' = IF sys.pool[fd].closing THEN PoolClose(s, fd) ELSE s
    /\ UNCHANGED <<guarded, mode, quits>>

\* socketpool_sendnode when the peer has gone: the queue does not get empty.
WriteFails(fd) ==
    /\ Working /\ fd \in Pooled(sys) /\ sys.pool[fd].queued /\ sys.pool[fd].gone
    /\ \/ sys' = PoolClose(sys, fd) /\ UNCHANGED mode
       \/ mode' = "killed" /\ UNCHANGED sys
    /\ UNCHANGED <<guarded, quits>>

\* The receive handler reads 0 from then on, and takes no notice.
PeerGoes(fd) ==
    /\ Working /\ fd \in Pooled(sys) /\ ~sys.pool[fd].gone
    /\ sys' = [sys EXCEPT !.pool[fd].gone = TRUE]
    /\ UNCHANGED <<guarded, mode, quits>>

Stop ==
    /\ mode = "draining" /\ Pooled(sys) = {}
    /\ mode' = "ended"
    /\ UNCHANGED <<sys, guarded, quits>>

Next ==
    \/ \E c \in Client, fd \in Fd : Accept(c, fd)
    \/ \E fd \in Fd, line \in Line, known \in BOOLEAN : Receive(fd, line, known)
    \/ Interrupt \/ Close \/ Stop
    \/ \E fd \in Fd : Write(fd) \/ WriteFails(fd) \/ PeerGoes(fd)

\* A step that leaves the main loop; it is one of Close, which is always possible.
Closes == mode = "breaking" /\ mode' = "draining"

\* The main loop goes on, and select finds a socket that can be written.
Fairness == WF_mode(Closes) /\ WF_vars(Stop) /\ \A fd \in Fd : WF_vars(Write(fd))

Spec == Init /\ [][Next]_vars /\ Fairness

-----------------------------------------------------------------------------
(* Properties.                                                             *)

\* Clients are known by their addresses and sockets by their descriptors;
\* between two handlers no client is in the middle of a command.
TypeOK ==
    /\ \A c \in Live(sys) :
          /\ sys.client[c].state \in {"prompt", "interactive"}
          /\ sys.client[c].callback \in {"login", "password"}
          /\ sys.client[c].fd \in Fd
    /\ Live(sys) \subseteq Client /\ Pooled(sys) \subseteq Fd
    /\ mode \in {"running", "breaking", "draining", "ended", "crashed", "killed"}

\* The list of the service and that of the driver hold the same clients, each
\* once, and these are the ones that have not been freed; each is behind the
\* receive handler of the one socket that is its own, and no socket has a
\* handler for a client that is gone (the handlers removed at driver:244).
Coherent ==
    /\ TypeOK
    /\ sys.clients = sys.drivers
    /\ Range(sys.clients) = Live(sys) /\ Len(sys.clients) = Cardinality(Live(sys))
    /\ \A c \in Live(sys) :
          sys.client[c].fd \in Pooled(sys) /\ sys.pool[sys.client[c].fd].handler = c
    /\ \A fd \in Pooled(sys) :
          sys.pool[fd].handler # None =>
              sys.pool[fd].handler \in Live(sys) /\ sys.client[sys.pool[fd].handler].fd = fd

\* telnet_socket_disconnect closes a descriptor and adds it again: the pool has
\* no descriptor that is closed, because something was sent before.
NoDeadDescriptor == Pooled(sys) \subseteq sys.open

\* The receive handler does not use the socket or the client that a command
\* typed on it has freed.
MemorySafe == mode # "crashed"

\* When logins are asked for, a client that may type commands has logged in.
LoggedIn ==
    guarded => \A c \in Live(sys) : sys.client[c].state = "prompt" => sys.client[c].user

\* A client that has typed telnet quit gets the rest of its output and is then
\* disconnected, and so are all when the program ends; a peer that goes may
\* spoil that.
QuitCompletes ==
    /\ \A fd \in Fd :
          fd \in quits ~> \/ fd \notin Pooled(sys) \/ fd \notin quits
                          \/ sys.pool[fd].gone \/ mode = "killed"
    /\ mode = "breaking" ~> \/ mode \in {"ended", "killed"}
                            \/ \E fd \in Pooled(sys) : sys.pool[fd].gone
=============================================================================
