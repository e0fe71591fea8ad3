----------------------------- MODULE SocketPool ------------------------------
(***************************************************************************)
(* The socket pool (socketpool.c) under the main loop: select, the visit   *)
(* of each socket (receive handler, then one node of the send queue), the  *)
(* timers, and the drain at shutdown.                                      *)
(*                                                                         *)
(* The clients of the pool - irclib and the plugins - act through their    *)
(* receive handlers, closed handlers and timers; they are modelled by the  *)
(* calls these may make.  A byte is its number in its stream, a write      *)
(* takes any part of a node, and a peer may go at any time: a write to it  *)
(* then fails, or raises SIGPIPE, which the program does not ignore.       *)
(***************************************************************************)
EXTENDS Naturals, Sequences, SequencesExt, FiniteSets, FiniteSetsExt

CONSTANTS
    Fd,         \* descriptors that sockets may have
    MaxBytes,   \* bound: bytes sent on a socket
    MaxNode,    \* bound: bytes given to one socketpool_send
    MaxCalls,   \* bound: calls of the clients in one turn of the loop
    Foreign     \* a receive handler may close another socket at once

ASSUME PoolAssumption ==
    /\ Fd \subseteq Nat \ {0} /\ IsFiniteSet(Fd)
    /\ MaxBytes \in Nat \ {0} /\ MaxNode \in Nat \ {0} /\ MaxCalls \in Nat
    /\ Foreign \in BOOLEAN

VARIABLES
    pool,   \* the list of sockets, and the histories of their streams
    loop    \* where the main loop is, and the variables of socketpool_pool

vars == <<pool, loop>>

-----------------------------------------------------------------------------
(* The pool and its operations.                                            *)

Fds(p) == {p.list[i].fd : i \in DOMAIN p.list}

\* socketpool_lookup of a socket that is there.
Index(p, fd) == CHOOSE i \in DOMAIN p.list : p.list[i].fd = fd

Sendq(p, fd) == p.list[Index(p, fd)].sendq

Queued(p) == {fd \in Fds(p) : Sendq(p, fd) # <<>>}

Gone(p, fd) == p.list[Index(p, fd)].gone

\* socketpool_add: of a socket that is in the pool only the handlers change.
AddSocket(p, fd) ==
    IF fd \in Fds(p) THEN p
    ELSE [p EXCEPT !.list = Append(@, [fd |-> fd, sendq |-> <<>>, closing |-> FALSE,
                                       gone |-> FALSE]),
                   !.sent[fd] = 0,
                   !.wire[fd] = <<>>]

\* socketpool_remove.
RemoveSocket(p, fd) ==
    [p EXCEPT !.list = RemoveAt(@, Index(p, fd)), !.freed = @ \cup {fd}]

\* socketpool_send and socketpool_addtosendq of n bytes.
SendData(p, fd, n) ==
    [p EXCEPT !.list[Index(p, fd)].sendq = Append(@, [k \in 1..n |-> p.sent[fd] + k]),
              !.sent[fd] = @ + n]

\* What a closed handler does to the pool: irclib_closed may connect anew and
\* register, while the old descriptor is still open; 0 stands for no new socket.
ClosedHandler(p, new) ==
    IF new = 0 THEN p ELSE SendData(AddSocket(p, new), new, 1)

\* Mutant: what is queued does not delay the close.
CloseSocketAtOnce(p, fd, new) == RemoveSocket(ClosedHandler(p, new), fd)

\* socketpool_close of a socket that is in the pool.
CloseSocket(p, fd, new) ==
    IF Sendq(p, fd) # <<>> THEN [p EXCEPT !.list[Index(p, fd)].closing = TRUE]
    ELSE RemoveSocket(ClosedHandler(p, new), fd)

\* write, which has taken n bytes of the first node.
Written(p, fd, n) ==
    LET i == Index(p, fd)
        node == Head(p.list[i].sendq)
    IN  [p EXCEPT !.list[i].sendq = IF n = Len(node) THEN Tail(@)
                                    ELSE <<SubSeq(node, n + 1, Len(node))>> \o Tail(@),
                  !.wire[fd] = @ \o SubSeq(node, 1, n)]

\* Mutant: after a partial write the whole node is sent again.
SendNodeAgain(p, fd, n, new) ==
    IF n = Len(Head(Sendq(p, fd))) THEN Written(p, fd, n)
    ELSE [p EXCEPT !.wire[fd] = @ \o SubSeq(Head(Sendq(p, fd)), 1, n)]

\* Mutant: the close that was delayed is forgotten.
SendNodeNoClose(p, fd, n, new) == Written(p, fd, n)

\* socketpool_sendnode, the write of which takes n bytes.
SendNode(p, fd, n, new) ==
    LET q == Written(p, fd, n)
    IN  IF fd \notin Queued(q) /\ q.list[Index(q, fd)].closing
        THEN CloseSocket(q, fd, new) ELSE q

-----------------------------------------------------------------------------
(* The loop.                                                               *)

NextFd(p, fd) ==
    IF Index(p, fd) = Len(p.list) THEN 0 ELSE p.list[Index(p, fd) + 1].fd

\* The beginning of the visit of a socket, 0 for the end of the list.
Visit(l, p, fd) ==
    IF fd = 0
    THEN [l EXCEPT !.phase = IF l.draining THEN "select" ELSE "timers",
                   !.cur = 0, !.next = 0, !.has = FALSE, !.read = {}, !.write = {}]
    ELSE [l EXCEPT !.phase = IF fd \in l.read THEN "recv" ELSE "send",
                   !.cur = fd, !.next = NextFd(p, fd), !.has = fd \in Queued(p)]

Init ==
    /\ pool = [list |-> <<>>, freed |-> {},
               sent |-> [fd \in Fd |-> 0], wire |-> [fd \in Fd |-> <<>>]]
    /\ loop = [phase |-> "timers", cur |-> 0, next |-> 0, has |-> FALSE,
               read |-> {}, write |-> {}, calls |-> 0, draining |-> FALSE]

\* The sockets that select finds ready; when it finds none, its time is over.
Select(read, write) ==
    /\ loop.phase = "select" /\ ~loop.draining
    /\ LET l == [loop EXCEPT !.read = read, !.write = write, !.calls = 0]
       IN  loop' = Visit(l, pool, IF read \cup write = {} THEN 0 ELSE pool.list[1].fd)
    /\ pool' = [pool EXCEPT !.freed = {}]

\* Sockets a client may open, and those its closed handler may open.
Unused == Fd \ Fds(pool)

\* A call of a client: from a receive handler, which closes its own socket or
\* one that has more to say, from a timer, or from what starts the program.
Call ==
    /\ loop.phase \in {"recv", "timers"} /\ loop.calls < MaxCalls
    /\ \/ \E fd \in Fds(pool), n \in 1..MaxNode :
            pool.sent[fd] + n <= MaxBytes /\ pool' = SendData(pool, fd, n)
       \/ \E fd \in Fd : pool' = AddSocket(pool, fd)
       \/ \E fd \in Fds(pool), new \in Unused \cup {0} :
            /\ \/ Foreign \/ loop.phase = "timers"
               \/ fd = loop.cur \/ fd \in Queued(pool)
            /\ pool' = CloseSocket(pool, fd, new)
    /\ loop' = [loop EXCEPT !.calls = @ + 1]

Sends == loop.has /\ loop.cur \in loop.write

\* Mutant: the next socket is taken from the one whose handlers have run.
NodesReadNextLate == {loop.cur, loop.next} \ {0}

\* The sockets that socketpool_pool follows a pointer to after a receive
\* handler: the one it sends from, and the next one, which it has saved.
NodesRead == (IF Sends THEN {loop.cur, loop.next} ELSE {loop.next}) \ {0}

\* The end of a visit: the pool is q, and the loop goes to the saved socket.
Proceed(q) ==
    IF loop.next \in q.freed
    THEN pool' = q /\ loop' = [loop EXCEPT !.phase = "crashed"]
    ELSE pool' = [q EXCEPT !.freed = {}] /\ loop' = Visit(loop, q, loop.next)

\* The receive handler is done, and what it has freed is not used any more.
Return ==
    /\ loop.phase = "recv"
    /\ loop' = [loop EXCEPT !.phase =
                  IF NodesRead \cap pool.freed = {} THEN "send" ELSE "crashed"]
    /\ UNCHANGED pool

Skip ==
    /\ loop.phase = "send" /\ ~Sends
    /\ Proceed(pool)

Write ==
    /\ loop.phase = "send" /\ Sends /\ ~Gone(pool, loop.cur)
    /\ \E n \in 1..Len(Head(Sendq(pool, loop.cur))),
          new \in IF loop.draining THEN {0} ELSE Unused \cup {0} :
          Proceed(SendNode(pool, loop.cur, n, new))

\* The write fails, and the socket is closed when its queue gets empty.
WriteFails ==
    /\ loop.phase = "send" /\ Sends /\ Gone(pool, loop.cur)
    /\ Proceed(CloseSocket(pool, loop.cur, 0))

SigPipe ==
    /\ loop.phase = "send" /\ Sends /\ Gone(pool, loop.cur)
    /\ loop' = [loop EXCEPT !.phase = "killed"]
    /\ UNCHANGED pool

TimersDone ==
    /\ loop.phase = "timers"
    /\ loop' = [loop EXCEPT !.phase = "select"]
    /\ UNCHANGED pool

\* The sockets of a list that have something to say.
Talking(list) ==
    LET upTo[i \in 0..Len(list)] ==
            IF i = 0 THEN <<>>
            ELSE IF list[i].sendq = <<>> THEN upTo[i - 1]
            ELSE Append(upTo[i - 1], list[i])
    IN  upTo[Len(list)]

\* Every socket of the pool that has nothing to say is closed.
CloseEmpty(p) == [p EXCEPT !.list = Talking(@)]

\* socketpool_shutdown up to its loop: every socket is closed, or is to be.
Shutdown ==
    /\ loop.phase = "select" /\ ~loop.draining
    /\ pool' = LET p == CloseEmpty(pool)
               IN  [p EXCEPT !.list = [i \in DOMAIN @ |-> [@[i] EXCEPT !.closing = TRUE]]]
    /\ loop' = [loop EXCEPT !.draining = TRUE]

\* A turn of that loop: select waits for sockets that can be written.
Drain(write) ==
    /\ loop.phase = "select" /\ loop.draining /\ write # {}
    /\ LET p == CloseEmpty([pool EXCEPT !.freed = {}])
       IN  pool' = p /\ loop' = Visit([loop EXCEPT !.write = write], p, p.list[1].fd)

\* The last turn.
Stop ==
    /\ loop.phase = "select" /\ loop.draining /\ Queued(pool) = {}
    /\ pool' = CloseEmpty(pool)
    /\ loop' = [loop EXCEPT !.phase = "stopped"]

PeerGoes(fd) ==
    /\ ~Gone(pool, fd)
    /\ pool' = [pool EXCEPT !.list[Index(pool, fd)].gone = TRUE]
    /\ UNCHANGED loop

Loop ==
    \/ \E read \in SUBSET Fds(pool), write \in SUBSET Queued(pool) : Select(read, write)
    \/ Return \/ Skip \/ Write \/ WriteFails \/ TimersDone
    \/ \E write \in SUBSET Queued(pool) : Drain(write)
    \/ Stop

Next ==
    \/ Loop \/ Call \/ SigPipe \/ Shutdown
    \/ \E fd \in Fds(pool) : PeerGoes(fd)

\* The thread runs on, and a socket with a live peer can be written in the end.
Fairness ==
    /\ WF_vars(Loop)
    /\ SF_vars(\E read \in SUBSET Fds(pool) : Select(read, Queued(pool)))
    /\ SF_vars(Drain(Queued(pool)))

Spec == Init /\ [][Next]_vars

FairSpec == Spec /\ Fairness

-----------------------------------------------------------------------------
(* Properties.                                                             *)

\* Bytes are numbered per stream, sockets of the list have their own descriptors.
TypeOK ==
    /\ pool.list \in Seq([fd : Fd, sendq : Seq(Seq(1..MaxBytes)),
                          closing : BOOLEAN, gone : BOOLEAN])
    /\ \A i, j \in DOMAIN pool.list : pool.list[i].fd = pool.list[j].fd => i = j
    /\ pool.freed \subseteq Fd
    /\ pool.sent \in [Fd -> 0..MaxBytes]
    /\ pool.wire \in [Fd -> Seq(1..MaxBytes)]
    /\ loop.phase \in {"select", "recv", "send", "timers", "stopped", "crashed", "killed"}
    /\ loop.cur \in Fd \cup {0} /\ loop.next \in Fd \cup {0}
    /\ loop.has \in BOOLEAN /\ loop.draining \in BOOLEAN
    /\ loop.read \subseteq Fd /\ loop.write \subseteq Fd
    /\ loop.calls \in 0..MaxCalls

\* After any partial writes, what the peer has and what is queued make up, in
\* this order, what was sent: socketpool_sendnode neither drops nor repeats a
\* byte, and socketpool_addtosendq never lets one node pass another.
NothingLost ==
    /\ TypeOK
    /\ \A fd \in Fds(pool) :
        pool.wire[fd] \o FlattenSeq(Sendq(pool, fd)) = [n \in 1..pool.sent[fd] |-> n]

\* socketpool_pool never follows a pointer to a socket that a handler, its own
\* or another's, has closed and freed.
MemorySafe == loop.phase # "crashed"

\* The pool implements the streams it promises: in order, once, and all of it
\* before the socket is closed, also at shutdown.
Streams == INSTANCE ByteStreams WITH
    streams <- [fd \in Fd |-> [open |-> fd \in Fds(pool),
                               sent |-> [n \in 1..pool.sent[fd] |-> n],
                               got  |-> pool.wire[fd]]]

ImplementsStreams == Streams!Spec

Closing(fd) == fd \in Fds(pool) /\ pool.list[Index(pool, fd)].closing

Alive(fd) == fd \in Fds(pool) /\ ~Gone(pool, fd)

\* A close that was delayed is made up for once the queue has gone out, unless
\* the peer goes first or takes the whole process with it.  At shutdown, when
\* every socket is to be closed, it is the end of socketpool_shutdown.
CloseCompletes ==
    \A fd \in Fd : Closing(fd) /\ Alive(fd)
        ~> ~Closing(fd) \/ ~Alive(fd) \/ loop.phase = "killed"
=============================================================================
