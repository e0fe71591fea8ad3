------------------------ MODULE IrcConnectionProofs -------------------------
(***************************************************************************)
(* Proofs about the connection to the server, for any descriptors, queues  *)
(* and failures: a connection in use is watched by its timer and what is   *)
(* quit stays quit, whatever hardships there are; there is one socket at   *)
(* most, unless a connection is asked for while another still stands; and  *)
(* memory is safe, as long as what is quit is heard and closed in time.    *)
(***************************************************************************)
EXTENDS IrcConnection, Integers, SequenceTheorems, ListLemmas, TLAPS

-----------------------------------------------------------------------------
(* The types.                                                              *)

Line == {"NICK", "USER", "PING", "PONG", "QUIT"}

Sock == [fd : Fd, sendq : Seq(Line), closing : BOOLEAN]

Status == Active \cup {"DISCONNECTED", "QUITED"}

Conn == [status : Status, socket : Fd \cup {0}, pool : Seq(Sock), open : SUBSET Fd,
         timer : BOOLEAN, ref : BOOLEAN, age : 0..1, quiet : 0..Stoned,
         pinged : BOOLEAN, told : SUBSET Fd, failed : 0..MaxFailures,
         freed : BOOLEAN, sound : BOOLEAN]

\* Each socket has a descriptor of its own.
Distinct(list) == \A i, j \in DOMAIN list : list[i].fd = list[j].fd => i = j

Good(c) ==
    /\ c \in Conn
    /\ Distinct(c.pool)
    /\ Fds(c) \subseteq c.open
    /\ c.told \subseteq Fds(c)
    /\ c.sound => (c.timer <=> c.ref)

\* A connection in use has its socket in the pool; without the timer, that
\* socket is already being closed.
Served(c) ==
    c.status \in Active =>
        /\ c.socket \in Fds(c)
        /\ c.sound /\ ~c.timer =>
             \A i \in DOMAIN c.pool : c.pool[i].fd = c.socket => c.pool[i].closing

OK(c) == Good(c) /\ Served(c)

\* There is one socket at most, and none when the connection is known to be lost.
Lone(c) ==
    /\ \A a, b \in Fds(c) : a = b
    /\ c.status = "DISCONNECTED" => Fds(c) = {}

\* What may become of c when no socket but fd is closed.
After(c, fd, d) ==
    /\ OK(d)
    /\ Fds(c) \ {fd} \subseteq Fds(d)
    /\ Lone(c) => Lone(d)
    /\ c.status = "QUITED" => d.status = "QUITED"

\* One change after another.
LEMMA AfterTwo ==
    ASSUME NEW c, NEW d, NEW e, NEW fd, After(c, fd, d), After(d, fd, e)
    PROVE  After(c, fd, e)
BY DEF After

\* A change that closes no socket is one that closes at most this one.
LEMMA AfterNone ==
    ASSUME NEW c, NEW d, NEW fd, OK(c), After(c, 0, d)
    PROVE  After(c, fd, d) /\ Fds(c) \subseteq Fds(d)
<1>1. Fds(c) \subseteq Fd
  BY DEF OK, Good, Conn
<1>2. 0 \notin Fd
  BY ConnectionAssumption DEF ConnectionAssumption
<1> QED BY <1>1, <1>2 DEF After

-----------------------------------------------------------------------------
(* The list of sockets.                                                    *)

\* A socket of the pool is found, at its own position.
LEMMA IndexOf ==
    ASSUME NEW c, Good(c), NEW fd \in Fds(c)
    PROVE  /\ Index(c, fd) \in 1..Len(c.pool)
           /\ Len(c.pool) \in Nat /\ DOMAIN c.pool = 1..Len(c.pool)
           /\ c.pool \in Seq(Sock)
           /\ c.pool[Index(c, fd)] \in Sock
           /\ c.pool[Index(c, fd)].fd = fd
           /\ fd \in Fd
           /\ \A i \in DOMAIN c.pool : c.pool[i].fd = fd => i = Index(c, fd)
<1>1. c.pool \in Seq(Sock)
  BY DEF Good, Conn
<1>2. Len(c.pool) \in Nat /\ DOMAIN c.pool = 1..Len(c.pool)
  BY <1>1, LenProperties
<1>3. \E i \in DOMAIN c.pool : c.pool[i].fd = fd
  BY DEF Fds
<1>4. Index(c, fd) \in DOMAIN c.pool /\ c.pool[Index(c, fd)].fd = fd
  BY <1>3, Zenon DEF Index
<1>5. c.pool[Index(c, fd)] \in Sock
  BY <1>1, <1>2, <1>4, ElementOfSeq
<1>6. \A i \in DOMAIN c.pool : c.pool[i].fd = fd => i = Index(c, fd)
  BY <1>4 DEF Good, Distinct
<1>7. fd \in Fd
  BY <1>4, <1>5 DEF Sock
<1> QED BY <1>1, <1>2, <1>4, <1>5, <1>6, <1>7

\* The queue of a socket, said of its position in the list.
LEMMA SendqOf ==
    ASSUME NEW c, Good(c), NEW i \in DOMAIN c.pool
    PROVE  /\ c.pool[i].fd \in Fds(c)
           /\ Index(c, c.pool[i].fd) = i
           /\ Sendq(c, c.pool[i].fd) = c.pool[i].sendq
<1>1. c.pool[i].fd \in Fds(c)
  BY DEF Fds
<1>2. Index(c, c.pool[i].fd) = i
  BY <1>1, IndexOf
<1> QED BY <1>1, <1>2 DEF Sendq

\* The list stays; other fields change.
LEMMA SamePool ==
    ASSUME NEW c, OK(c), NEW d \in Conn, d.pool = c.pool,
           d.socket = c.socket, d.open = c.open, d.told = c.told,
           d.sound = c.sound, d.timer = c.timer, d.ref = c.ref,
           d.status = c.status \/ {c.status, d.status} \subseteq Active
               \/ d.status = "QUITED"
    PROVE  /\ After(c, 0, d) /\ Fds(d) = Fds(c)
           /\ \A x : Sendq(d, x) = Sendq(c, x)
<1>1. Fds(d) = Fds(c)
  BY DEF Fds
<1>2. \A x : Sendq(d, x) = Sendq(c, x)
  BY DEF Sendq, Index
<1>3. Good(d)
  BY <1>1 DEF OK, Good
<1>4. Active = {"CONNECTING", "CONNECTED"}
  BY DEF Active
<1>5. Served(d)
  BY <1>4 DEF OK, Served, Fds
<1>6. Lone(c) => Lone(d)
  BY <1>1, <1>4 DEF Lone
<1>7. c.status = "QUITED" => d.status = "QUITED"
  BY <1>4
<1> QED BY <1>1, <1>2, <1>3, <1>5, <1>6, <1>7 DEF After, OK

\* A socket of the list gets another queue, or is to be closed.
LEMMA ChangeSock ==
    ASSUME NEW c, OK(c), NEW fd \in Fds(c), NEW d \in Conn,
           NEW s \in Sock, s.fd = fd,
           c.pool[Index(c, fd)].closing => s.closing,
           d.pool = [c.pool EXCEPT ![Index(c, fd)] = s],
           d.status = c.status, d.socket = c.socket, d.open = c.open,
           d.told \subseteq c.told \cup {fd},
           d.sound = c.sound, d.timer = c.timer, d.ref = c.ref
    PROVE  /\ After(c, 0, d) /\ Fds(d) = Fds(c)
           /\ Index(d, fd) = Index(c, fd) /\ d.pool[Index(d, fd)] = s
           /\ \A x \in Fds(c) : Sendq(d, x) = IF x = fd THEN s.sendq ELSE Sendq(c, x)
<1> DEFINE k == Index(c, fd)
<1>0. Good(c) /\ Served(c)
  BY DEF OK
<1>1. /\ k \in DOMAIN c.pool /\ c.pool[k].fd = fd
      /\ \A i \in DOMAIN c.pool : c.pool[i].fd = fd => i = k
      /\ c.pool \in Seq(Sock)
  BY <1>0, IndexOf
<1>2. /\ DOMAIN d.pool = DOMAIN c.pool /\ d.pool[k] = s
      /\ \A i \in DOMAIN c.pool : i # k => d.pool[i] = c.pool[i]
  BY <1>1
<1>20. c.pool[k].closing => s.closing
  OBVIOUS
<1> HIDE DEF k
<1>3. \A i \in DOMAIN c.pool : d.pool[i].fd = c.pool[i].fd
  BY <1>1, <1>2
<1>4. Fds(d) = Fds(c)
  BY <1>2, <1>3 DEF Fds
<1>5. Good(d)
  <2>1. Distinct(d.pool)
    BY <1>0, <1>2, <1>3 DEF Good, Distinct
  <2>2. Fds(d) \subseteq d.open /\ d.told \subseteq Fds(d)
    BY <1>0, <1>4 DEF Good
  <2>3. d.sound => (d.timer <=> d.ref)
    BY <1>0 DEF Good
  <2> QED BY <2>1, <2>2, <2>3 DEF Good
<1>6. \A i \in DOMAIN c.pool : c.pool[i].closing => d.pool[i].closing
  BY <1>2, <1>20
<1>7. Served(d)
  BY <1>0, <1>2, <1>3, <1>4, <1>6 DEF Served
<1>8. Lone(c) => Lone(d)
  BY <1>4 DEF Lone
<1>9. Index(d, fd) = k
  BY <1>1, <1>2, <1>3, <1>5, SendqOf
<1>10. ASSUME NEW x \in Fds(c)
       PROVE  Sendq(d, x) = IF x = fd THEN s.sendq ELSE Sendq(c, x)
  <2>1. PICK i \in DOMAIN c.pool : c.pool[i].fd = x
    BY DEF Fds
  <2>2. Sendq(c, x) = c.pool[i].sendq /\ Sendq(d, x) = d.pool[i].sendq
    BY <1>0, <1>2, <1>3, <1>5, <2>1, SendqOf
  <2> QED BY <1>1, <1>2, <2>1, <2>2
<1> QED BY <1>2, <1>4, <1>5, <1>7, <1>8, <1>9, <1>10 DEF After, OK, k

-----------------------------------------------------------------------------
(* The functions of the connection.                                        *)

\* irclib_sendraw: on a connection in use, something is queued afterwards.
LEMMA RawSent ==
    ASSUME NEW c, OK(c), NEW line \in Line,
           NEW d, d = SendRaw(c, line)
    PROVE  /\ After(c, 0, d) /\ Fds(d) = Fds(c)
           /\ d.status = c.status /\ d.socket = c.socket
           /\ d \in Conn
           /\ \A x \in Fds(c) : Sendq(c, x) # <<>> => Sendq(d, x) # <<>>
           /\ c.status \in Active => Sendq(d, c.socket) # <<>>
<1>0. c \in Conn /\ Good(c) /\ (c.status \in Active => c.socket \in Fds(c))
  BY DEF OK, Good, Served
<1>1. CASE c.status \notin Active \/ c.socket \notin Fds(c)
  <2>1. d = c
    BY <1>1 DEF SendRaw
  <2>2. After(c, 0, c)
    BY DEF After
  <2> QED BY <1>0, <1>1, <2>1, <2>2
<1>2. CASE ~(c.status \notin Active \/ c.socket \notin Fds(c))
  <2>1. PICK k \in 1..Len(c.pool) :
          /\ k = Index(c, c.socket) /\ c.pool[k] \in Sock
          /\ c.pool[k].fd = c.socket /\ c.pool \in Seq(Sock)
    BY <1>0, <1>2, IndexOf
  <2> DEFINE s == [c.pool[k] EXCEPT !.sendq = Append(@, line)]
             pool == [c.pool EXCEPT ![k] = s]
             pinged == c.pinged \/ line = "PING"
  <2>2. d = [c EXCEPT !.pool = pool, !.pinged = pinged]
    BY <1>2, <2>1 DEF SendRaw
  <2>3. /\ s \in Sock /\ s.fd = c.socket /\ s.sendq # <<>>
        /\ s.closing = c.pool[k].closing
    <3>1. c.pool[k].sendq \in Seq(Line)
      BY <2>1 DEF Sock
    <3>2. /\ Append(c.pool[k].sendq, line) \in Seq(Line)
          /\ Append(c.pool[k].sendq, line) # <<>>
      BY <3>1, AppendProperties
    <3> QED BY <2>1, <3>2 DEF Sock
  <2> HIDE DEF s
  <2>4. pool \in Seq(Sock)
    BY <2>1, <2>3, ExceptSeq
  <2>5. pinged \in BOOLEAN
    OBVIOUS
  <2> HIDE DEF pool, pinged
  <2>6. /\ d \in Conn /\ d.pool = pool /\ d.status = c.status /\ d.socket = c.socket
        /\ d.open = c.open /\ d.told = c.told /\ d.sound = c.sound
        /\ d.timer = c.timer /\ d.ref = c.ref
    BY <1>0, <2>2, <2>4, <2>5 DEF Conn
  <2>7. pool = [c.pool EXCEPT ![Index(c, c.socket)] = s]
    BY <2>1 DEF pool
  <2>8. /\ After(c, 0, d) /\ Fds(d) = Fds(c)
        /\ \A x \in Fds(c) : Sendq(d, x) = IF x = c.socket THEN s.sendq ELSE Sendq(c, x)
    BY <1>2, <2>1, <2>3, <2>6, <2>7, ChangeSock
  <2> QED BY <1>2, <2>3, <2>6, <2>8
<1> QED BY <1>1, <1>2

\* irclib_shutdown, and the status that its callers set before or after it.
LEMMA WasShut ==
    ASSUME NEW c, Good(c), NEW status \in {"DISCONNECTED", "QUITED"},
           NEW d, d = [Shutdown(c) EXCEPT !.status = status]
    PROVE  /\ Good(d) /\ d.pool = c.pool /\ d.open = c.open /\ Fds(d) = Fds(c)
           /\ d.status = status /\ d.socket = c.socket
<1>1. c \in Conn /\ (c.sound => (c.timer <=> c.ref))
  BY DEF Good
<1> DEFINE sound == c.sound /\ ~c.freed /\ (c.ref => c.timer)
           timer == c.timer /\ ~c.ref
<1>2. d = [c EXCEPT !.sound = sound, !.timer = timer, !.ref = FALSE, !.status = status]
  BY <1>1 DEF Shutdown, Conn
<1>3. /\ sound \in BOOLEAN /\ timer \in BOOLEAN /\ status \in Status
      /\ sound => ~timer
  BY <1>1 DEF Status
<1> HIDE DEF sound, timer
<1>4. /\ d \in Conn /\ d.pool = c.pool /\ d.open = c.open /\ d.told = c.told
      /\ d.status = status /\ d.socket = c.socket
      /\ d.sound = sound /\ d.timer = timer /\ d.ref = FALSE
  BY <1>1, <1>2, <1>3 DEF Conn
<1>5. Fds(d) = Fds(c)
  BY <1>4 DEF Fds
<1> QED BY <1>3, <1>4, <1>5 DEF Good

\* A connection that is neither made nor being made needs no watching.
LEMMA IdleOK ==
    ASSUME NEW c, Good(c), c.status \notin Active
    PROVE  OK(c)
BY DEF OK, Served

\* irclib_connect that gets through: the new socket is the last of the pool.
LEMMA ConnectedOK ==
    ASSUME NEW c, Good(c), NEW fd \in Fd \ c.open, NEW d, d = Connected(c, fd)
    PROVE  /\ OK(d) /\ Fds(d) = Fds(c) \cup {fd}
           /\ d.status = "CONNECTING" /\ d.socket = fd
           /\ d.open = c.open \cup {fd}
<1> DEFINE s == [fd |-> fd, sendq |-> <<"NICK", "USER">>, closing |-> FALSE]
           sound == c.sound /\ ~c.freed
           timer == c.timer \/ ~c.ref
           age == IF c.ref THEN c.age ELSE 0
<1>1. /\ c \in Conn /\ c.pool \in Seq(Sock) /\ Len(c.pool) \in Nat
      /\ DOMAIN c.pool = 1..Len(c.pool)
  BY LenProperties DEF Good, Conn
<1>2. s \in Sock /\ s.fd = fd
  BY DEF Sock, Line
<1>3. d = [c EXCEPT !.status = "CONNECTING", !.socket = fd, !.open = @ \cup {fd},
                    !.pool = Append(@, s), !.pinged = FALSE, !.sound = sound,
                    !.timer = timer, !.ref = TRUE, !.age = age]
  BY DEF Connected
<1>4. /\ Append(c.pool, s) \in Seq(Sock) /\ Len(Append(c.pool, s)) = Len(c.pool) + 1
      /\ \A i \in 1..Len(c.pool) : Append(c.pool, s)[i] = c.pool[i]
      /\ Append(c.pool, s)[Len(c.pool) + 1] = s
  BY <1>1, <1>2, AppendProperties
<1>5. /\ sound \in BOOLEAN /\ timer \in BOOLEAN /\ age \in 0..1
      /\ "CONNECTING" \in Status
      /\ sound => timer
  BY <1>1 DEF Good, Conn, Status, Active
<1> HIDE DEF s, sound, timer, age
<1>6. /\ d \in Conn /\ d.pool = Append(c.pool, s) /\ d.open = c.open \cup {fd}
      /\ d.status = "CONNECTING" /\ d.socket = fd /\ d.told = c.told
      /\ d.sound = sound /\ d.timer = timer /\ d.ref = TRUE
  <2>1. c.open \cup {fd} \in SUBSET Fd /\ fd \in Fd \cup {0}
    BY <1>1 DEF Conn
  <2>2. Append(c.pool, s) \in Seq(Sock)
    BY <1>4
  <2> DEFINE pool == Append(c.pool, s)
             open == c.open \cup {fd}
  <2> HIDE DEF pool, open
  <2>3. d = [c EXCEPT !.status = "CONNECTING", !.socket = fd, !.open = open,
                      !.pool = pool, !.pinged = FALSE, !.sound = sound,
                      !.timer = timer, !.ref = TRUE, !.age = age]
    BY <1>3 DEF pool, open
  <2>4. pool \in Seq(Sock) /\ open \in SUBSET Fd
    BY <2>1, <2>2 DEF pool, open
  <2>5. d = [status |-> "CONNECTING", socket |-> fd, pool |-> pool, open |-> open,
             timer |-> timer, ref |-> TRUE, age |-> age, quiet |-> c.quiet,
             pinged |-> FALSE, told |-> c.told, failed |-> c.failed,
             freed |-> c.freed, sound |-> sound]
    BY <1>1, <2>3 DEF Conn
  <2>6. /\ c.quiet \in 0..Stoned /\ c.told \in SUBSET Fd
        /\ c.failed \in 0..MaxFailures /\ c.freed \in BOOLEAN
    BY <1>1 DEF Conn
  <2>7. d \in Conn
    BY ONLY <1>5, <2>1, <2>4, <2>5, <2>6 DEF Conn
  <2> QED BY <2>5, <2>7 DEF pool, open
<1>7. DOMAIN d.pool = 1..Len(c.pool) + 1
  BY <1>4, <1>6, LenProperties
<1>8. /\ \A i \in 1..Len(c.pool) + 1 : i \in 1..Len(c.pool) \/ i = Len(c.pool) + 1
      /\ \A i \in 1..Len(c.pool) : i \in 1..Len(c.pool) + 1
      /\ Len(c.pool) + 1 \in 1..Len(c.pool) + 1
  BY <1>1
<1>9. Fds(d) = Fds(c) \cup {fd}
  BY <1>1, <1>2, <1>4, <1>6, <1>7, <1>8 DEF Fds
<1>10. \A i \in 1..Len(c.pool) : c.pool[i].fd # fd
  BY <1>1 DEF Good, Fds
<1>11. Distinct(d.pool)
  <2> SUFFICES ASSUME NEW i \in DOMAIN d.pool, NEW j \in DOMAIN d.pool,
                      d.pool[i].fd = d.pool[j].fd
               PROVE  i = j
    BY DEF Distinct
  <2>1. CASE i \in 1..Len(c.pool) /\ j \in 1..Len(c.pool)
    BY <1>1, <1>4, <1>6, <2>1 DEF Good, Distinct
  <2>2. CASE i = Len(c.pool) + 1 /\ j \in 1..Len(c.pool)
    BY <1>2, <1>4, <1>6, <1>10, <2>2
  <2>3. CASE i \in 1..Len(c.pool) /\ j = Len(c.pool) + 1
    BY <1>2, <1>4, <1>6, <1>10, <2>3
  <2> QED BY <1>7, <1>8, <2>1, <2>2, <2>3
<1>12. Good(d)
  BY <1>5, <1>6, <1>9, <1>11 DEF Good
<1>13. Served(d)
  BY <1>5, <1>6, <1>9 DEF Served
<1> QED BY <1>6, <1>9, <1>12, <1>13 DEF OK

\* An unused descriptor, as Connect takes it.
LEMMA Unused ==
    ASSUME NEW S \in SUBSET Fd, S # {}
    PROVE  Min(S) \in S
<1>1. S \in SUBSET Nat
  BY ConnectionAssumption DEF ConnectionAssumption
<1>2. \E i \in S : \A j \in S : i <= j
  BY <1>1, LeastPosition
<1> QED BY <1>2, Zenon DEF Min

\* irclib_connect of a connection that is not in use: either there is one
\* socket more, with an unused descriptor, or the connection is down.
LEMMA ConnectOK ==
    ASSUME NEW c, Good(c), c.status \notin Active, NEW d \in Connect(c)
    PROVE  /\ OK(d) /\ Fds(c) \subseteq Fds(d)
           /\ \/ Fds(d) = Fds(c) /\ d.status = "DISCONNECTED"
              \/ d.socket \in Fd \ c.open /\ Fds(d) = Fds(c) \cup {d.socket}
                 /\ d.status = "CONNECTING"
<1> DEFINE unused == Fd \ c.open
           fd == Min(unused)
           down == [c EXCEPT !.status = "DISCONNECTED"]
<1>0. c \in Conn
  BY DEF Good
<1>1. \/ unused = {} /\ d = [down EXCEPT !.socket = 0]
      \/ unused # {} /\ d = Connected(c, fd)
      \/ unused # {} /\ c.failed # MaxFailures /\ d = [down EXCEPT !.failed = @ + 1]
      \/ unused # {} /\ c.failed # MaxFailures
         /\ d = [down EXCEPT !.failed = @ + 1, !.socket = fd, !.open = @ \cup {fd}]
  BY DEF Connect
<1>2. unused # {} => fd \in Fd \ c.open
  BY Unused
<1> HIDE DEF unused, fd
<1>3. CASE unused # {} /\ d = Connected(c, fd)
  BY <1>2, <1>3, ConnectedOK
<1>4. ASSUME d \in Conn, d.pool = c.pool, d.status = "DISCONNECTED", d.told = c.told,
             c.open \subseteq d.open,
             d.sound = c.sound, d.timer = c.timer, d.ref = c.ref
      PROVE  OK(d) /\ Fds(d) = Fds(c)
  <2>1. Fds(d) = Fds(c)
    BY <1>4 DEF Fds
  <2>2. Good(d)
    BY <1>4, <2>1 DEF Good
  <2> QED BY <1>4, <2>1, <2>2, IdleOK DEF Active
<1>5. "DISCONNECTED" \in Status /\ (c.failed # MaxFailures => c.failed + 1 \in 0..MaxFailures)
  BY <1>0, ConnectionAssumption DEF Status, Conn, ConnectionAssumption
<1>6. CASE d = [down EXCEPT !.socket = 0]
  <2>1. /\ d \in Conn /\ d.pool = c.pool /\ d.status = "DISCONNECTED" /\ d.told = c.told
        /\ d.open = c.open /\ d.sound = c.sound /\ d.timer = c.timer /\ d.ref = c.ref
    BY <1>0, <1>5, <1>6 DEF Conn
  <2> QED BY <1>4, <2>1
<1>7. CASE c.failed # MaxFailures /\ d = [down EXCEPT !.failed = @ + 1]
  <2>1. /\ d \in Conn /\ d.pool = c.pool /\ d.status = "DISCONNECTED" /\ d.told = c.told
        /\ d.open = c.open /\ d.sound = c.sound /\ d.timer = c.timer /\ d.ref = c.ref
    BY <1>0, <1>5, <1>7 DEF Conn
  <2> QED BY <1>4, <2>1
<1>8. CASE unused # {} /\ c.failed # MaxFailures
           /\ d = [down EXCEPT !.failed = @ + 1, !.socket = fd, !.open = @ \cup {fd}]
  <2>1. fd \in Fd \cup {0} /\ c.open \cup {fd} \in SUBSET Fd
    BY <1>0, <1>2, <1>8 DEF Conn
  <2>2. /\ d \in Conn /\ d.pool = c.pool /\ d.status = "DISCONNECTED" /\ d.told = c.told
        /\ c.open \subseteq d.open /\ d.sound = c.sound /\ d.timer = c.timer /\ d.ref = c.ref
    BY <1>0, <1>5, <1>8, <2>1 DEF Conn
  <2> QED BY <1>4, <2>2
<1> QED BY <1>1, <1>3, <1>6, <1>7, <1>8

-----------------------------------------------------------------------------
(* The end of a socket.                                                    *)

\* close and socketpool_remove, of a socket that is not the one in use.
LEMMA Dropped ==
    ASSUME NEW c, OK(c), NEW fd \in Fds(c), c.status \in Active => c.socket # fd,
           NEW d, d = Drop(c, fd)
    PROVE  /\ OK(d) /\ Fds(d) = Fds(c) \ {fd}
           /\ d.status = c.status /\ d.socket = c.socket
<1>0. c \in Conn /\ Good(c) /\ Served(c)
  BY DEF OK, Good
<1>1. PICK k \in 1..Len(c.pool) :
        /\ k = Index(c, fd) /\ c.pool \in Seq(Sock) /\ c.pool[k].fd = fd
        /\ DOMAIN c.pool = 1..Len(c.pool)
        /\ \A i \in DOMAIN c.pool : c.pool[i].fd = fd => i = k
  BY <1>0, IndexOf
<1> DEFINE list == c.pool
           rest == RemoveAt(list, k)
           from == Origin(list, k)
           open == c.open \ {fd}
           told == c.told \ {fd}
<1>2. d = [c EXCEPT !.pool = rest, !.open = open, !.told = told]
  BY <1>1 DEF Drop
<1>30. /\ rest = RemoveAt(list, k) /\ from = Origin(list, k) /\ list = c.pool
       /\ list \in Seq(Sock) /\ k \in 1..Len(list)
  BY <1>1
<1>4. open \in SUBSET Fd /\ told \in SUBSET Fd
  BY <1>0 DEF Conn
<1> HIDE DEF rest, from, open, told, list
<1>31. rest \in Seq(Sock)
  BY ONLY <1>30, RemoveAtOrigin
<1>32. \A i \in DOMAIN rest :
         from[i] \in DOMAIN list /\ from[i] # k /\ rest[i] = list[from[i]]
  BY ONLY <1>30, RemoveAtOrigin
<1>33. \A i, j \in DOMAIN rest : from[i] = from[j] => i = j
  BY ONLY <1>30, RemoveAtOrigin
<1>34. \A m \in DOMAIN list : m # k => \E i \in DOMAIN rest : from[i] = m
  BY ONLY <1>30, RemoveAtOrigin
<1>3. /\ \A i \in DOMAIN rest :
           from[i] \in DOMAIN c.pool /\ from[i] # k /\ rest[i] = c.pool[from[i]]
      /\ \A m \in DOMAIN c.pool : m # k => \E i \in DOMAIN rest : from[i] = m
  BY <1>30, <1>32, <1>34
<1>5. /\ d \in Conn /\ d.pool = rest /\ d.open = open /\ d.told = told
      /\ d.status = c.status /\ d.socket = c.socket
      /\ d.sound = c.sound /\ d.timer = c.timer /\ d.ref = c.ref
  <2>1. d = [status |-> c.status, socket |-> c.socket, pool |-> rest, open |-> open,
             timer |-> c.timer, ref |-> c.ref, age |-> c.age, quiet |-> c.quiet,
             pinged |-> c.pinged, told |-> told, failed |-> c.failed,
             freed |-> c.freed, sound |-> c.sound]
    BY <1>0, <1>2 DEF Conn
  <2>2. /\ c.status \in Status /\ c.socket \in Fd \cup {0} /\ c.timer \in BOOLEAN
        /\ c.ref \in BOOLEAN /\ c.age \in 0..1 /\ c.quiet \in 0..Stoned
        /\ c.pinged \in BOOLEAN /\ c.failed \in 0..MaxFailures
        /\ c.freed \in BOOLEAN /\ c.sound \in BOOLEAN
    BY <1>0 DEF Conn
  <2>3. d \in Conn
    BY ONLY <1>31, <1>4, <2>1, <2>2 DEF Conn
  <2> QED BY <2>1, <2>3
<1>6. Fds(d) \subseteq Fds(c) \ {fd}
  BY <1>1, <1>3, <1>5 DEF Fds
<1>7. Fds(c) \ {fd} \subseteq Fds(d)
  <2> SUFFICES ASSUME NEW m \in DOMAIN c.pool, c.pool[m].fd # fd
               PROVE  c.pool[m].fd \in Fds(d)
    BY DEF Fds
  <2>1. PICK i \in DOMAIN rest : from[i] = m
    BY <1>1, <1>3
  <2>2. rest[i] = c.pool[m]
    BY <1>3, <2>1
  <2> QED BY <1>5, <2>1, <2>2 DEF Fds
<1>8. Distinct(d.pool)
  BY <1>0, <1>3, <1>33, <1>5 DEF Good, Distinct
<1>9. Good(d)
  BY <1>0, <1>5, <1>6, <1>7, <1>8 DEF Good, open, told
<1>10. Served(d)
  <2>1. ASSUME d.status \in Active, d.sound, ~d.timer, NEW i \in DOMAIN d.pool,
               d.pool[i].fd = d.socket
        PROVE  d.pool[i].closing
    BY <1>0, <1>3, <1>5, <2>1 DEF Served
  <2>2. d.status \in Active => d.socket \in Fds(d)
    BY <1>0, <1>5, <1>7 DEF Served
  <2> QED BY <2>1, <2>2 DEF Served
<1> QED BY <1>5, <1>6, <1>7, <1>9, <1>10 DEF OK

\* irclib_closed, before the socket is dropped: the connection that is made
\* again has another descriptor.
LEMMA WasClosed ==
    ASSUME NEW c, OK(c), NEW d \in Closed(c)
    PROVE  /\ OK(d)
           /\ c.status = "QUITED" => d.status = "QUITED"
           /\ \/ Fds(d) = Fds(c) /\ d.status \in {"DISCONNECTED", "QUITED"}
              \/ d.socket \notin Fds(c) /\ Fds(d) = Fds(c) \cup {d.socket}
                 /\ d.status = "CONNECTING"
<1>0. Good(c)
  BY DEF OK
<1>1. CASE c.status = "QUITED"
  <2>1. d = Shutdown(c)
    BY <1>1 DEF Closed
  <2>2. [Shutdown(c) EXCEPT !.status = "QUITED"] = Shutdown(c)
    BY <1>0, <1>1 DEF Shutdown, Good, Conn
  <2>3. Good(d) /\ Fds(d) = Fds(c) /\ d.status = "QUITED"
    BY <1>0, <2>1, <2>2, WasShut
  <2> QED BY <1>1, <2>3, IdleOK DEF Active
<1>2. CASE c.status # "QUITED"
  <2> DEFINE s == [Shutdown(c) EXCEPT !.status = "DISCONNECTED"]
  <2>1. d \in IF Reconnect THEN Connect(s) ELSE {s}
    BY <1>2 DEF Closed
  <2>2. Good(s) /\ Fds(s) = Fds(c) /\ s.open = c.open /\ s.status = "DISCONNECTED"
    BY <1>0, WasShut
  <2> HIDE DEF s
  <2>3. s.status \notin Active /\ Fds(c) \subseteq s.open
    BY <1>0, <2>2 DEF Active, Good
  <2>4. CASE d = s
    BY <1>2, <2>2, <2>3, <2>4, IdleOK
  <2>5. CASE d \in Connect(s)
    <3>1. /\ OK(d)
          /\ \/ Fds(d) = Fds(s) /\ d.status = "DISCONNECTED"
             \/ d.socket \in Fd \ s.open /\ Fds(d) = Fds(s) \cup {d.socket}
                /\ d.status = "CONNECTING"
      BY <2>2, <2>3, <2>5, ConnectOK
    <3> QED BY <1>2, <2>2, <2>3, <3>1
  <2> QED BY <2>1, <2>4, <2>5
<1> QED BY <1>1, <1>2

\* A socket that is to be closed is marked, and stays.
LEMMA Marked ==
    ASSUME NEW c, OK(c), NEW fd \in Fds(c),
           NEW d, d = [c EXCEPT !.pool[Index(c, fd)].closing = TRUE]
    PROVE  /\ After(c, 0, d) /\ Fds(d) = Fds(c) /\ d.pool[Index(d, fd)].closing
           /\ d.status = c.status /\ d.socket = c.socket
           /\ \A x \in Fds(c) : Sendq(d, x) = Sendq(c, x)
<1>0. c \in Conn /\ Good(c)
  BY DEF OK, Good
<1>1. PICK k \in 1..Len(c.pool) :
        /\ k = Index(c, fd) /\ c.pool \in Seq(Sock) /\ c.pool[k].fd = fd
        /\ c.pool[k] \in Sock /\ k \in DOMAIN c.pool
  BY <1>0, IndexOf
<1> DEFINE s == [c.pool[k] EXCEPT !.closing = TRUE]
           pool == [c.pool EXCEPT ![k] = s]
<1>2. d = [c EXCEPT !.pool = pool]
  BY <1>1
<1>3. s \in Sock /\ s.fd = fd /\ s.closing /\ s.sendq = c.pool[k].sendq
  BY <1>1 DEF Sock
<1> HIDE DEF s
<1>4. pool \in Seq(Sock)
  BY <1>1, <1>3, ExceptSeq
<1> HIDE DEF pool
<1>5. /\ d \in Conn /\ d.pool = pool /\ d.status = c.status /\ d.socket = c.socket
      /\ d.open = c.open /\ d.told = c.told /\ d.sound = c.sound
      /\ d.timer = c.timer /\ d.ref = c.ref
  BY <1>0, <1>2, <1>4 DEF Conn
<1>6. /\ c.pool[Index(c, fd)].closing => s.closing
      /\ d.pool = [c.pool EXCEPT ![Index(c, fd)] = s]
      /\ d.told \subseteq c.told \cup {fd}
  BY <1>1, <1>3, <1>5 DEF pool
<1>7. After(c, 0, d) /\ Fds(d) = Fds(c)
  BY ONLY OK(c), fd \in Fds(c), <1>3, <1>5, <1>6, ChangeSock
<1>8. Index(d, fd) = Index(c, fd)
  BY ONLY OK(c), fd \in Fds(c), <1>3, <1>5, <1>6, ChangeSock
<1>9. \A x \in Fds(c) : Sendq(d, x) = IF x = fd THEN s.sendq ELSE Sendq(c, x)
  BY ONLY OK(c), fd \in Fds(c), <1>3, <1>5, <1>6, ChangeSock
<1>10. d.pool[Index(d, fd)].closing
  BY <1>1, <1>3, <1>6, <1>8
<1>11. Sendq(c, fd) = s.sendq
  BY <1>1, <1>3 DEF Sendq
<1> QED BY <1>5, <1>7, <1>9, <1>10, <1>11

\* socketpool_close: what is queued delays it; else the socket is gone.
LEMMA CloseOK ==
    ASSUME NEW c, OK(c), NEW fd \in Fd \cup {0}, NEW d \in Close(c, fd)
    PROVE  /\ After(c, fd, d)
           /\ fd \in Fds(c) /\ Sendq(c, fd) # <<>> =>
                /\ Fds(d) = Fds(c) /\ Sendq(d, fd) # <<>>
                /\ d.status = c.status /\ d.socket = c.socket
                /\ d.pool[Index(d, fd)].closing
           /\ fd \in Fds(c) /\ Sendq(c, fd) = <<>> => fd \notin Fds(d)
           /\ fd \notin Fds(c) =>
                Fds(d) = Fds(c) /\ d.status = c.status /\ d.socket = c.socket
<1>0. c \in Conn /\ Good(c) /\ Served(c)
  BY DEF OK, Good
<1>1. CASE fd \notin Fds(c)
  <2> DEFINE open == c.open \ {fd}
  <2>1. d = [c EXCEPT !.open = open]
    BY <1>1 DEF Close
  <2>2. open \in SUBSET Fd /\ Fds(c) \subseteq open
    BY <1>0, <1>1 DEF Conn, Good
  <2> HIDE DEF open
  <2>3. /\ d \in Conn /\ d.pool = c.pool /\ d.open = open /\ d.told = c.told
        /\ d.status = c.status /\ d.socket = c.socket
        /\ d.sound = c.sound /\ d.timer = c.timer /\ d.ref = c.ref
    BY <1>0, <2>1, <2>2 DEF Conn
  <2>4. Fds(d) = Fds(c)
    BY <2>3 DEF Fds
  <2>5. Good(d) /\ Served(d)
    BY <1>0, <2>2, <2>3, <2>4 DEF Good, Served
  <2>6. Lone(c) => Lone(d)
    BY <2>3, <2>4 DEF Lone
  <2> QED BY <1>1, <2>3, <2>4, <2>5, <2>6 DEF After, OK
<1>2. CASE fd \in Fds(c) /\ Sendq(c, fd) # <<>>
  <2>1. d = [c EXCEPT !.pool[Index(c, fd)].closing = TRUE]
    BY <1>2 DEF Close
  <2>2. /\ After(c, 0, d) /\ Fds(d) = Fds(c) /\ d.pool[Index(d, fd)].closing
        /\ d.status = c.status /\ d.socket = c.socket
        /\ \A x \in Fds(c) : Sendq(d, x) = Sendq(c, x)
    BY <1>2, <2>1, Marked
  <2> QED BY <1>2, <2>2, AfterNone
<1>3. CASE fd \in Fds(c) /\ Sendq(c, fd) = <<>>
  <2>1. PICK x \in Closed(c) : d = Drop(x, fd)
    BY <1>3 DEF Close
  <2>2. /\ OK(x)
        /\ c.status = "QUITED" => x.status = "QUITED"
        /\ \/ Fds(x) = Fds(c) /\ x.status \in {"DISCONNECTED", "QUITED"}
           \/ x.socket \notin Fds(c) /\ Fds(x) = Fds(c) \cup {x.socket}
              /\ x.status = "CONNECTING"
    BY WasClosed
  <2>3. fd \in Fds(x) /\ (x.status \in Active => x.socket # fd)
    BY <1>3, <2>2 DEF Active
  <2>4. OK(d) /\ Fds(d) = Fds(x) \ {fd} /\ d.status = x.status
    BY <2>1, <2>2, <2>3, Dropped
  <2>5. Lone(c) => Lone(d)
    BY <1>3, <2>2, <2>4 DEF Lone
  <2> QED BY <1>3, <2>2, <2>4, <2>5 DEF After
<1> QED BY <1>1, <1>2, <1>3

\* socketpool_sendnode: of what is queued one line goes out, and perhaps the
\* socket is closed.
LEMMA SendNodeOK ==
    ASSUME NEW c, OK(c), NEW fd \in Fds(c), Sendq(c, fd) # <<>>,
           NEW d \in SendNode(c, fd)
    PROVE  After(c, fd, d)
<1>0. c \in Conn /\ Good(c)
  BY DEF OK, Good
<1>1. PICK k \in 1..Len(c.pool) :
        /\ k = Index(c, fd) /\ c.pool \in Seq(Sock) /\ c.pool[k].fd = fd
        /\ c.pool[k] \in Sock /\ k \in DOMAIN c.pool /\ fd \in Fd
  BY <1>0, IndexOf
<1> DEFINE s == [c.pool[k] EXCEPT !.sendq = Tail(@)]
           pool == [c.pool EXCEPT ![k] = s]
           told == IF Head(c.pool[k].sendq) = "QUIT" THEN c.told \cup {fd} ELSE c.told
           e == [c EXCEPT !.pool = pool, !.told = told]
<1>2. d \in IF e.pool[k].sendq = <<>> /\ e.pool[k].closing THEN Close(e, fd) ELSE {e}
  BY <1>1 DEF SendNode
<1>3. s \in Sock /\ s.fd = fd /\ s.closing = c.pool[k].closing
  <2>1. c.pool[k].sendq \in Seq(Line) /\ c.pool[k].sendq # <<>>
    BY <1>1 DEF Sock, Sendq
  <2>2. Tail(c.pool[k].sendq) \in Seq(Line)
    BY <2>1, HeadTailProperties
  <2> QED BY <1>1, <2>2 DEF Sock
<1> HIDE DEF s
<1>4. pool \in Seq(Sock)
  BY <1>1, <1>3, ExceptSeq
<1>5. told \in SUBSET Fd /\ told \subseteq c.told \cup {fd}
  BY <1>0, <1>1 DEF Conn
<1> HIDE DEF pool, told
<1>6. /\ e \in Conn /\ e.pool = pool /\ e.status = c.status /\ e.socket = c.socket
      /\ e.open = c.open /\ e.told = told /\ e.sound = c.sound
      /\ e.timer = c.timer /\ e.ref = c.ref
  BY <1>0, <1>4, <1>5 DEF Conn
<1> HIDE DEF e
<1>7. /\ c.pool[Index(c, fd)].closing => s.closing
      /\ e.pool = [c.pool EXCEPT ![Index(c, fd)] = s]
      /\ e.told \subseteq c.told \cup {fd}
  BY <1>1, <1>3, <1>5, <1>6 DEF pool
<1>8. After(c, 0, e)
  BY <1>3, <1>6, <1>7, ChangeSock
<1>9. After(c, fd, e) /\ OK(e)
  BY <1>8, AfterNone DEF After
<1>10. CASE d = e
  BY <1>9, <1>10
<1>11. CASE d \in Close(e, fd)
  BY <1>1, <1>9, <1>11, CloseOK, AfterTwo
<1> QED BY <1>2, <1>10, <1>11

\* irclib_parse: whatever the line, no socket is closed.
LEMMA ParseOK ==
    ASSUME NEW c, OK(c), NEW line \in Lines, NEW d, d = Parse(c, line)
    PROVE  /\ After(c, 0, d) /\ Fds(d) = Fds(c)
           /\ \A x \in Fds(c) : Sendq(c, x) # <<>> => Sendq(d, x) # <<>>
<1>0. c \in Conn /\ 0 \in 0..Stoned
  BY DEF OK, Good, Stoned
<1> DEFINE heard == [c EXCEPT !.quiet = 0]
<1>1. /\ After(c, 0, heard) /\ Fds(heard) = Fds(c)
      /\ \A x : Sendq(heard, x) = Sendq(c, x)
  <2>1. /\ heard \in Conn /\ heard.pool = c.pool /\ heard.socket = c.socket
        /\ heard.open = c.open /\ heard.told = c.told /\ heard.sound = c.sound
        /\ heard.timer = c.timer /\ heard.ref = c.ref /\ heard.status = c.status
    BY <1>0 DEF Conn
  <2> HIDE DEF heard
  <2> QED BY <2>1, SamePool
<1>2. CASE line = "ENDOFMOTD"
  <2> DEFINE status == IF c.status = "CONNECTING" THEN "CONNECTED" ELSE c.status
  <2>1. d = [c EXCEPT !.quiet = 0, !.status = status]
    BY <1>2 DEF Parse
  <2>2. /\ status \in Status
        /\ status = c.status \/ {c.status, status} \subseteq Active
    BY <1>0 DEF Conn, Status, Active
  <2> HIDE DEF status
  <2>3. /\ d \in Conn /\ d.pool = c.pool /\ d.socket = c.socket
        /\ d.open = c.open /\ d.told = c.told /\ d.sound = c.sound
        /\ d.timer = c.timer /\ d.ref = c.ref /\ d.status = status
    BY <1>0, <2>1, <2>2 DEF Conn
  <2> QED BY <2>2, <2>3, SamePool
<1>3. CASE line = "PING"
  <2>1. d = SendRaw(heard, "PONG")
    BY <1>3 DEF Parse
  <2>2. OK(heard) /\ "PONG" \in Line
    BY <1>1 DEF After, Line
  <2> HIDE DEF heard
  <2>3. /\ After(heard, 0, d) /\ Fds(d) = Fds(heard)
        /\ \A x \in Fds(heard) : Sendq(heard, x) # <<>> => Sendq(d, x) # <<>>
    BY <2>1, <2>2, RawSent
  <2> QED BY <1>1, <2>3, AfterTwo
<1>4. CASE line = "TEXT"
  <2>1. d = heard
    BY <1>4 DEF Parse
  <2> QED BY <1>1, <2>1
<1> QED BY <1>2, <1>3, <1>4 DEF Lines

\* irclib_timercheckalive: without its timer, the socket in use is on its way
\* out.
LEMMA CheckAliveOK ==
    ASSUME NEW c, OK(c), NEW d \in CheckAlive(c)
    PROVE  After(c, c.socket, d)
<1>0. c \in Conn /\ c.socket \in Fd \cup {0}
  BY DEF OK, Good, Conn
<1> DEFINE set == [c EXCEPT !.age = 0]
<1>1. After(c, 0, set)
  <2>1. /\ set \in Conn /\ set.pool = c.pool /\ set.socket = c.socket
        /\ set.open = c.open /\ set.told = c.told /\ set.sound = c.sound
        /\ set.timer = c.timer /\ set.ref = c.ref /\ set.status = c.status
    BY <1>0 DEF Conn
  <2> HIDE DEF set
  <2> QED BY <2>1, SamePool
<1>2. CASE c.quiet = Stoned
  <2> DEFINE s == SendRaw(c, "QUIT")
  <2>1. PICK x \in Close(s, s.socket) :
          d = [x EXCEPT !.sound = @ /\ Fds(x) = Fds(s), !.timer = FALSE, !.ref = FALSE]
    <3> DEFINE F(y) ==
                 {[x EXCEPT !.sound = @ /\ Fds(x) = Fds(y), !.timer = FALSE, !.ref = FALSE] :
                     x \in Close(y, y.socket)}
    <3>1. d \in UNION {F(y) : y \in {s}}
      BY <1>2 DEF CheckAlive
    <3> HIDE DEF s, F
    <3>2. d \in F(s)
      BY <3>1
    <3> QED BY <3>2 DEF F
  <2>2. /\ After(c, 0, s) /\ s.status = c.status /\ s.socket = c.socket
        /\ s.status \in Active => Sendq(s, s.socket) # <<>>
    BY RawSent DEF Line
  <2> HIDE DEF s
  <2>3. OK(s)
    BY <2>2 DEF After
  <2>4. After(s, s.socket, x)
    BY <1>0, <2>2, <2>3, CloseOK
  <2> DEFINE sound == x.sound /\ Fds(x) = Fds(s)
  <2>5. /\ d \in Conn /\ d.pool = x.pool /\ d.status = x.status /\ d.socket = x.socket
        /\ d.open = x.open /\ d.told = x.told /\ d.timer = FALSE /\ d.ref = FALSE
        /\ d.sound = sound
    <3>1. x \in Conn /\ sound \in BOOLEAN
      BY <2>4 DEF After, OK, Good, Conn
    <3>2. d = [x EXCEPT !.sound = sound, !.timer = FALSE, !.ref = FALSE]
      BY <2>1, <3>1 DEF Conn
    <3> HIDE DEF sound
    <3> QED BY <3>1, <3>2 DEF Conn
  <2>6. ASSUME d.status \in Active, d.sound, NEW i \in DOMAIN d.pool,
               d.pool[i].fd = d.socket
        PROVE  d.pool[i].closing
    <3>1. CASE s.socket \notin Fds(s)
      BY <1>0, <2>2, <2>3, <2>5, <2>6, <3>1, CloseOK DEF OK, Served
    <3>2. CASE s.socket \in Fds(s) /\ Sendq(s, s.socket) = <<>>
      BY <1>0, <2>2, <2>3, <2>5, <2>6, <3>2, CloseOK
    <3>3. CASE s.socket \in Fds(s) /\ Sendq(s, s.socket) # <<>>
      <4>1. /\ x.socket = s.socket /\ s.socket \in Fds(x)
            /\ x.pool[Index(x, s.socket)].closing
        BY <1>0, <2>2, <2>3, <3>3, CloseOK
      <4>2. i = Index(x, s.socket)
        BY <2>4, <2>5, <2>6, <4>1, IndexOf DEF After, OK
      <4> QED BY <2>5, <4>1, <4>2
    <3> QED BY <3>1, <3>2, <3>3
  <2> HIDE DEF sound
  <2>7. Fds(d) = Fds(x)
    BY <2>5 DEF Fds
  <2>8. Good(d)
    BY <2>4, <2>5, <2>7 DEF After, OK, Good
  <2>9. Served(d)
    BY <2>4, <2>5, <2>6, <2>7 DEF After, OK, Served
  <2>10. After(s, s.socket, d)
    BY <2>4, <2>5, <2>7, <2>8, <2>9 DEF After, OK, Lone
  <2> QED BY <2>2, <2>10, AfterTwo, AfterNone
<1>3. CASE c.quiet # Stoned /\ c.quiet > 1
  <2>1. d = SendRaw(set, "PING") /\ OK(set) /\ "PING" \in Line
    BY <1>1, <1>3 DEF CheckAlive, After, Line
  <2> HIDE DEF set
  <2>2. After(set, 0, d)
    BY <2>1, RawSent
  <2> QED BY <1>1, <2>2, AfterTwo, AfterNone
<1>4. CASE c.quiet # Stoned /\ ~(c.quiet > 1)
  <2>1. d = set
    BY <1>4 DEF CheckAlive
  <2> QED BY <1>1, <2>1, AfterNone
<1> QED BY <1>2, <1>3, <1>4

\* irclib_connect of a connection that is not in use, and has no socket left.
LEMMA ConnectAgain ==
    ASSUME NEW c, OK(c), c.status \notin Active, NEW d \in Connect(c)
    PROVE  /\ OK(d) /\ Fds(c) \subseteq Fds(d)
           /\ Fds(c) = {} => Lone(d)
           /\ c.status = "DISCONNECTED" => After(c, 0, d)
<1>1. /\ OK(d) /\ Fds(c) \subseteq Fds(d)
      /\ \/ Fds(d) = Fds(c) /\ d.status = "DISCONNECTED"
         \/ Fds(d) = Fds(c) \cup {d.socket} /\ d.status = "CONNECTING"
  BY ConnectOK DEF OK
<1>2. Fds(c) = {} => Lone(d)
  BY <1>1 DEF Lone
<1>3. c.status = "DISCONNECTED" => After(c, 0, d)
  BY <1>1, <1>2 DEF After, Lone
<1> QED BY <1>1, <1>2, <1>3

\* irclib_timerreconnect.
LEMMA TimerReconnectOK ==
    ASSUME NEW c, OK(c), NEW d \in TimerReconnect(c)
    PROVE  After(c, 0, d)
<1>1. CASE d = c
  BY <1>1 DEF After
<1>2. CASE c.status = "DISCONNECTED" /\ d \in Connect(c)
  BY <1>2, ConnectAgain DEF Active
<1> QED BY <1>1, <1>2 DEF TimerReconnect

\* irclib_vquit: a QUIT is queued, if the connection is in use.
LEMMA QuitOK ==
    ASSUME NEW c, OK(c), NEW d, d = Quit(c)
    PROVE  /\ After(c, 0, d) /\ Fds(d) = Fds(c) /\ d.status = "QUITED"
           /\ c.status \in Active =>
                d.socket \in Fds(d) /\ Sendq(d, d.socket) # <<>>
<1> DEFINE s == SendRaw(c, "QUIT")
<1>1. /\ After(c, 0, s) /\ Fds(s) = Fds(c) /\ s \in Conn /\ s.socket = c.socket
      /\ c.status \in Active => Sendq(s, c.socket) # <<>>
  BY RawSent DEF Line
<1>2. d = [s EXCEPT !.status = "QUITED"]
  BY DEF Quit
<1> HIDE DEF s
<1>3. /\ d \in Conn /\ d.status = "QUITED" /\ d.pool = s.pool /\ d.socket = s.socket
      /\ d.open = s.open /\ d.told = s.told /\ d.sound = s.sound
      /\ d.timer = s.timer /\ d.ref = s.ref
  BY <1>1, <1>2 DEF Conn, Status
<1>4. OK(s)
  BY <1>1 DEF After
<1>5. After(s, 0, d) /\ Fds(d) = Fds(s) /\ \A x : Sendq(d, x) = Sendq(s, x)
  BY <1>3, <1>4, SamePool
<1>6. c.status \in Active => c.socket \in Fds(c)
  BY DEF OK, Served
<1>7. After(c, 0, d)
  BY <1>1, <1>5, AfterTwo
<1> QED BY <1>1, <1>3, <1>5, <1>6, <1>7

\* irclib_close: the connection counts as quit, and its socket is closed.
LEMMA IrcCloseOK ==
    ASSUME NEW c, OK(c), NEW d \in IrcClose(c)
    PROVE  /\ After(c, c.socket, d) /\ d.status = "QUITED"
           /\ c.socket \in Fds(c) /\ Sendq(c, c.socket) # <<>> => Fds(d) = Fds(c)
<1> DEFINE s == [c EXCEPT !.status = "QUITED"]
           F(y) == {[Shutdown(x) EXCEPT !.freed = TRUE] : x \in Close(y, y.socket)}
<1>0. c \in Conn /\ c.socket \in Fd \cup {0}
  BY DEF OK, Good, Conn
<1>1. d \in UNION {F(y) : y \in {s}}
  BY DEF IrcClose
<1>2. /\ s \in Conn /\ s.status = "QUITED" /\ s.pool = c.pool /\ s.socket = c.socket
      /\ s.open = c.open /\ s.told = c.told /\ s.sound = c.sound
      /\ s.timer = c.timer /\ s.ref = c.ref
  BY <1>0 DEF Conn, Status
<1> HIDE DEF s, F
<1>3. d \in F(s)
  BY <1>1
<1>4. PICK x \in Close(s, s.socket) : d = [Shutdown(x) EXCEPT !.freed = TRUE]
  BY <1>3 DEF F
<1>5. After(c, 0, s) /\ Fds(s) = Fds(c) /\ \A y : Sendq(s, y) = Sendq(c, y)
  BY <1>2, SamePool
<1>6. OK(s)
  BY <1>5 DEF After
<1>7. /\ After(s, s.socket, x)
      /\ s.socket \in Fds(s) /\ Sendq(s, s.socket) # <<>> => Fds(x) = Fds(s)
  BY <1>0, <1>2, <1>6, CloseOK
<1>8. Good(x) /\ x \in Conn /\ x.status = "QUITED"
  BY <1>2, <1>7 DEF After, OK, Good
<1> DEFINE y == [Shutdown(x) EXCEPT !.status = "QUITED"]
<1>9. y = Shutdown(x)
  BY <1>8 DEF Shutdown, Conn
<1>10. Good(y) /\ Fds(y) = Fds(x) /\ y.status = "QUITED"
  BY <1>8, WasShut
<1>11. d = [y EXCEPT !.freed = TRUE]
  BY <1>4, <1>9
<1> HIDE DEF y
<1>12. /\ d \in Conn /\ d.status = "QUITED" /\ d.pool = y.pool
       /\ d.open = y.open /\ d.told = y.told /\ d.sound = y.sound
       /\ d.timer = y.timer /\ d.ref = y.ref
  BY <1>10, <1>11 DEF Good, Conn
<1>13. Fds(d) = Fds(y)
  BY <1>12 DEF Fds
<1>14. Good(d)
  BY <1>10, <1>12, <1>13 DEF Good
<1>15. OK(d)
  BY <1>12, <1>14, IdleOK DEF Active
<1>16. After(s, s.socket, d)
  BY <1>7, <1>10, <1>12, <1>13, <1>15 DEF After, Lone
<1>17. After(c, c.socket, d)
  BY <1>2, <1>5, <1>16, AfterNone, AfterTwo
<1> QED BY <1>2, <1>5, <1>7, <1>10, <1>12, <1>13, <1>17

-----------------------------------------------------------------------------
(* The invariant.                                                          *)

\* The state of the main loop: the socket whose turn it is, is in the pool.
LoopOK ==
    /\ server \in [Fd -> {"none", "up", "mute", "shut"}]
    /\ \A fd \in Fd : server[fd] = "none" <=> fd \notin Fds(conn)
    /\ phase \in {"select", "visit", "reading", "stopped"}
    /\ turn \in Fd \cup {0}
    /\ ready \in [lines : SUBSET Fd, ends : SUBSET Fd, write : SUBSET Fd]
    /\ phase \in {"visit", "reading"} /\ turn # 0 => turn \in Fds(conn)
    /\ phase = "reading" => turn # 0

IInv == OK(conn) /\ LoopOK

\* What a step keeps that is no command to connect.
Steady ==
    /\ Lone(conn) => Lone(conn')
    /\ conn.status = "QUITED" => conn'.status = "QUITED"

\* What may become of the connection by the end of one socket is steady.
LEMMA AfterSteady ==
    ASSUME NEW fd, After(conn, fd, conn')
    PROVE  Steady
BY DEF After, Steady

\* The servers, when the connection has become another.
LEMMA BecomesOK ==
    ASSUME IInv, NEW x, OK(x), Becomes(x)
    PROVE  /\ conn' = x /\ OK(conn')
           /\ server' \in [Fd -> {"none", "up", "mute", "shut"}]
           /\ \A fd \in Fd : server'[fd] = "none" <=> fd \notin Fds(conn')
<1>1. conn' = x /\ Fds(conn') = Fds(x)
  BY DEF Becomes, Fds
<1>2. server' = [fd \in Fd |-> IF fd \notin Fds(x) THEN "none"
                               ELSE IF fd \in Fds(conn) THEN server[fd] ELSE "up"]
  BY DEF Becomes
<1>3. /\ server \in [Fd -> {"none", "up", "mute", "shut"}]
      /\ \A fd \in Fd : server[fd] = "none" <=> fd \notin Fds(conn)
  BY DEF IInv, LoopOK
<1> QED BY <1>1, <1>2, <1>3

\* The socket that comes next is another one.
LEMMA NextTurn ==
    ASSUME NEW c, OK(c), NEW fd \in Fds(c)
    PROVE  NextFd(c, fd) \in (Fds(c) \ {fd}) \cup {0}
<1>1. /\ Index(c, fd) \in 1..Len(c.pool) /\ Len(c.pool) \in Nat
      /\ DOMAIN c.pool = 1..Len(c.pool)
      /\ \A i \in DOMAIN c.pool : c.pool[i].fd = fd => i = Index(c, fd)
  BY IndexOf DEF OK
<1> DEFINE k == Index(c, fd)
<1> HIDE DEF k
<1>2. /\ k \in 1..Len(c.pool)
      /\ \A i \in DOMAIN c.pool : c.pool[i].fd = fd => i = k
  BY <1>1 DEF k
<1>3. CASE k = Len(c.pool)
  BY <1>3 DEF NextFd, k
<1>4. CASE k # Len(c.pool)
  <2>1. k + 1 \in DOMAIN c.pool /\ k + 1 # k
    BY <1>1, <1>2, <1>4
  <2>2. c.pool[k + 1].fd \in Fds(c) /\ c.pool[k + 1].fd # fd
    BY <1>2, <2>1 DEF Fds
  <2>3. NextFd(c, fd) = c.pool[k + 1].fd
    BY <1>4 DEF NextFd, k
  <2> QED BY <2>2, <2>3
<1> QED BY <1>3, <1>4

\* The end of a visit, whatever the receive handler has done to this socket.
LEMMA ProceedOK ==
    ASSUME IInv, turn \in Fds(conn), NEW c, After(conn, turn, c),
           Sendq(conn, turn) # <<>> => turn \in Fds(c) /\ Sendq(c, turn) # <<>>,
           Proceed(c)
    PROVE  IInv' /\ Steady
<1>1. PICK x \in IF ~Sends THEN {c}
                 ELSE SendNode(c, turn) \cup IF Broken(turn) THEN SendFails(c, turn) ELSE {} :
        Becomes(x)
  BY DEF Proceed
<1>2. OK(c) /\ OK(conn)
  BY DEF After, IInv
<1>3. After(conn, turn, x)
  <2>1. CASE x = c
    BY <2>1
  <2>2. CASE Sends /\ x \in SendNode(c, turn)
    <3>1. turn \in Fds(c) /\ Sendq(c, turn) # <<>>
      BY <2>2 DEF Sends
    <3>2. After(c, turn, x)
      BY <1>2, <2>2, <3>1, SendNodeOK
    <3> QED BY <3>2, AfterTwo
  <2>3. CASE Sends /\ x \in SendFails(c, turn)
    <3>1. turn \in Fds(c)
      BY <2>3 DEF Sends
    <3>2. x = [c EXCEPT !.pool[Index(c, turn)].closing = TRUE]
      BY <2>3 DEF SendFails
    <3>3. After(c, 0, x)
      BY <1>2, <3>1, <3>2, Marked
    <3> QED BY <1>2, <3>3, AfterNone, AfterTwo
  <2> QED BY <1>1, <2>1, <2>2, <2>3
<1>4. /\ conn' = x /\ OK(conn')
      /\ server' \in [Fd -> {"none", "up", "mute", "shut"}]
      /\ \A fd \in Fd : server'[fd] = "none" <=> fd \notin Fds(conn')
  BY <1>1, <1>3, BecomesOK DEF After
<1>5. turn' \in (Fds(conn) \ {turn}) \cup {0} /\ phase' = "visit" /\ ready' = ready
  BY <1>2, NextTurn DEF Proceed
<1>6. Fds(conn) \ {turn} \subseteq Fds(conn') /\ Fds(conn) \subseteq Fd
  BY <1>2, <1>3, <1>4 DEF After, OK, Good, Conn
<1>7. LoopOK'
  <2>1. turn' \in Fd \cup {0} /\ (turn' # 0 => turn' \in Fds(conn'))
    BY <1>5, <1>6
  <2>2. ready' \in [lines : SUBSET Fd, ends : SUBSET Fd, write : SUBSET Fd]
    BY <1>5 DEF IInv, LoopOK
  <2> QED BY <1>4, <1>5, <2>1, <2>2 DEF LoopOK
<1>8. Steady
  BY <1>3, <1>4, AfterSteady
<1> QED BY <1>4, <1>7, <1>8 DEF IInv

-----------------------------------------------------------------------------
(* The steps.                                                              *)

\* The counters of Select stay within their bounds.
LEMMA MinMaxPair ==
    ASSUME NEW a \in Nat, NEW b \in Nat
    PROVE  Min({a, b}) \in {a, b} /\ Min({a, b}) <= a /\ Max({a, b}) \in {a, b}
<1>1. \E x \in {a, b} : \A y \in {a, b} : x =< y
  OBVIOUS
<1>2. \E x \in {a, b} : \A y \in {a, b} : x >= y
  OBVIOUS
<1>3. Min({a, b}) \in {a, b} /\ \A y \in {a, b} : Min({a, b}) =< y
  BY <1>1, Zenon DEF Min
<1>4. Max({a, b}) \in {a, b}
  BY <1>2, Zenon DEF Max
<1> QED BY <1>3, <1>4

\* irclib_init and the first irclib_connect.
LEMMA InitInv ==
    Init => IInv /\ Lone(conn)
<1> SUFFICES ASSUME Init PROVE IInv /\ Lone(conn)
  OBVIOUS
<1>1. conn \in Connect(Fresh)
  BY DEF Init
<1>2. /\ Fresh \in Conn /\ Fresh.pool = <<>> /\ Fresh.status = "DISCONNECTED"
      /\ Fresh.open = {} /\ Fresh.told = {} /\ ~Fresh.timer /\ ~Fresh.ref
  <2>1. <<>> \in Seq(Sock) /\ 0 \in 0..1 /\ Stoned \in 0..Stoned
    BY EmptySeq DEF Stoned
  <2>2. 0 \in 0..MaxFailures /\ "DISCONNECTED" \in Status
    BY ConnectionAssumption DEF ConnectionAssumption, Status
  <2> QED BY <2>1, <2>2 DEF Fresh, Conn
<1>3. Fds(Fresh) = {} /\ Distinct(Fresh.pool)
  BY <1>2 DEF Fds, Distinct
<1>4. OK(Fresh)
  BY <1>2, <1>3, IdleOK DEF Good, Active
<1>5. OK(conn) /\ Lone(conn)
  BY <1>1, <1>2, <1>3, <1>4, ConnectAgain DEF Active
<1>6. LoopOK
  BY DEF Init, LoopOK
<1> QED BY <1>5, <1>6 DEF IInv

\* select: time passes, and the sockets that are ready are known.
LEMMA SelectOK ==
    ASSUME IInv, NEW period \in {0, 1}, Select(period)
    PROVE  IInv' /\ Steady
<1>0. OK(conn) /\ conn \in Conn /\ Good(conn) /\ Fds(conn) \subseteq Fd
  BY DEF IInv, OK, Good, Conn
<1> DEFINE quiet == Min({Stoned, conn.quiet + period})
           age == Max({conn.age, period})
<1>1. quiet \in 0..Stoned /\ age \in 0..1
  <2>1. conn.quiet \in 0..Stoned /\ conn.age \in 0..1
    BY <1>0 DEF Conn
  <2>2. Stoned \in Nat /\ conn.quiet + period \in Nat /\ conn.age \in Nat /\ period \in Nat
    BY <2>1 DEF Stoned
  <2>3. quiet \in {Stoned, conn.quiet + period} /\ quiet <= Stoned
    BY <2>2, MinMaxPair
  <2>4. age \in {conn.age, period}
    BY <2>2, MinMaxPair
  <2> QED BY <2>1, <2>2, <2>3, <2>4
<1>2. conn' = [conn EXCEPT !.quiet = quiet, !.age = age]
  BY DEF Select
<1> HIDE DEF quiet, age
<1>3. /\ conn' \in Conn /\ conn'.pool = conn.pool /\ conn'.socket = conn.socket
      /\ conn'.open = conn.open /\ conn'.told = conn.told /\ conn'.sound = conn.sound
      /\ conn'.timer = conn.timer /\ conn'.ref = conn.ref /\ conn'.status = conn.status
  BY <1>0, <1>1, <1>2 DEF Conn
<1>4. After(conn, 0, conn') /\ Fds(conn') = Fds(conn)
  BY <1>0, <1>3, SamePool
<1>5. ready' \in [lines : SUBSET Fd, ends : SUBSET Fd, write : SUBSET Fd]
  <2> DEFINE ends == {fd \in Fds(conn) : server[fd] = "shut"}
             write == {fd \in Fds(conn) : Sendq(conn, fd) # <<>>}
  <2>1. ends \in SUBSET Fd /\ write \in SUBSET Fd
    BY <1>0
  <2>2. PICK lines \in SUBSET {fd \in Fds(conn) : server[fd] = "up"} :
          ready' = [lines |-> lines, ends |-> ends, write |-> write]
    BY DEF Select
  <2>3. lines \in SUBSET Fd
    BY <1>0
  <2> HIDE DEF ends, write
  <2> QED BY <2>1, <2>2, <2>3
<1>6. FirstFd(conn) \in Fds(conn) \cup {0}
  <2>1. conn.pool \in Seq(Sock)
    BY <1>0 DEF Conn
  <2>2. conn.pool # <<>> => 1 \in DOMAIN conn.pool
    BY <2>1, EmptySeq, LenProperties
  <2> QED BY <2>2 DEF FirstFd, Fds
<1>7. LoopOK'
  BY <1>0, <1>4, <1>5, <1>6 DEF Select, IInv, LoopOK
<1>8. OK(conn')
  BY <1>4 DEF After
<1>9. IInv'
  BY <1>7, <1>8 DEF IInv
<1> QED BY <1>4, <1>9, AfterSteady

\* The visits, whatever the receive handler meets.
LEMMA VisitOK ==
    ASSUME IInv,
           VisitSend \/ VisitWait \/ Read \/ \E line \in Lines : VisitLine(line)
    PROVE  IInv' /\ Steady
<1>0. OK(conn) /\ LoopOK /\ 0 \notin Fd
  BY ConnectionAssumption DEF IInv, ConnectionAssumption
<1>1. ready.lines \subseteq Fd /\ ready.ends \subseteq Fd
  BY <1>0 DEF LoopOK
<1>2. After(conn, turn, conn)
  BY <1>0 DEF After
<1>3. CASE VisitSend
  <2>1. turn \in Fds(conn) /\ Proceed(conn)
    BY <1>0, <1>3 DEF VisitSend, LoopOK
  <2> QED BY <1>2, <2>1, ProceedOK
<1>4. CASE VisitWait
  <2>1. turn \in Fds(conn) /\ turn # 0
    BY <1>0, <1>1, <1>4 DEF VisitWait, LoopOK
  <2>2. LoopOK' /\ conn' = conn
    <3>1. conn' = conn /\ UNCHANGED <<server, turn, ready>> /\ phase' = "reading"
      BY <1>4 DEF VisitWait
    <3>2. Fds(conn') = Fds(conn)
      BY <3>1
    <3> QED BY <1>0, <2>1, <3>1, <3>2 DEF LoopOK
  <2>3. IInv'
    BY <1>0, <2>2 DEF IInv
  <2> QED BY <2>2, <2>3 DEF Steady
<1>5. ASSUME NEW line \in Lines, turn \in Fds(conn), Proceed(Parse(conn, line))
      PROVE  IInv' /\ Steady
  <2> DEFINE c == Parse(conn, line)
  <2>1. /\ After(conn, 0, c) /\ Fds(c) = Fds(conn)
        /\ \A x \in Fds(conn) : Sendq(conn, x) # <<>> => Sendq(c, x) # <<>>
    BY <1>0, ParseOK
  <2>2. Proceed(c)
    BY <1>5
  <2> HIDE DEF c
  <2>3. After(conn, turn, c)
    BY <1>0, <2>1, AfterNone
  <2> QED BY <1>5, <2>1, <2>2, <2>3, ProceedOK
<1>6. ASSUME NEW line \in Lines, VisitLine(line)
      PROVE  IInv' /\ Steady
  <2>1. turn \in Fds(conn) /\ Proceed(Parse(conn, line))
    BY <1>0, <1>1, <1>6 DEF VisitLine, LoopOK
  <2> QED BY <1>5, <2>1
<1>7. ASSUME NEW line \in Lines, ReadLine(line)
      PROVE  IInv' /\ Steady
  <2>1. turn \in Fds(conn) /\ Proceed(Parse(conn, line))
    BY <1>0, <1>7 DEF ReadLine, LoopOK
  <2> QED BY <1>5, <2>1
<1>8. CASE ReadEnd
  <2>1. turn \in Fds(conn)
    BY <1>0, <1>1, <1>8 DEF ReadEnd, LoopOK
  <2>2. PICK c \in Close(conn, turn) : Proceed(c)
    BY <1>8 DEF ReadEnd
  <2>3. /\ After(conn, turn, c)
        /\ Sendq(conn, turn) # <<>> => Fds(c) = Fds(conn) /\ Sendq(c, turn) # <<>>
    <3>1. turn \in Fd \cup {0}
      BY <1>0 DEF LoopOK
    <3> QED BY <1>0, <2>1, <2>2, <3>1, CloseOK
  <2> QED BY <2>1, <2>2, <2>3, ProceedOK
<1> QED BY <1>3, <1>4, <1>6, <1>7, <1>8 DEF Read

\* A step that keeps the sockets, and with them the one whose turn it is.
LEMMA BecameOK ==
    ASSUME IInv, NEW x, OK(x), Becomes(x), UNCHANGED <<phase, turn, ready>>,
           Fds(conn) \subseteq Fds(x)
    PROVE  IInv' /\ conn' = x
<1>1. /\ conn' = x /\ OK(conn')
      /\ server' \in [Fd -> {"none", "up", "mute", "shut"}]
      /\ \A fd \in Fd : server'[fd] = "none" <=> fd \notin Fds(conn')
  BY BecomesOK
<1>2. LoopOK'
  BY <1>1 DEF IInv, LoopOK
<1> QED BY <1>1, <1>2 DEF IInv

\* A step that ends the turn of the loop, or the loop.
LEMMA TurnOver ==
    ASSUME IInv, NEW x, OK(x), Becomes(x), UNCHANGED <<turn, ready>>,
           phase' = "select" \/ phase' = "stopped"
    PROVE  IInv' /\ conn' = x
<1>1. /\ conn' = x /\ OK(conn')
      /\ server' \in [Fd -> {"none", "up", "mute", "shut"}]
      /\ \A fd \in Fd : server'[fd] = "none" <=> fd \notin Fds(conn')
  BY BecomesOK
<1>2. LoopOK'
  BY <1>1 DEF IInv, LoopOK
<1> QED BY <1>1, <1>2 DEF IInv

\* timers_test: the reconnect timer, then the alive timer.
LEMMA TimersOK ==
    ASSUME IInv, NEW reconnect \in BOOLEAN, Timers(reconnect)
    PROVE  IInv' /\ Steady
<1>1. PICK c \in IF reconnect THEN TimerReconnect(conn) ELSE {conn} :
        \E x \in IF c.timer /\ c.age = 1 THEN CheckAlive(c) ELSE {c} : Becomes(x)
  BY DEF Timers
<1>2. PICK x \in IF c.timer /\ c.age = 1 THEN CheckAlive(c) ELSE {c} : Becomes(x)
  BY <1>1
<1>3. After(conn, 0, c)
  BY TimerReconnectOK DEF IInv, After
<1>4. After(c, c.socket, x)
  <2>1. OK(c)
    BY <1>3 DEF After
  <2> QED BY <1>2, <2>1, CheckAliveOK DEF After
<1>5. OK(x)
  BY <1>4 DEF After
<1>6. IInv' /\ conn' = x
  <2>1. UNCHANGED <<turn, ready>> /\ phase' = "select" /\ Becomes(x)
    BY <1>2 DEF Timers
  <2> QED BY <1>5, <2>1, TurnOver
<1> QED BY <1>3, <1>4, <1>6 DEF After, Steady

\* irc quit.
LEMMA CommandQuitOK ==
    ASSUME IInv, CommandQuit
    PROVE  IInv' /\ Steady
<1> DEFINE x == Quit(conn)
<1>1. After(conn, 0, x) /\ Fds(x) = Fds(conn)
  BY QuitOK DEF IInv
<1>2. Becomes(x) /\ UNCHANGED <<phase, turn, ready>>
  BY DEF CommandQuit
<1> HIDE DEF x
<1>3. OK(x)
  BY <1>1 DEF After
<1>4. IInv' /\ conn' = x
  BY <1>1, <1>2, <1>3, BecameOK
<1> QED BY <1>1, <1>4, AfterSteady

\* irc connect: with no socket left, the new one is alone.
LEMMA CommandConnectOK ==
    ASSUME IInv, CommandConnect
    PROVE  IInv' /\ ("hasty connect" \notin Tolerated => Lone(conn'))
<1>1. PICK x \in Connect(conn) : Becomes(x)
  BY DEF CommandConnect
<1>2. OK(x) /\ Fds(conn) \subseteq Fds(x) /\ (Fds(conn) = {} => Lone(x))
  BY ConnectAgain DEF IInv, CommandConnect
<1>3. IInv' /\ conn' = x
  BY <1>1, <1>2, BecameOK DEF CommandConnect
<1>4. "hasty connect" \notin Tolerated => Fds(conn) = {}
  <2>1. conn.pool = <<>> => DOMAIN conn.pool = {}
    OBVIOUS
  <2> QED BY <2>1 DEF CommandConnect, Fds
<1> QED BY <1>2, <1>3, <1>4

\* irc connect <server>: the QUIT that is queued keeps the old socket.
LEMMA CommandChangeOK ==
    ASSUME IInv, CommandChange
    PROVE  IInv' /\ "change server" \in Tolerated
<1> DEFINE q == Quit(conn)
<1>1. \E y \in {q} : \E c \in IrcClose(y) : \E x \in Connect(c) : Becomes(x)
  BY DEF CommandChange
<1>2. /\ After(conn, 0, q) /\ Fds(q) = Fds(conn)
      /\ q.socket \in Fds(q) /\ Sendq(q, q.socket) # <<>>
  BY QuitOK DEF CommandChange, IInv
<1> HIDE DEF q
<1>3. PICK c \in IrcClose(q) : \E x \in Connect(c) : Becomes(x)
  BY <1>1
<1>4. OK(q)
  BY <1>2 DEF After
<1>5. OK(c) /\ c.status = "QUITED" /\ Fds(c) = Fds(q)
  BY <1>2, <1>4, IrcCloseOK DEF After
<1>6. PICK x \in Connect(c) : Becomes(x)
  BY <1>3
<1>7. OK(x) /\ Fds(c) \subseteq Fds(x)
  BY <1>5, ConnectAgain DEF Active
<1>8. IInv'
  BY <1>2, <1>5, <1>6, <1>7, BecameOK DEF CommandChange
<1> QED BY <1>8 DEF CommandChange

\* The end of main: no socket is left.
LEMMA ExitOK ==
    ASSUME IInv, Exit
    PROVE  IInv' /\ Steady
<1>1. PICK c \in IrcClose(conn) :
        Becomes([c EXCEPT !.sound = @ /\ c.pool = <<>>,
                          !.pool = <<>>, !.open = @ \ Fds(c), !.told = {}])
  BY DEF Exit
<1>2. OK(c) /\ c \in Conn /\ c.status = "QUITED"
  BY IrcCloseOK DEF IInv, After, OK, Good
<1> DEFINE sound == c.sound /\ c.pool = <<>>
           open == c.open \ Fds(c)
           x == [c EXCEPT !.sound = sound, !.pool = <<>>, !.open = open, !.told = {}]
<1>3. Becomes(x)
  BY <1>1
<1>4. sound \in BOOLEAN /\ open \in SUBSET Fd /\ <<>> \in Seq(Sock)
  BY <1>2, EmptySeq DEF Conn
<1>5. sound => c.sound
  OBVIOUS
<1> HIDE DEF sound, open
<1>6. /\ x \in Conn /\ x.status = "QUITED" /\ x.pool = <<>> /\ x.told = {}
      /\ x.sound = sound /\ x.timer = c.timer /\ x.ref = c.ref
  BY <1>2, <1>4 DEF Conn
<1> HIDE DEF x
<1>7. Fds(x) = {} /\ Distinct(x.pool)
  BY <1>6 DEF Fds, Distinct
<1>8. OK(x)
  BY <1>2, <1>5, <1>6, <1>7, IdleOK DEF OK, Good, Active
<1>9. Lone(x)
  BY <1>7 DEF Lone
<1>10. IInv' /\ conn' = x
  <2>1. UNCHANGED <<turn, ready>> /\ phase' = "stopped"
    BY DEF Exit
  <2> QED BY <1>3, <1>8, <2>1, TurnOver
<1> QED BY <1>6, <1>9, <1>10 DEF Steady

\* The rest: what the server does, and the signal that ends the program.
LEMMA OthersOK ==
    ASSUME IInv, SigPipe \/ (\E fd \in Fd : Mute(fd) \/ Shut(fd)) \/ UNCHANGED vars
    PROVE  IInv' /\ Steady
<1>1. conn' = conn
  BY DEF SigPipe, Mute, Shut, vars
<1>2. Fds(conn') = Fds(conn) /\ OK(conn')
  BY <1>1 DEF IInv
<1>3. CASE SigPipe
  BY <1>1, <1>2, <1>3 DEF SigPipe, IInv, LoopOK, Steady
<1>4. ASSUME NEW fd \in Fd, Mute(fd) \/ Shut(fd)
      PROVE  IInv' /\ Steady
  <2>1. PICK s \in {"mute", "shut"} : server' = [server EXCEPT ![fd] = s]
    BY <1>4 DEF Mute, Shut
  <2>2. server[fd] = "up" /\ UNCHANGED <<phase, turn, ready>>
    BY <1>4 DEF Mute, Shut
  <2>3. LoopOK'
    BY <1>2, <2>1, <2>2 DEF IInv, LoopOK
  <2> QED BY <1>1, <1>2, <2>3 DEF IInv, Steady
<1>5. CASE UNCHANGED vars
  BY <1>1, <1>2, <1>5 DEF vars, IInv, LoopOK, Steady
<1> QED BY <1>3, <1>4, <1>5

-----------------------------------------------------------------------------
(* The theorems.                                                           *)

\* Every step keeps the invariant; and it is steady, unless it is a command to
\* connect.
LEMMA NextInv ==
    ASSUME IInv, [Next]_vars
    PROVE  /\ IInv'
           /\ \/ Steady
              \/ CommandConnect /\ ("hasty connect" \notin Tolerated => Lone(conn'))
              \/ CommandChange /\ "change server" \in Tolerated
<1>1. CASE Loop
  <2>1. ASSUME NEW period \in {0, 1}, Select(period) PROVE IInv' /\ Steady
    BY <2>1, SelectOK
  <2>2. ASSUME NEW reconnect \in BOOLEAN, Timers(reconnect) PROVE IInv' /\ Steady
    BY <2>2, TimersOK
  <2>3. CASE VisitSend \/ VisitWait \/ Read \/ \E line \in Lines : VisitLine(line)
    BY <2>3, VisitOK
  <2> QED BY <1>1, <2>1, <2>2, <2>3 DEF Loop
<1>2. CASE CommandQuit
  BY <1>2, CommandQuitOK
<1>3. CASE CommandConnect
  BY <1>3, CommandConnectOK
<1>4. CASE CommandChange
  BY <1>4, CommandChangeOK
<1>5. CASE Exit
  BY <1>5, ExitOK
<1>6. CASE SigPipe \/ (\E fd \in Fd : Mute(fd) \/ Shut(fd)) \/ UNCHANGED vars
  BY <1>6, OthersOK
<1> QED BY <1>1, <1>2, <1>3, <1>4, <1>5, <1>6 DEF Next

\* A list with one position at most, and one with none.
LEMMA ShortList ==
    ASSUME NEW S, NEW list \in Seq(S)
    PROVE  /\ (\A i, j \in DOMAIN list : i = j) => Len(list) <= 1
           /\ list # <<>> => DOMAIN list # {}
<1>1. Len(list) \in Nat /\ DOMAIN list = 1..Len(list)
  BY LenProperties
<1>2. Len(list) >= 2 => 1 \in 1..Len(list) /\ 2 \in 1..Len(list)
  BY <1>1
<1>3. Len(list) = 0 => list = <<>>
  BY EmptySeq
<1>4. Len(list) # 0 => 1 \in 1..Len(list)
  BY <1>1
<1> QED BY <1>1, <1>2, <1>3, <1>4

\* The invariant says what TypeOK says.
LEMMA InvTypes ==
    IInv => TypeOK
<1> SUFFICES ASSUME IInv PROVE TypeOK
  OBVIOUS
<1>1. conn \in Conn /\ Fds(conn) \subseteq conn.open /\ conn.told \subseteq Fds(conn)
  BY DEF IInv, OK, Good
<1>2. \A f \in {"timer", "ref", "pinged", "freed", "sound"} : conn[f] \in BOOLEAN
  BY <1>1 DEF Conn
<1>3. /\ conn.status \in Active \cup {"DISCONNECTED", "QUITED"}
      /\ conn.socket \in Fd \cup {0} /\ conn.open \subseteq Fd
      /\ conn.quiet \in 0..Stoned /\ conn.age \in 0..1 /\ conn.failed \in 0..MaxFailures
  BY <1>1 DEF Conn, Status
<1>4. conn.pool \in Seq([fd : Fd, sendq : Seq({"NICK", "USER", "PING", "PONG", "QUIT"}),
                         closing : BOOLEAN])
  BY <1>1 DEF Conn, Sock, Line
<1> QED BY <1>1, <1>2, <1>3, <1>4 DEF TypeOK, IInv, LoopOK

\* The alive timer runs for every connection in use whose socket is not already
\* being closed, and testalivetimer points at it and at nothing else (irclib.c,
\* irclib_connect, irclib_shutdown, irclib_timercheckalive): in every
\* interleaving of loop, server and commands, whatever hardships there are.
THEOREM ConnectionWatched == Spec => []Watched
<1>1. Init => IInv
  BY InitInv
<1>2. IInv /\ [Next]_vars => IInv'
  BY NextInv
<1>3. IInv => Watched
  <2> SUFFICES ASSUME IInv, conn.sound PROVE Watched
    BY DEF Watched
  <2>1. conn.timer = conn.ref
    BY DEF IInv, OK, Good, Conn
  <2>2. ASSUME conn.status \in Active, ~conn.pool[Index(conn, conn.socket)].closing
        PROVE  conn.timer
    <3>1. Good(conn) /\ conn.socket \in Fds(conn) /\ conn.timer \in BOOLEAN
      BY <2>2 DEF IInv, OK, Good, Served, Conn
    <3>2. /\ Index(conn, conn.socket) \in DOMAIN conn.pool
          /\ conn.pool[Index(conn, conn.socket)].fd = conn.socket
      BY <3>1, IndexOf
    <3> QED BY <2>2, <3>1, <3>2 DEF IInv, OK, Served
  <2> QED BY <2>1, <2>2 DEF Watched
<1> QED BY <1>1, <1>2, <1>3, PTL DEF Spec

\* What the operator has quit stays quit until he asks for a connection (the
\* QUITED of irclib.h, irclib_closed and irclib_timerreconnect): no close that
\* comes late, no line and no timer connects the bot again.
THEOREM QuitIsFinal == Spec => StaysQuit
<1>1. Init => IInv
  BY InitInv
<1>2. IInv /\ [Next]_vars => IInv'
  BY NextInv
<1>3. IInv /\ [Next]_vars =>
        [conn.status = "QUITED" /\ conn.status' # "QUITED" =>
           CommandConnect \/ CommandChange]_vars
  BY NextInv DEF Steady
<1> QED BY <1>1, <1>2, <1>3, PTL DEF Spec, StaysQuit

\* There is never a second socket to the server (irclib_connect, irclib_closed
\* and socketpool_close), provided that the operator waits for the old one to
\* be gone: nothing else in the program makes one.
THEOREM NeverTwoSockets ==
    ASSUME "hasty connect" \notin Tolerated, "change server" \notin Tolerated
    PROVE  Spec => []OneSocket
<1> DEFINE Inv == IInv /\ Lone(conn)
<1>1. Init => Inv
  BY InitInv
<1>2. Inv /\ [Next]_vars => Inv'
  BY NextInv DEF Steady
<1>3. Inv => OneSocket
  <2> SUFFICES ASSUME Inv PROVE OneSocket
    OBVIOUS
  <2>1. /\ Good(conn) /\ conn.pool \in Seq(Sock) /\ Len(conn.pool) \in Nat
        /\ DOMAIN conn.pool = 1..Len(conn.pool)
    BY LenProperties DEF IInv, OK, Good, Conn
  <2>2. \A i \in DOMAIN conn.pool : conn.pool[i].fd \in Fds(conn)
    BY DEF Fds
  <2>3. \A i, j \in DOMAIN conn.pool : i = j
    BY <2>1, <2>2 DEF Lone, Good, Distinct
  <2>4. Len(conn.pool) <= 1
    BY <2>1, <2>3, ShortList
  <2>5. conn.status = "DISCONNECTED" => conn.pool = <<>>
    <3>1. conn.status = "DISCONNECTED" => Fds(conn) = {}
      BY DEF Lone
    <3>2. conn.pool # <<>> => DOMAIN conn.pool # {}
      BY <2>1, ShortList
    <3> QED BY <2>2, <3>1, <3>2
  <2>6. conn.status \in Active => conn.socket \in Fds(conn)
    BY DEF IInv, OK, Served
  <2> QED BY <2>4, <2>5, <2>6, InvTypes DEF OneSocket
<1> QED BY <1>1, <1>2, <1>3, PTL DEF Spec

-----------------------------------------------------------------------------
(* Memory, where there is one socket at most.                              *)

\* The queue of that socket.
Queue(c) == c.pool[1].sendq

\* Nothing is freed, there is no socket but the connection's own, and without
\* it no timer.
Intact(c) ==
    /\ c.sound /\ ~c.freed
    /\ c.pool # <<>> =>
         Len(c.pool) = 1 /\ c.pool[1].fd = c.socket /\ c.status \in Active \cup {"QUITED"}
    /\ c.pool = <<>> => ~c.timer /\ c.status \notin Active

\* A connection that has been quit has QUIT last in its queue, or has sent it.
QuitLast(c) ==
    c.status = "QUITED" /\ c.pool # <<>> =>
        IF Queue(c) = <<>> THEN c.socket \in c.told ELSE Last(Queue(c)) = "QUIT"

\* Between two turns of the loop few lines are queued, and a connection that has
\* been quit has no time to become stoned before its queue is empty; unless
\* the server has closed, which the next turn notices.
AtSelect(c, shut) ==
    LET n == Len(Queue(c))
    IN  shut \/ IF c.status \in Active THEN n <= 2 ELSE c.quiet + n <= 4

\* Before the visit of the socket.
AtVisit(c, shut, writable, ended) ==
    LET n == Len(Queue(c))
    IN  IF c.status \in Active
        THEN shut \/ n <= 1 \/ (n <= 2 /\ writable)
        ELSE \/ ended
             \/ c.quiet + n <= 4
             \/ n > 0 /\ writable /\ c.quiet + n <= 5
             \/ shut /\ c.quiet <= 4

\* After it: there is room for a PING, and no stoned connection has been quit
\* and has an empty queue.
AtTimers(c, shut) ==
    LET n == Len(Queue(c))
    IN  IF c.status \in Active
        THEN shut \/ n <= 1 \/ (n <= 2 /\ (c.quiet <= 1 \/ c.age = 0))
        ELSE c.quiet + n <= 4 \/ (n > 0 /\ shut)

Timely ==
    LET shut == server[conn.socket] = "shut"
    IN  conn.pool # <<>> /\ conn.timer =>
          /\ phase = "select" => AtSelect(conn, shut)
          /\ phase \in {"visit", "reading"} /\ turn # 0 =>
               AtVisit(conn, shut, turn \in ready.write, turn \in ready.ends)
          /\ phase \in {"visit", "reading"} /\ turn = 0 => AtTimers(conn, shut)

\* A socket that is ready for its end belongs to a server that has closed.
ReadyOK ==
    /\ ready.lines \cap ready.ends = {}
    /\ phase \in {"visit", "reading"} /\ turn \in ready.ends => server[turn] = "shut"

Settled ==
    /\ conn.sound
    /\ phase # "stopped" =>
         /\ Intact(conn) /\ QuitLast(conn) /\ ReadyOK /\ Timely
         /\ conn.status = "QUITED" /\ conn.pool # <<>> => server[conn.socket] # "mute"

\* A change of the queue alone.
Same(c, d) ==
    /\ d.status = c.status /\ d.socket = c.socket /\ d.timer = c.timer /\ d.ref = c.ref
    /\ d.age = c.age /\ d.quiet = c.quiet /\ d.freed = c.freed /\ d.sound = c.sound

\* A connection without a socket, or with a new one.
Anew(c) ==
    /\ Intact(c)
    /\ c.pool # <<>> => c.status = "CONNECTING" /\ Len(Queue(c)) = 2 /\ c.age = 0

\* A list of one element, and the element replaced.
LEMMA OneElement ==
    ASSUME NEW S, NEW list \in Seq(S), Len(list) = 1
    PROVE  /\ list = <<list[1]>> /\ 1 \in DOMAIN list /\ list[1] \in S
           /\ \A a : [list EXCEPT ![1] = a] = <<a>>
           /\ RemoveAt(list, 1) = <<>>
<1>1. DOMAIN list = 1..1 /\ list[1] \in S
  BY LenProperties, ElementOfSeq
<1>2. list = <<list[1]>>
  BY <1>1
<1>3. ASSUME NEW a PROVE [list EXCEPT ![1] = a] = <<a>>
  BY <1>2
<1>4. RemoveAt(list, 1) \in Seq(S) /\ Len(RemoveAt(list, 1)) = 0
  BY RemoveAtPositions
<1>5. RemoveAt(list, 1) = <<>>
  BY <1>4, EmptySeq
<1> QED BY <1>1, <1>2, <1>3, <1>5

\* The socket of the connection is the only one.
LEMMA Sole ==
    ASSUME NEW c, Good(c), Intact(c)
    PROVE  /\ c.pool = <<>> => Fds(c) = {}
           /\ c.pool # <<>> =>
                /\ c.pool \in Seq(Sock) /\ Len(c.pool) = 1 /\ c.pool[1] \in Sock
                /\ c.pool[1].fd = c.socket /\ c.socket \in Fd
                /\ Fds(c) = {c.socket} /\ Index(c, c.socket) = 1
                /\ Sendq(c, c.socket) = Queue(c)
                /\ Queue(c) \in Seq(Line) /\ Len(Queue(c)) \in Nat
                /\ Queue(c) # <<>> <=> Len(Queue(c)) > 0
<1>1. c.pool \in Seq(Sock)
  BY DEF Good, Conn
<1>2. CASE c.pool = <<>>
  BY <1>2 DEF Fds
<1>3. CASE c.pool # <<>>
  <2>1. Len(c.pool) = 1 /\ c.pool[1].fd = c.socket
    BY <1>3 DEF Intact
  <2>2. DOMAIN c.pool = {1} /\ c.pool[1] \in Sock
    BY <1>1, <2>1, LenProperties, ElementOfSeq
  <2>3. Fds(c) = {c.socket}
    BY <2>1, <2>2 DEF Fds
  <2>4. Index(c, c.socket) = 1 /\ Sendq(c, c.socket) = Queue(c)
    BY <2>1, <2>2, SendqOf DEF Queue
  <2>5. c.socket \in Fd /\ Queue(c) \in Seq(Line)
    BY <2>1, <2>2 DEF Queue, Sock
  <2>6. Len(Queue(c)) \in Nat /\ (Queue(c) # <<>> <=> Len(Queue(c)) > 0)
    BY <2>5, EmptySeq, LenProperties
  <2> QED BY <1>1, <1>3, <2>1, <2>2, <2>3, <2>4, <2>5, <2>6
<1> QED BY <1>2, <1>3

\* The socket gets another queue, or is to be closed.
LEMMA QueueChanged ==
    ASSUME NEW c, Good(c), Intact(c), c.pool # <<>>,
           NEW s, s.fd = c.socket,
           NEW d, d.pool = <<s>>, Same(c, d)
    PROVE  Intact(d) /\ d.pool # <<>> /\ Queue(d) = s.sendq
BY DEF Same, Intact, Queue

\* irclib_sendraw: the line is the last of the queue.
LEMMA RawSole ==
    ASSUME NEW c, OK(c), Intact(c), NEW line \in Line, NEW d, d = SendRaw(c, line)
    PROVE  /\ Intact(d) /\ Same(c, d) /\ d.told = c.told
           /\ c.status \in Active => d.pool # <<>> /\ Queue(d) = Append(Queue(c), line)
           /\ c.status \notin Active => d = c
<1>0. Good(c) /\ c \in Conn
  BY DEF OK, Good
<1>1. CASE c.status \notin Active
  BY <1>1 DEF SendRaw, Same
<1>2. CASE c.status \in Active
  <2>1. c.pool # <<>> /\ c.socket \in Fds(c)
    BY <1>2 DEF Intact, OK, Served
  <2> DEFINE s == [c.pool[1] EXCEPT !.sendq = Append(@, line)]
             pool == [c.pool EXCEPT ![1] = s]
             pinged == c.pinged \/ line = "PING"
  <2>2. /\ c.pool[1] \in Sock /\ c.pool[1].fd = c.socket /\ Index(c, c.socket) = 1
        /\ 1 \in DOMAIN c.pool
    BY <1>0, <2>1, Sole, OneElement
  <2>3. d = [c EXCEPT !.pool = pool, !.pinged = pinged]
    BY <1>2, <2>1, <2>2 DEF SendRaw
  <2>4. s.fd = c.socket /\ s.sendq = Append(Queue(c), line)
    BY <2>2 DEF Sock, Queue
  <2> HIDE DEF s, pinged
  <2>50. pool = <<s>>
    BY <1>0, <2>1, Sole, OneElement
  <2> HIDE DEF pool
  <2>5. d.pool = <<s>> /\ Same(c, d) /\ d.told = c.told
    BY <1>0, <2>3, <2>50 DEF Same, Conn
  <2>6. Intact(d) /\ d.pool # <<>> /\ Queue(d) = s.sendq
    BY <1>0, <2>1, <2>4, <2>5, QueueChanged
  <2> QED BY <1>2, <2>4, <2>5, <2>6
<1> QED BY <1>1, <1>2

\* irclib_connect: a socket more, with its first two lines and a new timer, or
\* the same list.
LEMMA ConnectMade ==
    ASSUME NEW c, Good(c), c.sound, ~c.freed, ~c.timer, NEW d \in Connect(c),
           c.status \notin Active
    PROVE  /\ d.sound /\ ~d.freed
           /\ \/ d.pool = c.pool /\ ~d.timer /\ d.status = "DISCONNECTED"
              \/ d.status = "CONNECTING" /\ d.age = 0
                 /\ \E p \in Sock : /\ d.pool = Append(c.pool, p) /\ p.fd = d.socket
                                    /\ Len(p.sendq) = 2
<1> DEFINE unused == Fd \ c.open
           fd == Min(unused)
           down == [c EXCEPT !.status = "DISCONNECTED"]
<1>0. c \in Conn /\ ~c.ref
  BY DEF Good, Conn
<1>1. \/ unused = {} /\ d = [down EXCEPT !.socket = 0]
      \/ unused # {} /\ d = Connected(c, fd)
      \/ unused # {} /\ c.failed # MaxFailures /\ d = [down EXCEPT !.failed = @ + 1]
      \/ unused # {} /\ c.failed # MaxFailures
         /\ d = [down EXCEPT !.failed = @ + 1, !.socket = fd, !.open = @ \cup {fd}]
  BY DEF Connect
<1>2. unused # {} => fd \in Fd \ c.open
  BY Unused
<1> HIDE DEF unused, fd
<1>3. CASE unused # {} /\ d = Connected(c, fd)
  <2> DEFINE p == [fd |-> fd, sendq |-> <<"NICK", "USER">>, closing |-> FALSE]
             sound == c.sound /\ ~c.freed
             timer == c.timer \/ ~c.ref
             age == IF c.ref THEN c.age ELSE 0
  <2>1. p \in Sock /\ p.fd = fd /\ Len(p.sendq) = 2
    BY <1>2, <1>3 DEF Sock, Line
  <2>2. d = [c EXCEPT !.status = "CONNECTING", !.socket = fd, !.open = @ \cup {fd},
                      !.pool = Append(@, p), !.pinged = FALSE, !.sound = sound,
                      !.timer = timer, !.ref = TRUE, !.age = age]
    BY <1>3 DEF Connected
  <2>3. sound /\ age = 0
    BY <1>0
  <2> HIDE DEF p, sound, timer, age
  <2>4. /\ d.status = "CONNECTING" /\ d.socket = fd /\ d.pool = Append(c.pool, p)
        /\ d.sound = sound /\ d.freed = c.freed /\ d.age = age
    BY <1>0, <2>2 DEF Conn
  <2> QED BY <2>1, <2>3, <2>4
<1>4. CASE d = [down EXCEPT !.socket = 0]
  BY <1>0, <1>4 DEF Conn
<1>5. CASE d = [down EXCEPT !.failed = @ + 1]
  BY <1>0, <1>5 DEF Conn
<1>6. CASE d = [down EXCEPT !.failed = @ + 1, !.socket = fd, !.open = @ \cup {fd}]
  BY <1>0, <1>6 DEF Conn
<1> QED BY <1>1, <1>3, <1>4, <1>5, <1>6

\* Connecting without a socket.
LEMMA ConnectAnew ==
    ASSUME NEW c, Good(c), Intact(c), c.pool = <<>>, NEW d \in Connect(c)
    PROVE  Anew(d)
<1>1. /\ d.sound /\ ~d.freed
      /\ \/ d.pool = c.pool /\ ~d.timer /\ d.status = "DISCONNECTED"
         \/ d.status = "CONNECTING" /\ d.age = 0
            /\ \E p \in Sock : /\ d.pool = Append(c.pool, p) /\ p.fd = d.socket
                               /\ Len(p.sendq) = 2
  BY ConnectMade DEF Intact
<1>2. CASE d.pool = c.pool /\ ~d.timer /\ d.status = "DISCONNECTED"
  BY <1>1, <1>2 DEF Anew, Intact, Active
<1>3. ASSUME d.status = "CONNECTING", d.age = 0, NEW p \in Sock,
             d.pool = Append(c.pool, p), p.fd = d.socket, Len(p.sendq) = 2
      PROVE  Anew(d)
  <2>1. d.pool = <<p>>
    BY <1>3
  <2> QED BY <1>1, <1>3, <2>1 DEF Anew, Intact, Active, Queue
<1> QED BY <1>1, <1>2, <1>3

\* socketpool_close of the only socket: what is queued delays it, and otherwise
\* its closed handler may have made another one.
LEMMA CloseSole ==
    ASSUME NEW c, OK(c), Intact(c), c.pool # <<>>, NEW d \in Close(c, c.socket)
    PROVE  /\ Queue(c) # <<>> =>
                /\ Intact(d) /\ Same(c, d) /\ d.told = c.told
                /\ d.pool # <<>> /\ Queue(d) = Queue(c) /\ d.pool[1].closing
           /\ Queue(c) = <<>> =>
                /\ Anew(d)
                /\ c.status = "QUITED" => d.pool = <<>> /\ d.status = "QUITED"
<1>0. /\ Good(c) /\ c \in Conn
      /\ c.pool \in Seq(Sock) /\ Len(c.pool) = 1 /\ c.pool[1] \in Sock
      /\ c.pool[1].fd = c.socket /\ c.socket \in Fds(c)
      /\ Index(c, c.socket) = 1 /\ Sendq(c, c.socket) = Queue(c)
      /\ 1 \in DOMAIN c.pool /\ c.pool = <<c.pool[1]>>
  BY Sole, OneElement DEF OK, Good
<1>1. CASE Queue(c) # <<>>
  <2> DEFINE s == [c.pool[1] EXCEPT !.closing = TRUE]
             pool == [c.pool EXCEPT ![1] = s]
  <2>1. d = [c EXCEPT !.pool = pool]
    BY <1>0, <1>1 DEF Close
  <2>2. s.fd = c.socket /\ s.sendq = Queue(c) /\ s.closing
    BY <1>0 DEF Sock, Queue
  <2> HIDE DEF s
  <2>3. pool = <<s>>
    BY <1>0, OneElement
  <2> HIDE DEF pool
  <2>4. d.pool = <<s>> /\ Same(c, d) /\ d.told = c.told
    BY <1>0, <2>1, <2>3 DEF Same, Conn
  <2> QED BY <1>0, <1>1, <2>2, <2>4, QueueChanged
<1>2. CASE Queue(c) = <<>>
  <2>1. PICK x \in Closed(c) : d = Drop(x, c.socket)
    BY <1>0, <1>2 DEF Close
  <2>2. OK(x)
    BY WasClosed
  <2> DEFINE status == IF c.status = "QUITED" THEN "QUITED" ELSE "DISCONNECTED"
             s == [Shutdown(c) EXCEPT !.status = status]
  <2>3. /\ Good(s) /\ s.pool = c.pool /\ s.status = status
        /\ s.sound /\ ~s.freed /\ ~s.timer
    <3>0. status \in {"DISCONNECTED", "QUITED"}
      OBVIOUS
    <3>1. Good(s) /\ s.pool = c.pool /\ s.status = status
      <4> HIDE DEF status
      <4> QED BY <1>0, <3>0, WasShut
    <3>2. s.sound = (c.sound /\ ~c.freed /\ (c.ref => c.timer)) /\ s.freed = c.freed
          /\ s.timer = (c.timer /\ ~c.ref)
      BY <1>0 DEF Shutdown, Conn
    <3>3. c.sound /\ ~c.freed /\ (c.timer <=> c.ref)
      BY <1>0 DEF Intact, Good
    <3> QED BY <3>1, <3>2, <3>3
  <2>4. CASE c.status = "QUITED"
    <3>1. x = s
      <4>1. x = Shutdown(c)
        BY <2>4 DEF Closed
      <4>2. [Shutdown(c) EXCEPT !.status = "QUITED"] = Shutdown(c)
        BY <1>0, <2>4 DEF Shutdown, Conn
      <4> QED BY <2>4, <4>1, <4>2
    <3> HIDE DEF s
    <3>2. Index(x, c.socket) = 1 /\ x.pool = c.pool /\ x \in Conn
      BY <1>0, <2>3, <3>1, SendqOf DEF Good
    <3>3. d.pool = RemoveAt(x.pool, 1) /\ d.status = x.status /\ d.timer = x.timer
          /\ d.sound = x.sound /\ d.freed = x.freed
      BY <2>1, <3>2 DEF Drop, Conn
    <3>4. d.pool = <<>>
      BY <1>0, <3>2, <3>3, OneElement
    <3> QED BY <1>2, <2>3, <2>4, <3>1, <3>3, <3>4 DEF Anew, Intact, Active
  <2>5. CASE c.status # "QUITED"
    <3>1. x = s \/ x \in Connect(s)
      BY <2>5 DEF Closed
    <3> HIDE DEF s
    <3>2. /\ x.sound /\ ~x.freed
          /\ \/ x.pool = c.pool /\ ~x.timer /\ x.status = "DISCONNECTED"
             \/ x.status = "CONNECTING" /\ x.age = 0
                /\ \E p \in Sock : /\ x.pool = Append(c.pool, p) /\ p.fd = x.socket
                                   /\ Len(p.sendq) = 2
      <4>1. CASE x = s
        BY <2>3, <2>5, <4>1
      <4>2. CASE x \in Connect(s)
        BY <2>3, <2>5, <4>2, ConnectMade DEF Active
      <4> QED BY <3>1, <4>1, <4>2
    <3>3. Index(x, c.socket) = 1
      <4>1. 1 \in DOMAIN x.pool /\ x.pool[1] = c.pool[1]
        <5>1. CASE x.pool = c.pool
          BY <1>0, <5>1
        <5>2. ASSUME NEW p \in Sock, x.pool = Append(c.pool, p)
              PROVE  1 \in DOMAIN x.pool /\ x.pool[1] = c.pool[1]
          BY <1>0, <5>2, AppendProperties, LenProperties
        <5> QED BY <3>2, <5>1, <5>2
      <4> QED BY <1>0, <2>2, <4>1, SendqOf DEF OK
    <3>4. /\ d.pool = RemoveAt(x.pool, 1) /\ d.status = x.status /\ d.timer = x.timer
          /\ d.sound = x.sound /\ d.freed = x.freed /\ d.socket = x.socket /\ d.age = x.age
      BY <2>1, <2>2, <3>3 DEF Drop, OK, Good, Conn
    <3>5. CASE x.pool = c.pool /\ ~x.timer /\ x.status = "DISCONNECTED"
      <4>1. d.pool = <<>>
        BY <1>0, <3>4, <3>5, OneElement
      <4> QED BY <1>2, <2>5, <3>2, <3>4, <3>5, <4>1 DEF Anew, Intact, Active
    <3>6. ASSUME x.status = "CONNECTING", x.age = 0, NEW p \in Sock,
                 x.pool = Append(c.pool, p), p.fd = x.socket, Len(p.sendq) = 2
          PROVE  Anew(d)
      <4>1. x.pool \in Seq(Sock) /\ Len(x.pool) = 2 /\ x.pool[2] = p
        BY <1>0, <3>6, AppendProperties
      <4>2. /\ RemoveAt(x.pool, 1) \in Seq(Sock) /\ Len(RemoveAt(x.pool, 1)) = 1
            /\ RemoveAt(x.pool, 1)[1] = x.pool[2]
        <5>1. 1 \in 1..Len(x.pool) /\ 1 \in 1..Len(x.pool) - 1 /\ Len(x.pool) - 1 = 1 /\ 1 + 1 = 2
          BY <4>1
        <5> DEFINE rest == RemoveAt(x.pool, 1)
        <5>2. /\ rest \in Seq(Sock) /\ Len(rest) = Len(x.pool) - 1
              /\ \A i \in 1..Len(x.pool) - 1 :
                   rest[i] = IF i < 1 THEN x.pool[i] ELSE x.pool[i + 1]
          BY <4>1, <5>1, RemoveAtPositions
        <5> HIDE DEF rest
        <5>3. rest \in Seq(Sock) /\ Len(rest) = 1 /\ rest[1] = x.pool[2]
          BY <5>1, <5>2
        <5> QED BY <5>3 DEF rest
      <4>3. RemoveAt(x.pool, 1) = <<RemoveAt(x.pool, 1)[1]>>
        BY <4>2, OneElement
      <4>4. d.pool = <<p>>
        BY <3>4, <4>1, <4>2, <4>3
      <4>5. /\ d.sound /\ ~d.freed /\ d.status = "CONNECTING" /\ d.age = 0
            /\ p.fd = d.socket
        BY <3>2, <3>4, <3>6
      <4>6. "CONNECTING" \in Active
        BY DEF Active
      <4> QED BY <3>6, <4>4, <4>5, <4>6 DEF Anew, Intact, Queue
    <3> QED BY <1>2, <2>5, <3>2, <3>5, <3>6
  <2> QED BY <2>4, <2>5
<1> QED BY <1>1, <1>2

\* What follows the first line of a queue.
LEMMA QueueTail ==
    ASSUME NEW list \in Seq(Line), list # <<>>
    PROVE  /\ Tail(list) \in Seq(Line) /\ Len(Tail(list)) = Len(list) - 1
           /\ Len(list) \in Nat /\ Len(list) > 0
           /\ Tail(list) # <<>> <=> Len(list) > 1
           /\ Tail(list) = <<>> => Head(list) = Last(list)
           /\ Tail(list) # <<>> => Last(Tail(list)) = Last(list)
<1>1. Len(list) \in Nat /\ Len(list) > 0
  BY EmptySeq, LenProperties
<1>2. /\ Tail(list) \in Seq(Line) /\ Len(Tail(list)) = Len(list) - 1
      /\ \A i \in 1..Len(Tail(list)) : Tail(list)[i] = list[i + 1]
      /\ Head(list) = list[1]
  BY <1>1, HeadTailProperties
<1>3. Tail(list) # <<>> <=> Len(list) > 1
  BY <1>1, <1>2, EmptySeq, LenProperties
<1>4. Len(list) = 1 => Head(list) = Last(list)
  BY <1>2 DEF Last
<1>5. Len(list) > 1 => Last(Tail(list)) = Last(list)
  <2> SUFFICES ASSUME Len(list) > 1 PROVE Last(Tail(list)) = Last(list)
    OBVIOUS
  <2> DEFINE n == Len(list) - 1
  <2>1. n \in 1..Len(Tail(list)) /\ n + 1 = Len(list) /\ Len(Tail(list)) = n
    BY <1>1, <1>2
  <2> HIDE DEF n
  <2> QED BY <1>2, <2>1 DEF Last
<1> QED BY <1>1, <1>2, <1>3, <1>4, <1>5

\* What a line appended to a queue does.
LEMMA QueueAppend ==
    ASSUME NEW list \in Seq(Line), NEW line \in Line
    PROVE  /\ Append(list, line) # <<>> /\ Last(Append(list, line)) = line
           /\ Len(Append(list, line)) = Len(list) + 1 /\ Len(list) \in Nat
<1>1. Len(list) \in Nat
  BY LenProperties
<1>2. /\ Append(list, line) # <<>> /\ Len(Append(list, line)) = Len(list) + 1
      /\ Append(list, line)[Len(list) + 1] = line
  BY AppendProperties
<1> QED BY <1>1, <1>2 DEF Last

\* socketpool_sendnode of the only socket: its queue gets shorter, or it is
\* closed.
LEMMA SendNodeSole ==
    ASSUME NEW c, OK(c), Intact(c), c.pool # <<>>, Queue(c) # <<>>,
           NEW d \in SendNode(c, c.socket)
    PROVE  \/ Anew(d)
           \/ /\ Intact(d) /\ Same(c, d) /\ d.pool # <<>> /\ Queue(d) = Tail(Queue(c))
              /\ Head(Queue(c)) = "QUIT" => c.socket \in d.told
              /\ ~(c.pool[1].closing /\ Queue(d) = <<>>)
<1>0. /\ Good(c) /\ c \in Conn
      /\ c.pool \in Seq(Sock) /\ Len(c.pool) = 1 /\ c.pool[1] \in Sock
      /\ c.pool[1].fd = c.socket /\ c.socket \in Fds(c)
      /\ Index(c, c.socket) = 1 /\ Sendq(c, c.socket) = Queue(c)
      /\ 1 \in DOMAIN c.pool /\ c.pool = <<c.pool[1]>>
      /\ Queue(c) \in Seq(Line)
  BY Sole, OneElement DEF OK, Good
<1> DEFINE s == [c.pool[1] EXCEPT !.sendq = Tail(@)]
           pool == [c.pool EXCEPT ![1] = s]
           told == IF Head(Queue(c)) = "QUIT" THEN c.told \cup {c.socket} ELSE c.told
           e == [c EXCEPT !.pool = pool, !.told = told]
<1>1. d \in IF e.pool[1].sendq = <<>> /\ e.pool[1].closing THEN Close(e, c.socket) ELSE {e}
  <2> DEFINE F(y) == IF y.pool[1].sendq = <<>> /\ y.pool[1].closing
                     THEN Close(y, c.socket) ELSE {y}
  <2>1. d \in UNION {F(y) : y \in {e}}
    BY <1>0 DEF SendNode, Queue
  <2> HIDE DEF e, F
  <2>2. d \in F(e)
    BY <2>1
  <2> QED BY <2>2 DEF F
<1>2. s \in Sock /\ s.fd = c.socket /\ s.sendq = Tail(Queue(c))
      /\ s.closing = c.pool[1].closing
  BY <1>0, QueueTail DEF Sock, Queue
<1> HIDE DEF s
<1>3. pool = <<s>> /\ pool \in Seq(Sock) /\ pool = [c.pool EXCEPT ![Index(c, c.socket)] = s]
  BY <1>0, <1>2, OneElement, ExceptSeq
<1>4. told \in SUBSET Fd /\ told \subseteq c.told \cup {c.socket}
      /\ (Head(Queue(c)) = "QUIT" => c.socket \in told)
  BY <1>0, Sole DEF Conn
<1> HIDE DEF pool, told
<1>5. e \in Conn /\ e.pool = <<s>> /\ e.told = told /\ e.open = c.open /\ Same(c, e)
  BY <1>0, <1>3, <1>4 DEF Conn, Same
<1> HIDE DEF e
<1>6. Intact(e) /\ e.pool # <<>> /\ Queue(e) = Tail(Queue(c))
  BY <1>0, <1>2, <1>5, QueueChanged
<1>7. OK(e)
  <2>1. /\ c.pool[Index(c, c.socket)].closing => s.closing
        /\ e.pool = [c.pool EXCEPT ![Index(c, c.socket)] = s]
        /\ e.status = c.status /\ e.socket = c.socket /\ e.open = c.open
        /\ e.told \subseteq c.told \cup {c.socket}
        /\ e.sound = c.sound /\ e.timer = c.timer /\ e.ref = c.ref
    BY <1>0, <1>2, <1>3, <1>4, <1>5 DEF Same
  <2>2. After(c, 0, e)
    BY <1>0, <1>2, <1>5, <2>1, ChangeSock
  <2> QED BY <2>2 DEF After
<1>8. CASE d = e /\ ~(Queue(e) = <<>> /\ e.pool[1].closing)
  <2>1. e.pool[1].closing = c.pool[1].closing
    BY <1>2, <1>5
  <2> QED BY <1>4, <1>5, <1>6, <1>8, <2>1
<1>9. CASE d \in Close(e, c.socket) /\ Queue(e) = <<>>
  BY <1>5, <1>6, <1>7, <1>9, CloseSole DEF Same
<1> QED BY <1>1, <1>8, <1>9 DEF Queue

\* irclib_parse: the server is not silent, and a PING is answered.
LEMMA ParseSole ==
    ASSUME NEW c, OK(c), Intact(c), c.pool # <<>>, NEW line \in Lines,
           NEW d, d = Parse(c, line)
    PROVE  /\ Intact(d) /\ d.pool # <<>> /\ d.quiet = 0 /\ d.socket = c.socket
           /\ d.timer = c.timer /\ d.told = c.told
           /\ d.status \in Active <=> c.status \in Active
           /\ c.status \notin Active => d.status = c.status /\ Queue(d) = Queue(c)
           /\ Queue(d) = Queue(c) \/ Queue(d) = Append(Queue(c), "PONG")
<1>0. c \in Conn
  BY DEF OK, Good
<1> DEFINE heard == [c EXCEPT !.quiet = 0]
<1>1. /\ heard \in Conn /\ heard.pool = c.pool /\ heard.socket = c.socket
      /\ heard.open = c.open /\ heard.told = c.told /\ heard.sound = c.sound
      /\ heard.timer = c.timer /\ heard.ref = c.ref /\ heard.status = c.status
      /\ heard.freed = c.freed /\ heard.quiet = 0
  BY <1>0 DEF Conn, Stoned
<1> HIDE DEF heard
<1>2. OK(heard)
  BY <1>1, SamePool DEF After
<1>3. Intact(heard) /\ Queue(heard) = Queue(c)
  BY <1>1 DEF Intact, Queue
<1>4. CASE line = "ENDOFMOTD"
  <2> DEFINE status == IF c.status = "CONNECTING" THEN "CONNECTED" ELSE c.status
  <2>1. d = [heard EXCEPT !.status = status]
    BY <1>4 DEF Parse, heard
  <2>2. /\ status \in Active <=> c.status \in Active
        /\ c.status \notin Active => status = c.status
    BY DEF Active
  <2> HIDE DEF status
  <2>3. /\ d.pool = c.pool /\ d.socket = c.socket /\ d.told = c.told /\ d.sound = c.sound
        /\ d.timer = c.timer /\ d.ref = c.ref /\ d.status = status
        /\ d.freed = c.freed /\ d.quiet = 0
    BY <1>1, <2>1 DEF Conn
  <2> QED BY <2>2, <2>3 DEF Intact, Queue
<1>5. CASE line = "PING"
  <2>1. d = SendRaw(heard, "PONG") /\ "PONG" \in Line
    BY <1>5 DEF Parse, heard, Line
  <2>2. /\ Intact(d) /\ Same(heard, d) /\ d.told = heard.told
        /\ heard.status \in Active => d.pool # <<>> /\ Queue(d) = Append(Queue(heard), "PONG")
        /\ heard.status \notin Active => d = heard
    BY <1>2, <1>3, <2>1, RawSole
  <2> QED BY <1>1, <1>3, <2>2 DEF Same
<1>6. CASE line = "TEXT"
  <2>1. d = heard
    BY <1>6 DEF Parse, heard
  <2> QED BY <1>1, <1>3, <2>1
<1> QED BY <1>4, <1>5, <1>6 DEF Lines

\* irclib_timercheckalive, unless it closes the socket at once: a stoned server
\* loses its timer, a silent one gets a PING.
LEMMA CheckAliveSole ==
    ASSUME NEW c, OK(c), Intact(c), c.pool # <<>>, NEW d \in CheckAlive(c),
           c.status \notin Active /\ c.quiet = Stoned => Queue(c) # <<>>
    PROVE  /\ Intact(d) /\ d.pool # <<>> /\ d.status = c.status /\ d.socket = c.socket
           /\ d.quiet = c.quiet /\ d.told = c.told
           /\ c.status \notin Active => Queue(d) = Queue(c)
           /\ c.quiet = Stoned => ~d.timer
           /\ c.quiet <= 1 => Queue(d) = Queue(c)
           /\ c.quiet # Stoned => Queue(d) = Queue(c) \/ Queue(d) = Append(Queue(c), "PING")
<1>0. c \in Conn /\ Good(c) /\ c.quiet \in 0..5 /\ Stoned = 5
  BY DEF OK, Good, Conn, Stoned
<1>1. CASE c.quiet = Stoned
  <2> DEFINE s == SendRaw(c, "QUIT")
  <2>1. PICK x \in Close(s, s.socket) :
          d = [x EXCEPT !.sound = @ /\ Fds(x) = Fds(s), !.timer = FALSE, !.ref = FALSE]
    <3> DEFINE F(y) ==
                 {[x EXCEPT !.sound = @ /\ Fds(x) = Fds(y), !.timer = FALSE, !.ref = FALSE] :
                     x \in Close(y, y.socket)}
    <3>1. d \in UNION {F(y) : y \in {s}}
      BY <1>1 DEF CheckAlive
    <3> HIDE DEF s, F
    <3>2. d \in F(s)
      BY <3>1
    <3> QED BY <3>2 DEF F
  <2>2. /\ Intact(s) /\ Same(c, s) /\ s.told = c.told
        /\ c.status \in Active => s.pool # <<>> /\ Queue(s) = Append(Queue(c), "QUIT")
        /\ c.status \notin Active => s = c
    BY RawSole DEF Line
  <2>3. OK(s)
    BY RawSent DEF Line, After
  <2> HIDE DEF s
  <2>4. s.pool # <<>> /\ Queue(s) # <<>>
    <3>1. CASE c.status \in Active
      BY <1>0, <2>2, <3>1, Sole, QueueAppend DEF Line
    <3>2. CASE c.status \notin Active
      BY <1>1, <2>2, <3>2
    <3> QED BY <3>1, <3>2
  <2>5. /\ Intact(x) /\ Same(s, x) /\ x.told = s.told /\ x.pool # <<>>
        /\ Queue(x) = Queue(s)
    BY <2>2, <2>3, <2>4, CloseSole
  <2>6. Fds(x) = Fds(s) /\ x \in Conn
    <3>1. s.socket \in Fd \cup {0} /\ s.socket \in Fds(s) /\ Sendq(s, s.socket) # <<>>
      BY <2>2, <2>3, <2>4, Sole DEF OK
    <3>2. Fds(x) = Fds(s) /\ After(s, s.socket, x)
      BY <2>3, <3>1, CloseOK
    <3> QED BY <3>2 DEF After, OK, Good
  <2> DEFINE sound == x.sound /\ Fds(x) = Fds(s)
  <2>7. d = [x EXCEPT !.sound = sound, !.timer = FALSE, !.ref = FALSE] /\ sound
    BY <2>1, <2>5, <2>6 DEF Conn, Intact
  <2> HIDE DEF sound
  <2>8. /\ d.pool = x.pool /\ d.status = x.status /\ d.socket = x.socket
        /\ d.quiet = x.quiet /\ d.told = x.told /\ d.timer = FALSE
        /\ d.sound /\ d.freed = x.freed
    BY <2>6, <2>7 DEF Conn
  <2>9. Intact(d) /\ Queue(d) = Queue(x)
    BY <2>5, <2>8 DEF Intact, Queue
  <2> QED BY <1>0, <1>1, <2>2, <2>5, <2>8, <2>9 DEF Same
<1>2. CASE c.quiet # Stoned
  <2> DEFINE set == [c EXCEPT !.age = 0]
  <2>1. /\ set \in Conn /\ set.pool = c.pool /\ set.socket = c.socket
        /\ set.open = c.open /\ set.told = c.told /\ set.sound = c.sound
        /\ set.timer = c.timer /\ set.ref = c.ref /\ set.status = c.status
        /\ set.freed = c.freed /\ set.quiet = c.quiet
    BY <1>0 DEF Conn
  <2>2. IF c.quiet > 1 THEN d = SendRaw(set, "PING") ELSE d = set
    BY <1>2 DEF CheckAlive
  <2> HIDE DEF set
  <2>3. OK(set)
    BY <2>1, SamePool DEF After
  <2>4. Intact(set) /\ Queue(set) = Queue(c)
    BY <2>1 DEF Intact, Queue
  <2>5. CASE d = set /\ ~(c.quiet > 1)
    BY <1>2, <2>1, <2>4, <2>5
  <2>6. CASE d = SendRaw(set, "PING") /\ c.quiet > 1
    <3>1. /\ Intact(d) /\ Same(set, d) /\ d.told = set.told
          /\ set.status \in Active => d.pool # <<>> /\ Queue(d) = Append(Queue(set), "PING")
          /\ set.status \notin Active => d = set
      BY <2>3, <2>4, <2>6, RawSole DEF Line
    <3> QED BY <1>0, <1>2, <2>1, <2>4, <2>6, <3>1 DEF Same
  <2> QED BY <2>2, <2>5, <2>6
<1> QED BY <1>1, <1>2

\* irclib_close when nothing is queued: no socket is left.
LEMMA IrcCloseSole ==
    ASSUME NEW c, OK(c), Intact(c), c.pool # <<>> => Queue(c) = <<>>, NEW d \in IrcClose(c)
    PROVE  d.sound /\ d.pool = <<>>
<1> DEFINE s == [c EXCEPT !.status = "QUITED"]
           F(y) == {[Shutdown(x) EXCEPT !.freed = TRUE] : x \in Close(y, y.socket)}
<1>0. c \in Conn
  BY DEF OK, Good
<1>1. d \in UNION {F(y) : y \in {s}}
  BY DEF IrcClose
<1>2. /\ s \in Conn /\ s.status = "QUITED" /\ s.pool = c.pool /\ s.socket = c.socket
      /\ s.open = c.open /\ s.told = c.told /\ s.sound = c.sound
      /\ s.timer = c.timer /\ s.ref = c.ref /\ s.freed = c.freed
  BY <1>0 DEF Conn, Status
<1> HIDE DEF s, F
<1>3. d \in F(s)
  BY <1>1
<1>4. PICK x \in Close(s, s.socket) : d = [Shutdown(x) EXCEPT !.freed = TRUE]
  BY <1>3 DEF F
<1>5. OK(s)
  BY <1>2, SamePool DEF After
<1>6. Intact(s) /\ Queue(s) = Queue(c)
  BY <1>2 DEF Intact, Queue, Active
<1>7. Intact(x) /\ x.pool = <<>>
  <2>1. CASE s.pool = <<>>
    <3>1. s.socket \notin Fds(s)
      BY <1>5, <1>6, <2>1, Sole DEF OK
    <3>2. x = [s EXCEPT !.open = @ \ {s.socket}]
      BY <3>1 DEF Close
    <3> QED BY <1>2, <1>6, <2>1, <3>2 DEF Intact, Conn
  <2>2. CASE s.pool # <<>>
    BY <1>2, <1>5, <1>6, <2>2, CloseSole DEF Anew
  <2> QED BY <2>1, <2>2
<1>8. OK(x) /\ x \in Conn
  <2>1. s.socket \in Fd \cup {0}
    BY <1>2 DEF Conn
  <2> QED BY <1>5, <2>1, CloseOK DEF After, OK, Good
<1>9. ~x.ref /\ ~x.timer /\ x.sound /\ ~x.freed
  BY <1>7, <1>8 DEF Intact, OK, Good, Conn
<1> QED BY <1>4, <1>7, <1>8, <1>9 DEF Shutdown, Conn

\* The queue of a connection that has been quit gets shorter, and QUIT goes out
\* last.
LEMMA QuitLastSent ==
    ASSUME NEW c, Good(c), Intact(c), c.pool # <<>>, Queue(c) # <<>>, QuitLast(c),
           NEW d, d.pool # <<>>, d.status = c.status, d.socket = c.socket,
           Queue(d) = Tail(Queue(c)), Head(Queue(c)) = "QUIT" => c.socket \in d.told
    PROVE  QuitLast(d)
<1>1. Queue(c) \in Seq(Line)
  BY Sole
<1>2. /\ Tail(Queue(c)) = <<>> => Head(Queue(c)) = Last(Queue(c))
      /\ Tail(Queue(c)) # <<>> => Last(Tail(Queue(c))) = Last(Queue(c))
  BY <1>1, QueueTail
<1> QED BY <1>2 DEF QuitLast

\* A step after which there is no socket, or a new one.
LEMMA SettledAnew ==
    ASSUME IInv', Anew(conn'), ready'.lines \cap ready'.ends = {},
           phase' \in {"visit", "reading"} => turn' = 0
    PROVE  Settled'
<1>1. /\ Intact(conn') /\ conn'.sound
      /\ conn'.pool # <<>> => /\ conn'.status = "CONNECTING" /\ conn'.status \in Active
                              /\ Len(Queue(conn')) = 2 /\ conn'.age = 0
  BY DEF Anew, Intact, Active
<1>2. QuitLast(conn')
  BY <1>1 DEF QuitLast
<1>3. ReadyOK'
  <2>1. 0 \notin ready'.ends
    BY ConnectionAssumption DEF ConnectionAssumption, IInv, LoopOK
  <2> QED BY <2>1 DEF ReadyOK
<1>4. ASSUME conn'.pool # <<>>
      PROVE  /\ AtSelect(conn', server'[conn'.socket] = "shut")
             /\ AtTimers(conn', server'[conn'.socket] = "shut")
  BY <1>1, <1>4 DEF AtSelect, AtTimers
<1>5. Timely'
  BY <1>4 DEF Timely
<1> QED BY <1>1, <1>2, <1>3, <1>5 DEF Settled

\* A step that keeps the only socket.
LEMMA SettledKept ==
    ASSUME IInv, Settled, phase # "stopped", conn.pool # <<>>, NEW x, Becomes(x),
           OK(x), Intact(x), QuitLast(x), x.pool # <<>>, x.socket = conn.socket,
           UNCHANGED ready, phase' \in {"visit", "reading"} => turn' \in {0, turn},
           phase' \in {"visit", "reading"} => phase \in {"visit", "reading"},
           x.status = "QUITED" => server[conn.socket] # "mute"
    PROVE  /\ conn' = x /\ server'[conn.socket] = server[conn.socket]
           /\ Timely' => Settled'
<1>1. conn' = x
  BY DEF Becomes
<1>2. /\ conn.socket \in Fd /\ Fds(conn) = {conn.socket} /\ Fds(x) = {conn.socket}
  BY Sole DEF IInv, OK, Settled
<1>3. server'[conn.socket] = server[conn.socket]
  BY <1>2 DEF Becomes
<1>4. ReadyOK'
  <2>1. 0 \notin ready.ends
    BY ConnectionAssumption DEF ConnectionAssumption, IInv, LoopOK
  <2>2. phase \in {"visit", "reading"} /\ turn # 0 => turn = conn.socket
    BY <1>2 DEF IInv, LoopOK
  <2> QED BY <1>3, <2>1, <2>2 DEF ReadyOK, Settled
<1> QED BY <1>1, <1>3, <1>4 DEF Settled, Intact

\* The end of a visit, once the receive handler has left c.
LEMMA ProceedSettled ==
    ASSUME IInv, IInv', Settled, phase \in {"visit", "reading"}, turn # 0,
           NEW c, OK(c), Proceed(c),
           \/ Anew(c) /\ ~Sends
           \/ /\ Intact(c) /\ QuitLast(c) /\ c.pool # <<>> /\ c.socket = conn.socket
              /\ c.status = "QUITED" => conn.status = "QUITED"
              /\ Sends => Queue(c) # <<>>
              /\ c.timer =>
                   LET m == IF Sends THEN Len(Queue(c)) - 1 ELSE Len(Queue(c))
                       shut == server[turn] = "shut"
                   IN  IF c.status \in Active
                       THEN shut \/ m <= 1 \/ (m <= 2 /\ c.quiet <= 1)
                       ELSE \/ c.quiet + m <= 4 \/ (m > 0 /\ shut)
                            \/ m = 0 /\ Sends /\ c.pool[1].closing /\ shut
    PROVE  Settled'
<1> DEFINE shut == server[turn] = "shut"
<1>0. /\ OK(conn) /\ Good(conn) /\ Intact(conn) /\ ReadyOK /\ turn \in Fds(conn)
      /\ conn.status = "QUITED" /\ conn.pool # <<>> => server[conn.socket] # "mute"
  BY DEF IInv, OK, LoopOK, Settled
<1>1. /\ conn.pool # <<>> /\ turn = conn.socket /\ Index(conn, turn) = 1 /\ Len(conn.pool) = 1
      /\ Sendq(conn, turn) = Queue(conn)
  BY <1>0, Sole
<1>2. phase' = "visit" /\ turn' = 0 /\ UNCHANGED ready
  BY <1>1 DEF Proceed, NextFd
<1>3. PICK x \in IF ~Sends THEN {c}
                 ELSE SendNode(c, turn) \cup IF Broken(turn) THEN SendFails(c, turn) ELSE {} :
        Becomes(x)
  BY DEF Proceed
<1>4. conn' = x /\ OK(x) /\ ready'.lines \cap ready'.ends = {}
  BY <1>0, <1>2, <1>3 DEF Becomes, IInv, ReadyOK
<1>5. CASE Anew(x)
  BY <1>2, <1>4, <1>5, SettledAnew
<1>6. ASSUME Intact(x), x.pool # <<>>, QuitLast(x), x.socket = conn.socket,
             x.status = "QUITED" => conn.status = "QUITED",
             x.timer => AtTimers(x, shut)
      PROVE  Settled'
  <2>1. /\ conn' = x /\ server'[conn.socket] = server[conn.socket]
        /\ Timely' => Settled'
    BY <1>0, <1>1, <1>2, <1>3, <1>4, <1>6, SettledKept
  <2>2. Timely'
    BY <1>1, <1>2, <1>6, <2>1 DEF Timely
  <2> QED BY <2>1, <2>2
<1>7. CASE ~Sends /\ ~Anew(x)
  <2>1. x = c /\ ~Anew(c)
    BY <1>3, <1>7
  <2>2. x.timer => AtTimers(x, shut)
    BY <1>7, <2>1 DEF AtTimers
  <2> QED BY <1>6, <2>1, <2>2
<1>8. CASE Sends /\ ~Anew(x)
  <2>1. /\ Intact(c) /\ QuitLast(c) /\ c.pool # <<>> /\ c.socket = turn /\ Good(c)
        /\ Queue(c) # <<>> /\ Queue(c) \in Seq(Line)
        /\ c.status = "QUITED" => conn.status = "QUITED"
        /\ c.status \notin Active => c.status = "QUITED"
    BY <1>1, <1>8, Sole DEF OK, Intact
  <2>2. Len(Queue(c)) \in Nat /\ Len(Queue(c)) > 0 /\ c.quiet \in Nat
    BY <2>1, QueueTail DEF Good, Conn
  <2>3. CASE x \in SendNode(c, turn)
    <3>1. /\ Intact(x) /\ Same(c, x) /\ x.pool # <<>> /\ Queue(x) = Tail(Queue(c))
          /\ Head(Queue(c)) = "QUIT" => c.socket \in x.told
          /\ ~(c.pool[1].closing /\ Queue(x) = <<>>)
      BY <1>8, <2>1, <2>3, SendNodeSole
    <3>2. QuitLast(x)
      BY <2>1, <3>1, QuitLastSent DEF Same
    <3>3. Len(Queue(x)) = Len(Queue(c)) - 1 /\ (Queue(x) # <<>> <=> Len(Queue(c)) > 1)
      BY <2>1, <3>1, QueueTail
    <3>4. x.timer => AtTimers(x, shut)
      BY <1>8, <2>2, <3>1, <3>3 DEF AtTimers, Same
    <3> QED BY <1>1, <1>6, <2>1, <3>1, <3>2, <3>4 DEF Same
  <2>4. CASE Broken(turn) /\ x \in SendFails(c, turn)
    <3>1. shut
      BY <2>4 DEF Broken
    <3> DEFINE s == [c.pool[1] EXCEPT !.closing = TRUE]
               pool == [c.pool EXCEPT ![1] = s]
    <3>2. x = [c EXCEPT !.pool = pool]
      BY <2>1, <2>4, Sole DEF SendFails
    <3>3. s.fd = c.socket /\ s.sendq = Queue(c)
      BY <2>1, Sole DEF Sock, Queue
    <3> HIDE DEF s
    <3>4. pool = <<s>>
      BY <2>1, Sole, OneElement
    <3> HIDE DEF pool
    <3>5. x.pool = <<s>> /\ Same(c, x) /\ x.told = c.told
      BY <2>1, <3>2, <3>4 DEF Same, Good, Conn
    <3>6. Intact(x) /\ x.pool # <<>> /\ Queue(x) = Queue(c)
      BY <2>1, <3>3, <3>5, QueueChanged
    <3>7. QuitLast(x)
      BY <2>1, <3>5, <3>6 DEF QuitLast, Same
    <3>8. AtTimers(x, shut)
      BY <2>2, <3>1, <3>6 DEF AtTimers
    <3> QED BY <1>1, <1>6, <2>1, <3>5, <3>6, <3>7, <3>8 DEF Same
  <2> QED BY <1>3, <1>8, <2>3, <2>4
<1> QED BY <1>5, <1>7, <1>8

\* What the proof asks of the run: no quit that is not heard, no connect or
\* change of server while a socket is left, no end while lines are queued.
Gentle == Tolerated \subseteq {"partial line", "broken pipe"}

\* The socket whose turn it is, is the only one.
LEMMA SoleTurn ==
    ASSUME IInv, Settled, phase \in {"visit", "reading"}
    PROVE  /\ OK(conn) /\ Good(conn) /\ conn \in Conn /\ Intact(conn) /\ QuitLast(conn)
           /\ ReadyOK /\ Timely /\ conn.quiet \in 0..5 /\ turn \in Fd \cup {0}
           /\ conn.status = "QUITED" /\ conn.pool # <<>> => server[conn.socket] # "mute"
           /\ turn # 0 => /\ conn.pool # <<>> /\ turn = conn.socket
                          /\ Sendq(conn, turn) = Queue(conn)
                          /\ Fds(conn) = {turn}
           /\ conn.pool # <<>> =>
                /\ Queue(conn) \in Seq(Line) /\ Len(Queue(conn)) \in Nat
                /\ Queue(conn) # <<>> <=> Len(Queue(conn)) > 0
<1>1. /\ OK(conn) /\ Good(conn) /\ conn \in Conn /\ turn \in Fd \cup {0}
      /\ turn # 0 => turn \in Fds(conn)
  BY DEF IInv, OK, Good, LoopOK
<1>2. /\ Intact(conn) /\ QuitLast(conn) /\ ReadyOK /\ Timely
      /\ conn.status = "QUITED" /\ conn.pool # <<>> => server[conn.socket] # "mute"
  BY DEF Settled
<1>3. conn.quiet \in 0..5
  BY <1>1 DEF Conn, Stoned
<1> QED BY <1>1, <1>2, <1>3, Sole

\* The visit of a socket from which there is nothing to receive.
LEMMA VisitSendSettled ==
    ASSUME IInv, IInv', Settled, VisitSend
    PROVE  Settled'
<1>0. 0 \notin Fd
  BY ConnectionAssumption DEF ConnectionAssumption
<1>1. phase = "visit" /\ turn # 0 /\ turn \notin ready.ends /\ Proceed(conn)
  BY <1>0 DEF VisitSend
<1>2. /\ OK(conn) /\ Intact(conn) /\ QuitLast(conn) /\ conn.quiet \in 0..5
      /\ conn.pool # <<>> /\ turn = conn.socket /\ Sendq(conn, turn) = Queue(conn)
      /\ Len(Queue(conn)) \in Nat /\ (Queue(conn) # <<>> <=> Len(Queue(conn)) > 0)
      /\ Timely
  BY <1>1, SoleTurn
<1>3. Sends <=> turn \in ready.write /\ Len(Queue(conn)) > 0
  BY <1>2 DEF Sends
<1>4. conn.timer => AtVisit(conn, server[turn] = "shut", turn \in ready.write, FALSE)
  BY <1>1, <1>2 DEF Timely, AtVisit
<1>5. conn.timer =>
        LET m == IF Sends THEN Len(Queue(conn)) - 1 ELSE Len(Queue(conn))
            shut == server[turn] = "shut"
        IN  IF conn.status \in Active
            THEN shut \/ m <= 1 \/ (m <= 2 /\ conn.quiet <= 1)
            ELSE \/ conn.quiet + m <= 4 \/ (m > 0 /\ shut)
                 \/ m = 0 /\ Sends /\ conn.pool[1].closing /\ shut
  BY <1>2, <1>3, <1>4 DEF AtVisit
<1>6. Sends => Queue(conn) # <<>>
  BY <1>2, <1>3
<1> QED BY <1>1, <1>2, <1>5, <1>6, ProceedSettled

\* A line is received.
LEMMA LineSettled ==
    ASSUME IInv, IInv', Settled, phase \in {"visit", "reading"}, turn # 0,
           turn \notin ready.ends, NEW line \in Lines, Proceed(Parse(conn, line))
    PROVE  Settled'
<1> DEFINE c == Parse(conn, line)
<1>2. /\ OK(conn) /\ Intact(conn) /\ QuitLast(conn) /\ conn.quiet \in 0..5
      /\ conn.pool # <<>> /\ turn = conn.socket /\ Sendq(conn, turn) = Queue(conn)
      /\ Queue(conn) \in Seq(Line)
      /\ Len(Queue(conn)) \in Nat /\ (Queue(conn) # <<>> <=> Len(Queue(conn)) > 0)
      /\ Timely
  BY SoleTurn
<1>3. Sends <=> turn \in ready.write /\ Len(Queue(conn)) > 0
  BY <1>2 DEF Sends
<1>4. conn.timer => AtVisit(conn, server[turn] = "shut", turn \in ready.write, FALSE)
  BY <1>2 DEF Timely, AtVisit
<1>5. /\ Intact(c) /\ c.pool # <<>> /\ c.quiet = 0 /\ c.socket = conn.socket
      /\ c.timer = conn.timer /\ c.told = conn.told
      /\ c.status \in Active <=> conn.status \in Active
      /\ conn.status \notin Active => c.status = conn.status /\ Queue(c) = Queue(conn)
      /\ Queue(c) = Queue(conn) \/ Queue(c) = Append(Queue(conn), "PONG")
  BY <1>2, ParseSole
<1>6. OK(c)
  BY <1>2, ParseOK DEF After
<1>7. Proceed(c)
  OBVIOUS
<1> HIDE DEF c
<1>8. /\ Len(Queue(c)) \in {Len(Queue(conn)), Len(Queue(conn)) + 1}
      /\ Queue(conn) # <<>> => Queue(c) # <<>>
  BY <1>2, <1>5, QueueAppend DEF Line
<1>9. c.status = "QUITED" => conn.status = "QUITED"
  BY <1>5 DEF Active, Intact
<1>10. QuitLast(c)
  BY <1>2, <1>5, <1>9 DEF QuitLast, Active
<1>11. c.timer =>
        LET m == IF Sends THEN Len(Queue(c)) - 1 ELSE Len(Queue(c))
            shut == server[turn] = "shut"
        IN  IF c.status \in Active
            THEN shut \/ m <= 1 \/ (m <= 2 /\ c.quiet <= 1)
            ELSE \/ c.quiet + m <= 4 \/ (m > 0 /\ shut)
                 \/ m = 0 /\ Sends /\ c.pool[1].closing /\ shut
  BY <1>2, <1>3, <1>4, <1>5, <1>8 DEF AtVisit
<1>12. Sends => Queue(c) # <<>>
  BY <1>2, <1>3, <1>8
<1> QED BY <1>2, <1>5, <1>6, <1>7, <1>9, <1>10, <1>11, <1>12, ProceedSettled

\* The end of the connection is met.
LEMMA ReadEndSettled ==
    ASSUME IInv, IInv', Settled, ReadEnd
    PROVE  Settled'
<1>0. 0 \notin Fd
  BY ConnectionAssumption DEF ConnectionAssumption
<1>1. phase \in {"visit", "reading"} /\ turn # 0
  BY <1>0 DEF ReadEnd, IInv, LoopOK
<1>2. /\ OK(conn) /\ Intact(conn) /\ QuitLast(conn) /\ conn.quiet \in 0..5
      /\ conn.pool # <<>> /\ turn = conn.socket /\ Sendq(conn, turn) = Queue(conn)
      /\ Fds(conn) = {turn} /\ turn \in Fd
      /\ Queue(conn) \in Seq(Line)
      /\ Len(Queue(conn)) \in Nat /\ (Queue(conn) # <<>> <=> Len(Queue(conn)) > 0)
      /\ Timely /\ ReadyOK
  BY <1>1, SoleTurn
<1>3. Sends <=> turn \in ready.write /\ Len(Queue(conn)) > 0
  BY <1>2 DEF Sends
<1>4. server[turn] = "shut"
  <2>1. server[turn] # "none"
    BY <1>2 DEF IInv, LoopOK
  <2>2. Peer = server[turn]
    BY <1>2 DEF Peer
  <2> QED BY <1>2, <2>1, <2>2 DEF ReadEnd, ReadyOK
<1>5. PICK c \in Close(conn, turn) : Proceed(c)
  BY DEF ReadEnd
<1>6. OK(c)
  BY <1>2, <1>5, CloseOK DEF After
<1>7. CASE Queue(conn) = <<>>
  <2>1. Anew(c) /\ ~Sends
    BY <1>2, <1>3, <1>5, <1>7, CloseSole
  <2> QED BY <1>1, <1>5, <1>6, <2>1, ProceedSettled
<1>8. CASE Queue(conn) # <<>>
  <2>1. /\ Intact(c) /\ Same(conn, c) /\ c.told = conn.told
        /\ c.pool # <<>> /\ Queue(c) = Queue(conn) /\ c.pool[1].closing
    BY <1>2, <1>5, <1>8, CloseSole
  <2>2. QuitLast(c)
    BY <1>2, <2>1 DEF QuitLast, Same
  <2>3. c.timer =>
          LET m == IF Sends THEN Len(Queue(c)) - 1 ELSE Len(Queue(c))
              shut == server[turn] = "shut"
          IN  IF c.status \in Active
              THEN shut \/ m <= 1 \/ (m <= 2 /\ c.quiet <= 1)
              ELSE \/ c.quiet + m <= 4 \/ (m > 0 /\ shut)
                   \/ m = 0 /\ Sends /\ c.pool[1].closing /\ shut
    <3>0. Len(Queue(c)) \in Nat /\ Len(Queue(c)) > 0
      BY <1>2, <1>8, <2>1
    <3>1. c.pool[1].closing
      BY <2>1
    <3> DEFINE m == IF Sends THEN Len(Queue(c)) - 1 ELSE Len(Queue(c))
    <3>2. m > 0 \/ (m = 0 /\ Sends)
      <4>1. CASE Sends
        <5>1. m = Len(Queue(c)) - 1
          BY <4>1, Zenon
        <5> HIDE DEF m
        <5>2. m > 0 \/ m = 0
          BY <3>0, <5>1
        <5> QED BY <4>1, <5>2
      <4>2. CASE ~Sends
        BY <3>0, <4>2
      <4> QED BY <4>1, <4>2
    <3> HIDE DEF m
    <3>3. IF c.status \in Active
          THEN server[turn] = "shut" \/ m <= 1 \/ (m <= 2 /\ c.quiet <= 1)
          ELSE \/ c.quiet + m <= 4 \/ (m > 0 /\ server[turn] = "shut")
               \/ m = 0 /\ Sends /\ c.pool[1].closing /\ server[turn] = "shut"
      BY <1>4, <3>1, <3>2, Zenon
    <3> QED BY <3>3 DEF m
  <2> QED BY <1>1, <1>2, <1>5, <1>6, <1>8, <2>1, <2>2, <2>3, ProceedSettled DEF Same
<1> QED BY <1>7, <1>8

\* irclib_receive waits for the rest of a line.
LEMMA VisitWaitSettled ==
    ASSUME IInv, IInv', Settled, VisitWait
    PROVE  Settled'
<1>1. /\ phase = "visit" /\ phase' = "reading" /\ UNCHANGED <<conn, server, turn, ready>>
  BY DEF VisitWait
<1>2. ReadyOK' /\ Timely'
  BY <1>1 DEF Settled, ReadyOK, Timely
<1> QED BY <1>1, <1>2 DEF Settled

\* All the visits.
LEMMA VisitSettled ==
    ASSUME IInv, IInv', Settled,
           VisitSend \/ VisitWait \/ Read \/ \E line \in Lines : VisitLine(line)
    PROVE  Settled'
<1>0. 0 \notin Fd
  BY ConnectionAssumption DEF ConnectionAssumption
<1>1. ASSUME NEW line \in Lines, VisitLine(line) PROVE Settled'
  <2>1. /\ phase = "visit" /\ turn \in ready.lines /\ Proceed(Parse(conn, line))
    BY <1>1 DEF VisitLine
  <2>2. turn # 0 /\ turn \notin ready.ends
    BY <1>0, <2>1 DEF IInv, LoopOK, Settled, ReadyOK
  <2> QED BY <2>1, <2>2, LineSettled
<1>2. ASSUME NEW line \in Lines, ReadLine(line) PROVE Settled'
  <2>1. /\ phase = "reading" /\ Peer = "up" /\ Proceed(Parse(conn, line))
    BY <1>2 DEF ReadLine
  <2>2. turn # 0
    BY <2>1 DEF IInv, LoopOK
  <2>3. turn = conn.socket /\ Fds(conn) = {turn} /\ ReadyOK
    BY <2>1, <2>2, SoleTurn
  <2>4. turn \notin ready.ends
    BY <2>1, <2>3 DEF Peer, ReadyOK
  <2> QED BY <2>1, <2>2, <2>4, LineSettled
<1> QED BY <1>1, <1>2, VisitSendSettled, VisitWaitSettled, ReadEndSettled DEF Read

\* The counter of select, and nothing added to it.
LEMMA QuietGrows ==
    ASSUME NEW q \in 0..5, NEW period \in {0, 1}
    PROVE  Min({5, q + period}) \in 0..5 /\ Min({5, q + period}) <= q + period
<1>1. q + period \in Nat /\ 5 \in Nat
  OBVIOUS
<1>2. Min({5, q + period}) \in {5, q + period} /\ Min({5, q + period}) <= 5
  BY <1>1, MinMaxPair
<1>3. Min({5, q + period}) <= q + period
  <2>1. \E x \in {5, q + period} : \A y \in {5, q + period} : x =< y
    BY <1>1
  <2>2. \A y \in {5, q + period} : Min({5, q + period}) =< y
    BY <2>1, Zenon DEF Min
  <2> QED BY <2>2
<1> QED BY <1>1, <1>2, <1>3

\* select: whose queue is not empty can be written, and whose server has closed
\* is ready for its end.
LEMMA SelectSettled ==
    ASSUME IInv, IInv', Settled, Gentle, NEW period \in {0, 1}, Select(period)
    PROVE  Settled'
<1> DEFINE quiet == Min({5, conn.quiet + period})
           age == Max({conn.age, period})
           shut == server[conn.socket] = "shut"
<1>0. /\ phase = "select" /\ phase' = "visit" /\ turn' = FirstFd(conn)
      /\ server' = server /\ 0 \notin Fd
  BY ConnectionAssumption DEF Select, ConnectionAssumption
<1>1. /\ OK(conn) /\ Good(conn) /\ conn \in Conn /\ Intact(conn) /\ QuitLast(conn)
      /\ ReadyOK /\ Timely /\ conn.quiet \in 0..5
      /\ conn.status = "QUITED" /\ conn.pool # <<>> => server[conn.socket] # "mute"
  BY <1>0 DEF Settled, IInv, OK, Good, Conn, Stoned
<1>2. quiet \in 0..5 /\ quiet <= conn.quiet + period
  BY <1>1, QuietGrows
<1>3. conn' = [conn EXCEPT !.quiet = quiet, !.age = age]
  BY DEF Select, Stoned
<1> HIDE DEF quiet, age
<1>4. /\ conn'.pool = conn.pool /\ conn'.socket = conn.socket /\ conn'.told = conn.told
      /\ conn'.status = conn.status /\ conn'.timer = conn.timer /\ conn'.quiet = quiet
      /\ conn'.sound = conn.sound /\ conn'.freed = conn.freed
  BY <1>1, <1>3 DEF Conn
<1>5. Intact(conn') /\ QuitLast(conn') /\ Queue(conn') = Queue(conn)
  BY <1>1, <1>4 DEF Intact, QuitLast, Queue
<1>6. PICK lines \in SUBSET {fd \in Fds(conn) : server[fd] = "up"} :
        ready' = [lines |-> lines,
                  ends  |-> {fd \in Fds(conn) : server[fd] = "shut"},
                  write |-> {fd \in Fds(conn) : Sendq(conn, fd) # <<>>}]
  BY DEF Select
<1>7. ReadyOK'
  <2>1. ready'.lines = lines /\ ready'.ends = {fd \in Fds(conn) : server[fd] = "shut"}
    BY <1>6
  <2> QED BY <1>0, <2>1 DEF ReadyOK
<1>8. Timely'
  <2> SUFFICES ASSUME conn.pool # <<>>, conn.timer PROVE Timely'
    BY <1>4 DEF Timely
  <2>1. /\ Sendq(conn, conn.socket) = Queue(conn) /\ Fds(conn) = {conn.socket}
        /\ Len(Queue(conn)) \in Nat /\ (Queue(conn) # <<>> <=> Len(Queue(conn)) > 0)
        /\ Len(conn.pool) = 1 /\ conn.pool[1].fd = conn.socket /\ conn.socket \in Fd
    BY <1>1, Sole
  <2>2. turn' = conn.socket /\ turn' # 0
    BY <1>0, <2>1 DEF FirstFd
  <2>3. /\ turn' \in ready'.write <=> Len(Queue(conn)) > 0
        /\ turn' \in ready'.ends <=> shut
    BY <1>6, <2>1, <2>2
  <2>4. AtSelect(conn, shut)
    BY <1>0, <1>1 DEF Timely
  <2>5. ASSUME conn.status \notin Active, ~shut, Len(Queue(conn)) = 0
        PROVE  quiet <= 4
    <3>1. conn.socket \in conn.told /\ server[conn.socket] # "mute"
      BY <1>1, <2>1, <2>5 DEF Intact, QuitLast
    <3>2. server[conn.socket] = "up"
      BY <2>1, <2>5, <3>1 DEF IInv, LoopOK
    <3>3. period = 0
      BY <3>1, <3>2 DEF Select, Gentle
    <3> QED BY <1>1, <1>2, <2>4, <2>5, <3>3 DEF AtSelect
  <2>6. AtVisit(conn', shut, turn' \in ready'.write, turn' \in ready'.ends)
    <3>1. CASE conn.status \in Active
      BY <1>4, <1>5, <2>1, <2>3, <2>4, <3>1 DEF AtSelect, AtVisit
    <3>2. CASE conn.status \notin Active /\ shut
      BY <1>4, <1>5, <2>1, <2>3, <3>2 DEF AtVisit
    <3>3. CASE conn.status \notin Active /\ ~shut /\ Len(Queue(conn)) = 0
      BY <1>2, <1>4, <1>5, <2>5, <3>3 DEF AtVisit
    <3>4. CASE conn.status \notin Active /\ ~shut /\ Len(Queue(conn)) > 0
      <4>1. quiet + Len(Queue(conn)) <= 5
        BY <1>1, <1>2, <2>1, <2>4, <3>4 DEF AtSelect
      <4> QED BY <1>4, <1>5, <2>3, <3>4, <4>1 DEF AtVisit
    <3> QED BY <2>1, <3>1, <3>2, <3>3, <3>4
  <2> QED BY <1>0, <1>4, <2>2, <2>6 DEF Timely
<1> QED BY <1>0, <1>1, <1>4, <1>5, <1>7, <1>8 DEF Settled, Intact

\* timers_test: no stoned connection is closed at once, and a PING has room.
LEMMA TimersSettled ==
    ASSUME IInv, IInv', Settled, NEW reconnect \in BOOLEAN, Timers(reconnect)
    PROVE  Settled'
<1> DEFINE shut == server[conn.socket] = "shut"
<1>0. phase = "visit" /\ turn = 0 /\ phase' = "select" /\ UNCHANGED ready
  BY DEF Timers
<1>1. /\ OK(conn) /\ Good(conn) /\ conn \in Conn /\ Intact(conn) /\ QuitLast(conn)
      /\ ReadyOK /\ Timely /\ conn.quiet \in 0..5
      /\ conn.status = "QUITED" /\ conn.pool # <<>> => server[conn.socket] # "mute"
  BY <1>0, SoleTurn
<1>2. PICK c \in IF reconnect THEN TimerReconnect(conn) ELSE {conn} :
        \E x \in IF c.timer /\ c.age = 1 THEN CheckAlive(c) ELSE {c} : Becomes(x)
  BY DEF Timers
<1>3. PICK x \in IF c.timer /\ c.age = 1 THEN CheckAlive(c) ELSE {c} : Becomes(x)
  BY <1>2
<1>4. conn' = x /\ OK(x) /\ ready'.lines \cap ready'.ends = {}
  BY <1>0, <1>1, <1>3 DEF Becomes, IInv, ReadyOK
<1>5. CASE Anew(c)
  <2>1. ~(c.timer /\ c.age = 1)
    BY <1>5 DEF Anew, Intact
  <2>2. x = c
    BY <1>3, <2>1
  <2> QED BY <1>0, <1>4, <1>5, <2>2, SettledAnew
<1>6. c = conn \/ Anew(c)
  <2>1. CASE c = conn
    BY <2>1
  <2>2. CASE conn.status = "DISCONNECTED" /\ c \in Connect(conn)
    <3>1. conn.pool = <<>>
      BY <1>1, <2>2 DEF Intact, Active
    <3> QED BY <1>1, <2>2, <3>1, ConnectAnew
  <2> QED BY <1>2, <2>1, <2>2 DEF TimerReconnect
<1>7. CASE c = conn /\ conn.pool = <<>>
  <2>1. x = conn
    BY <1>1, <1>3, <1>7 DEF Intact
  <2>2. Anew(conn)
    BY <1>1, <1>7 DEF Anew
  <2> QED BY <1>0, <1>4, <2>1, <2>2, SettledAnew
<1>8. CASE c = conn /\ conn.pool # <<>>
  <2>0. /\ Queue(conn) \in Seq(Line) /\ Len(Queue(conn)) \in Nat
        /\ Queue(conn) # <<>> <=> Len(Queue(conn)) > 0
    BY <1>0, <1>8, SoleTurn
  <2>1. conn.timer => AtTimers(conn, shut)
    BY <1>0, <1>1, <1>8 DEF Timely
  <2>2. ASSUME Intact(x), x.pool # <<>>, x.status = conn.status, x.socket = conn.socket,
               QuitLast(x), x.timer => AtSelect(x, shut)
        PROVE  Settled'
    <3>1. /\ conn' = x /\ server'[conn.socket] = server[conn.socket]
          /\ Timely' => Settled'
      BY <1>0, <1>1, <1>3, <1>4, <1>8, <2>2, SettledKept
    <3>2. Timely'
      BY <1>0, <2>2, <3>1 DEF Timely
    <3> QED BY <3>1, <3>2
  <2>3. CASE ~(conn.timer /\ conn.age = 1)
    <3>1. x = conn
      BY <1>3, <1>8, <2>3
    <3>2. conn.timer => AtSelect(conn, shut)
      <4>1. conn.age \in 0..1
        BY <1>1 DEF Conn
      <4> QED BY <1>1, <2>0, <2>1, <2>3, <4>1 DEF AtSelect, AtTimers
    <3> QED BY <1>1, <1>8, <2>2, <3>1, <3>2
  <2>4. CASE conn.timer /\ conn.age = 1
    <3>1. x \in CheckAlive(conn)
      BY <1>3, <1>8, <2>4
    <3>2. conn.status \notin Active /\ conn.quiet = Stoned => Queue(conn) # <<>>
      BY <2>0, <2>1, <2>4 DEF AtTimers, Stoned
    <3>3. /\ Intact(x) /\ x.pool # <<>> /\ x.status = conn.status /\ x.socket = conn.socket
          /\ x.quiet = conn.quiet /\ x.told = conn.told
          /\ conn.status \notin Active => Queue(x) = Queue(conn)
          /\ conn.quiet = Stoned => ~x.timer
          /\ conn.quiet <= 1 => Queue(x) = Queue(conn)
          /\ conn.quiet # Stoned =>
               Queue(x) = Queue(conn) \/ Queue(x) = Append(Queue(conn), "PING")
      BY <1>1, <1>8, <3>1, <3>2, CheckAliveSole
    <3>4. QuitLast(x)
      BY <1>1, <1>8, <3>3 DEF QuitLast, Active
    <3>5. ASSUME conn.quiet # Stoned PROVE AtSelect(x, shut)
      <4>1. Len(Queue(x)) \in {Len(Queue(conn)), Len(Queue(conn)) + 1}
        BY <2>0, <3>3, <3>5, QueueAppend DEF Line
      <4>2. AtTimers(conn, shut)
        BY <2>1, <2>4
      <4>3. CASE conn.status \in Active
        BY <1>1, <2>0, <2>4, <3>3, <4>1, <4>2, <4>3 DEF AtTimers, AtSelect
      <4>4. CASE conn.status \notin Active
        BY <1>1, <2>0, <3>3, <4>2, <4>4 DEF AtTimers, AtSelect
      <4> QED BY <4>3, <4>4
    <3>6. x.timer => AtSelect(x, shut)
      BY <3>3, <3>5
    <3> QED BY <2>2, <3>3, <3>4, <3>6
  <2> QED BY <2>3, <2>4
<1> QED BY <1>5, <1>6, <1>7, <1>8

\* irc quit: the QUIT is the last of a short queue.
LEMMA CommandQuitSettled ==
    ASSUME IInv, IInv', Settled, Gentle, CommandQuit
    PROVE  Settled'
<1> DEFINE shut == server[conn.socket] = "shut"
           s == SendRaw(conn, "QUIT")
           x == [s EXCEPT !.status = "QUITED"]
<1>0. phase = "visit" /\ UNCHANGED <<phase, turn, ready>> /\ Becomes(x)
  BY DEF CommandQuit, Quit
<1>1. /\ OK(conn) /\ Good(conn) /\ conn \in Conn /\ Intact(conn) /\ QuitLast(conn)
      /\ ReadyOK /\ Timely /\ conn.quiet \in 0..5
      /\ conn.status = "QUITED" /\ conn.pool # <<>> => server[conn.socket] # "mute"
      /\ turn # 0 => conn.pool # <<>> /\ turn = conn.socket
  BY <1>0, SoleTurn
<1>2. /\ conn.status \in Active => conn.quiet <= 1 /\ server[conn.socket] # "mute"
  BY DEF CommandQuit, Gentle
<1>3. /\ Intact(s) /\ Same(conn, s) /\ s.told = conn.told
      /\ conn.status \in Active => s.pool # <<>> /\ Queue(s) = Append(Queue(conn), "QUIT")
      /\ conn.status \notin Active => s = conn
  BY <1>1, RawSole DEF Line
<1>4. s \in Conn
  BY <1>1, RawSent DEF Line
<1> HIDE DEF s
<1>5. /\ x.pool = s.pool /\ x.status = "QUITED" /\ x.socket = s.socket /\ x.told = s.told
      /\ x.timer = s.timer /\ x.quiet = s.quiet /\ x.sound = s.sound /\ x.freed = s.freed
  BY <1>4 DEF Conn
<1>6. conn' = x /\ OK(x) /\ ready'.lines \cap ready'.ends = {}
  BY <1>0, <1>1 DEF Becomes, IInv, ReadyOK
<1> HIDE DEF x
<1>7. Intact(x) /\ Queue(x) = Queue(s)
  BY <1>3, <1>5 DEF Intact, Queue, Active
<1>8. CASE conn.pool = <<>>
  <2>1. x.pool = <<>>
    BY <1>1, <1>3, <1>5, <1>8 DEF Intact
  <2>2. Anew(x) /\ turn' = 0
    BY <1>0, <1>1, <1>7, <1>8, <2>1 DEF Anew
  <2> QED BY <1>6, <2>2, SettledAnew
<1>9. CASE conn.pool # <<>>
  <2>0. Queue(conn) \in Seq(Line) /\ Len(Queue(conn)) \in Nat
    BY <1>0, <1>9, SoleTurn
  <2>1. conn.status \in Active \/ conn.status = "QUITED"
    BY <1>1, <1>9 DEF Intact
  <2>2. x.pool # <<>> /\ x.socket = conn.socket /\ x.timer = conn.timer
        /\ x.quiet = conn.quiet /\ x.told = conn.told
    BY <1>3, <1>5, <1>9, <2>1 DEF Same, Active
  <2>3. conn.status \in Active =>
          /\ Queue(x) # <<>> /\ Last(Queue(x)) = "QUIT"
          /\ Len(Queue(x)) = Len(Queue(conn)) + 1
    BY <1>3, <1>7, <2>0, QueueAppend DEF Line
  <2>4. conn.status = "QUITED" => Queue(x) = Queue(conn)
    BY <1>3, <1>7 DEF Active
  <2>5. QuitLast(x)
    BY <1>1, <1>9, <2>1, <2>2, <2>3, <2>4 DEF QuitLast
  <2>6. /\ conn' = x /\ server'[conn.socket] = server[conn.socket]
        /\ Timely' => Settled'
    BY <1>0, <1>1, <1>2, <1>6, <1>7, <1>9, <2>1, <2>2, <2>5, SettledKept
  <2>7. ASSUME conn.timer, turn # 0
        PROVE  AtVisit(x, shut, turn \in ready.write, turn \in ready.ends)
    <3>1. AtVisit(conn, shut, turn \in ready.write, turn \in ready.ends)
      BY <1>0, <1>1, <1>9, <2>7 DEF Timely
    <3>2. CASE conn.status \in Active
      <4>1. x.status \notin Active
        BY <1>5 DEF Active
      <4> QED BY <1>1, <1>2, <2>0, <2>2, <2>3, <3>1, <3>2, <4>1 DEF AtVisit
    <3>3. CASE conn.status = "QUITED"
      BY <1>5, <2>2, <2>4, <3>1, <3>3 DEF AtVisit
    <3> QED BY <2>1, <3>2, <3>3
  <2>8. ASSUME conn.timer, turn = 0
        PROVE  AtTimers(x, shut)
    <3>1. AtTimers(conn, shut)
      BY <1>0, <1>1, <1>9, <2>8 DEF Timely
    <3>2. CASE conn.status \in Active
      <4>1. x.status \notin Active
        BY <1>5 DEF Active
      <4> QED BY <1>1, <1>2, <2>0, <2>2, <2>3, <3>1, <3>2, <4>1 DEF AtTimers
    <3>3. CASE conn.status = "QUITED"
      <4>1. x.status \notin Active /\ conn.status \notin Active
        BY <1>5, <3>3 DEF Active
      <4>2. Queue(x) = Queue(conn) /\ x.quiet = conn.quiet
        BY <2>2, <2>4, <3>3
      <4> QED BY <3>1, <4>1, <4>2 DEF AtTimers
    <3> QED BY <2>1, <3>2, <3>3
  <2>9. Timely'
    BY <1>0, <2>2, <2>6, <2>7, <2>8 DEF Timely
  <2> QED BY <2>6, <2>9
<1> QED BY <1>8, <1>9

\* irc connect: no socket was left.
LEMMA CommandConnectSettled ==
    ASSUME IInv, IInv', Settled, Gentle, CommandConnect
    PROVE  Settled'
<1>1. /\ phase = "visit" /\ UNCHANGED <<phase, turn, ready>> /\ conn.pool = <<>>
  BY DEF CommandConnect, Gentle
<1>2. PICK x \in Connect(conn) : Becomes(x)
  BY DEF CommandConnect
<1>3. /\ Good(conn) /\ Intact(conn) /\ ReadyOK /\ turn = 0
  BY <1>1, SoleTurn
<1>4. Anew(x) /\ conn' = x
  BY <1>1, <1>2, <1>3, ConnectAnew DEF Becomes
<1> QED BY <1>1, <1>3, <1>4, SettledAnew DEF ReadyOK

\* The end of main: nothing is queued, and the socket is closed in time.
LEMMA ExitSettled ==
    ASSUME IInv, Settled, Gentle, Exit
    PROVE  Settled'
<1>1. PICK c \in IrcClose(conn) :
        Becomes([c EXCEPT !.sound = @ /\ c.pool = <<>>,
                          !.pool = <<>>, !.open = @ \ Fds(c), !.told = {}])
  BY DEF Exit
<1>2. phase = "select" /\ phase' = "stopped" /\ \A fd \in Fds(conn) : Sendq(conn, fd) = <<>>
  BY DEF Exit, Gentle
<1>3. OK(conn) /\ Good(conn) /\ Intact(conn)
  BY <1>2 DEF IInv, OK, Settled
<1>4. conn.pool # <<>> => Queue(conn) = <<>>
  BY <1>2, <1>3, Sole
<1>5. c.sound /\ c.pool = <<>>
  BY <1>3, <1>4, IrcCloseSole
<1>6. c \in Conn
  BY IrcCloseOK DEF IInv, After, OK, Good
<1>7. conn'.sound
  <2> DEFINE sound == c.sound /\ c.pool = <<>>
             open == c.open \ Fds(c)
             x == [c EXCEPT !.sound = sound, !.pool = <<>>, !.open = open, !.told = {}]
  <2>1. conn' = x
    BY <1>1 DEF Becomes
  <2>2. sound
    BY <1>5
  <2> HIDE DEF sound, open
  <2> QED BY <1>6, <2>1, <2>2 DEF Conn
<1> QED BY <1>2, <1>7 DEF Settled

\* The server closes, or goes silent, which is no harm to the queues.
LEMMA ServerSettled ==
    ASSUME IInv, IInv', Settled, Gentle, NEW fd \in Fd, Mute(fd) \/ Shut(fd)
    PROVE  Settled'
<1>1. PICK s \in {"mute", "shut"} : server' = [server EXCEPT ![fd] = s]
  BY DEF Mute, Shut
<1>2. /\ UNCHANGED <<conn, phase, turn, ready>> /\ server[fd] = "up"
      /\ s = "mute" => conn.status # "QUITED"
  BY <1>1 DEF Mute, Shut, Gentle, IInv, LoopOK
<1>3. /\ server \in [Fd -> {"none", "up", "mute", "shut"}]
      /\ ready.ends \subseteq Fd
  BY DEF IInv, LoopOK
<1>4. \A f \in Fd : server[f] = "shut" => server'[f] = "shut"
  BY <1>1, <1>2, <1>3
<1>5. CASE phase = "stopped"
  BY <1>2, <1>5 DEF Settled
<1>6. CASE phase # "stopped"
  <2>1. /\ OK(conn) /\ Good(conn) /\ Intact(conn) /\ QuitLast(conn) /\ ReadyOK /\ Timely
        /\ conn.status = "QUITED" /\ conn.pool # <<>> => server[conn.socket] # "mute"
    BY <1>6 DEF Settled, IInv, OK
  <2>2. conn.pool # <<>> =>
          /\ conn.socket \in Fd /\ Len(Queue(conn)) \in Nat /\ conn.quiet \in 0..5
    BY <2>1, Sole DEF Good, Conn, Stoned
  <2>3. ReadyOK'
    BY <1>2, <1>3, <1>4, <2>1 DEF ReadyOK
  <2> DEFINE shut == server[conn.socket] = "shut"
             later == server'[conn.socket] = "shut"
  <2>4. conn.pool # <<>> => (shut => later)
    BY <1>4, <2>2
  <2>5. Timely'
    <3> SUFFICES ASSUME conn.pool # <<>>, conn.timer PROVE Timely'
      BY <1>2 DEF Timely
    <3>1. shut \in BOOLEAN /\ later \in BOOLEAN /\ (shut => later)
      BY <2>4
    <3>2. /\ phase = "select" => AtSelect(conn, shut)
          /\ phase \in {"visit", "reading"} /\ turn # 0 =>
               AtVisit(conn, shut, turn \in ready.write, turn \in ready.ends)
          /\ phase \in {"visit", "reading"} /\ turn = 0 => AtTimers(conn, shut)
      BY <2>1 DEF Timely
    <3> HIDE DEF shut, later
    <3>3. AtSelect(conn, shut) => AtSelect(conn, later)
      BY <3>1 DEF AtSelect
    <3>4. AtVisit(conn, shut, turn \in ready.write, turn \in ready.ends)
          => AtVisit(conn, later, turn \in ready.write, turn \in ready.ends)
      BY <3>1 DEF AtVisit
    <3>5. AtTimers(conn, shut) => AtTimers(conn, later)
      BY <3>1 DEF AtTimers
    <3> QED BY <1>2, <3>2, <3>3, <3>4, <3>5 DEF Timely, later
  <2>6. conn.status = "QUITED" /\ conn.pool # <<>> => server'[conn.socket] # "mute"
    BY <1>1, <1>2, <1>3, <2>1, <2>2
  <2> QED BY <1>2, <2>1, <2>3, <2>5, <2>6 DEF Settled, Intact
<1> QED BY <1>5, <1>6

\* At the start there is a new socket, or none.
LEMMA InitSettled ==
    Init => Settled
<1> SUFFICES ASSUME Init PROVE Settled
  OBVIOUS
<1>1. /\ conn \in Connect(Fresh) /\ phase = "select" /\ IInv
      /\ ready = [lines |-> {}, ends |-> {}, write |-> {}]
  BY InitInv DEF Init
<1>2. Good(Fresh) /\ Intact(Fresh) /\ Fresh.pool = <<>>
  <2>1. /\ Fresh \in Conn /\ Fresh.pool = <<>> /\ Fresh.status = "DISCONNECTED"
        /\ Fresh.open = {} /\ Fresh.told = {} /\ ~Fresh.timer /\ ~Fresh.ref
        /\ Fresh.sound /\ ~Fresh.freed
    <3>1. <<>> \in Seq(Sock) /\ 0 \in 0..1 /\ Stoned \in 0..Stoned
      BY EmptySeq DEF Stoned
    <3>2. 0 \in 0..MaxFailures /\ "DISCONNECTED" \in Status
      BY ConnectionAssumption DEF ConnectionAssumption, Status
    <3> QED BY <3>1, <3>2 DEF Fresh, Conn
  <2>2. Fds(Fresh) = {} /\ Distinct(Fresh.pool)
    BY <2>1 DEF Fds, Distinct
  <2> QED BY <2>1, <2>2 DEF Good, Intact, Active
<1>3. Anew(conn)
  BY <1>1, <1>2, ConnectAnew
<1>4. /\ Intact(conn) /\ conn.sound
      /\ conn.pool # <<>> => /\ conn.status = "CONNECTING" /\ conn.status \in Active
                             /\ Len(Queue(conn)) = 2
  BY <1>3 DEF Anew, Intact, Active
<1>5. QuitLast(conn)
  BY <1>4 DEF QuitLast
<1>6. ReadyOK
  BY <1>1 DEF ReadyOK
<1>7. Timely
  <2>1. ASSUME conn.pool # <<>>
        PROVE  AtSelect(conn, server[conn.socket] = "shut")
    <3>1. conn.status \in Active /\ Len(Queue(conn)) = 2
      BY <1>4, <2>1
    <3>2. Len(Queue(conn)) <= 2
      BY <3>1
    <3> QED BY <3>1, <3>2, Zenon DEF AtSelect
  <2>2. phase = "select" /\ phase \notin {"visit", "reading"}
    BY DEF Init
  <2> QED BY <2>1, <2>2 DEF Timely
<1> QED BY <1>4, <1>5, <1>6, <1>7 DEF Settled

\* Every step.
LEMMA NextSettled ==
    ASSUME Gentle, IInv, Settled, [Next]_vars
    PROVE  Settled'
<1>0. IInv'
  BY NextInv
<1>1. CASE Loop
  <2>1. ASSUME NEW period \in {0, 1}, Select(period) PROVE Settled'
    BY <1>0, <2>1, SelectSettled
  <2>2. ASSUME NEW reconnect \in BOOLEAN, Timers(reconnect) PROVE Settled'
    BY <1>0, <2>2, TimersSettled
  <2>3. CASE VisitSend \/ VisitWait \/ Read \/ \E line \in Lines : VisitLine(line)
    BY <1>0, <2>3, VisitSettled
  <2> QED BY <1>1, <2>1, <2>2, <2>3 DEF Loop
<1>2. CASE CommandQuit
  BY <1>0, <1>2, CommandQuitSettled
<1>3. CASE CommandConnect
  BY <1>0, <1>3, CommandConnectSettled
<1>4. CASE CommandChange
  BY <1>4 DEF CommandChange, Gentle
<1>5. CASE Exit
  BY <1>5, ExitSettled
<1>6. CASE SigPipe
  BY <1>6 DEF SigPipe, Settled
<1>7. CASE \E fd \in Fd : Mute(fd) \/ Shut(fd)
  BY <1>0, <1>7, ServerSettled
<1>8. CASE UNCHANGED vars
  <2>1. UNCHANGED <<conn, server, phase, turn, ready>>
    BY <1>8 DEF vars
  <2> QED BY <2>1 DEF Settled, ReadyOK, Timely
<1> QED BY <1>1, <1>2, <1>3, <1>4, <1>5, <1>6, <1>7, <1>8 DEF Next

\* No timer is removed twice and nothing is used after it was freed
\* (irclib_shutdown, irclib_timercheckalive, socketpool_pool), as long as a quit
\* is heard by the server and the operator lets a socket close before he
\* connects again, changes the server or stops the program: an answer to a
\* stoned server always finds something queued, which delays the close.
THEOREM ConnectionMemorySafe ==
    ASSUME Tolerated \subseteq {"partial line", "broken pipe"}
    PROVE  Spec => []MemorySafe
<1>0. Gentle
  BY DEF Gentle
<1> DEFINE Inv == IInv /\ Settled
<1>1. Init => Inv
  BY InitInv, InitSettled
<1>2. Inv /\ [Next]_vars => Inv'
  BY <1>0, NextInv, NextSettled
<1>3. Inv => MemorySafe
  BY DEF MemorySafe, IInv, LoopOK, Settled
<1> QED BY <1>1, <1>2, <1>3, PTL DEF Spec
=============================================================================
