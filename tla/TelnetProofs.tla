---------------------------- MODULE TelnetProofs -----------------------------
(***************************************************************************)
(* Proof that the telnet service and its driver agree on their clients     *)
(* and sockets, that no handler uses what its command has freed, and that  *)
(* nobody types commands without a login: for any clients, descriptors and *)
(* lines.  In the second half, that the bytes of a client are understood   *)
(* as what it has typed, in whatever bursts they come, and that its screen *)
(* shows the line: for any letters and sizes of the window.                *)
(***************************************************************************)
EXTENDS Telnet, TelnetTerminal, Integers, SequenceTheorems, FiniteSetTheorems, ListLemmas, TLAPS

-----------------------------------------------------------------------------
(* The types.                                                              *)

ClientRec == [fd : Fd, state : {"interactive", "prompt", "processing", "disconnected"},
              callback : {"login", "password"}, user : BOOLEAN, cd : Seq(STRING)]

SocketRec == [handler : Client \cup {None}, queued : BOOLEAN, closing : BOOLEAN,
              gone : BOOLEAN]

System == [clients : Seq(Client), drivers : Seq(Client), open : SUBSET Fd,
           client : [Client -> ClientRec \cup {None}], pool : [Fd -> SocketRec \cup {None}]]

\* Both lists hold the live clients, each is behind its own socket, and the
\* sockets of the pool are open; one that is to be closed has no handler any
\* more, unless its peer has gone.
Shape(s) ==
    /\ s \in System
    /\ s.drivers = s.clients /\ IsInjective(s.clients) /\ Range(s.clients) = Live(s)
    /\ \A c \in Live(s) : s.client[c].fd \in Pooled(s) /\ s.pool[s.client[c].fd].handler = c
    /\ \A fd \in Pooled(s) :
          s.pool[fd].handler # None =>
              s.pool[fd].handler \in Live(s) /\ s.client[s.pool[fd].handler].fd = fd
    /\ \A fd \in Pooled(s) :
          s.pool[fd].closing => s.pool[fd].handler = None \/ s.pool[fd].gone
    /\ Pooled(s) \subseteq s.open

\* A client may type commands only after its login.
Cleared(s, c) == guarded /\ s.client[c].state = "prompt" => s.client[c].user

\* Between two handlers a client waits for a line.
Calm(s) ==
    \A c \in Live(s) : s.client[c].state \in {"interactive", "prompt"} /\ Cleared(s, c)

\* A structure is not NULL.
LEMMA NotNone == None \notin ClientRec /\ None \notin SocketRec
BY TelnetAssumption DEF TelnetAssumption, ClientRec, SocketRec

\* What is live and what is in the pool are structures.
LEMMA Structures ==
    ASSUME NEW s, Shape(s)
    PROVE  /\ \A c \in Live(s) : s.client[c] \in ClientRec /\ c \in Client
           /\ \A fd \in Pooled(s) : s.pool[fd] \in SocketRec /\ fd \in Fd
BY NotNone DEF Shape, System, Live, Pooled

\* What leaves the clients behind their sockets leaves the shape.
LEMMA SamePlaces ==
    ASSUME NEW s, Shape(s), NEW t \in System,
           t.clients = s.clients, t.drivers = s.drivers, t.open = s.open,
           Live(t) = Live(s), \A c \in Live(s) : t.client[c].fd = s.client[c].fd,
           Pooled(t) = Pooled(s), \A fd \in Pooled(s) : t.pool[fd].handler = s.pool[fd].handler,
           \A fd \in Pooled(s) : /\ t.pool[fd].closing = s.pool[fd].closing
                                 /\ t.pool[fd].gone = s.pool[fd].gone
    PROVE  Shape(t)
BY DEF Shape

-----------------------------------------------------------------------------
(* The pool.                                                               *)

\* socketpool_send marks the socket, if it is there.
LEMMA PoolSent ==
    ASSUME NEW s, Shape(s), NEW fd \in Fd, NEW t, t = PoolSend(s, fd)
    PROVE  /\ Shape(t) /\ t.clients = s.clients /\ t.client = s.client /\ t.open = s.open
           /\ Pooled(t) = Pooled(s)
           /\ \A x \in Pooled(s) : s.pool[x].queued => t.pool[x].queued
           /\ \A x \in Pooled(s) : t.pool[x].closing = s.pool[x].closing
           /\ fd \in Pooled(s) => t.pool[fd].queued
<1>1. CASE fd \notin Pooled(s)
  BY <1>1 DEF PoolSend
<1>2. CASE fd \in Pooled(s)
  <2> DEFINE k == [s.pool[fd] EXCEPT !.queued = TRUE]
  <2>1. s \in System /\ s.pool[fd] \in SocketRec /\ s.pool \in [Fd -> SocketRec \cup {None}]
    BY <1>2, Structures DEF Shape, System
  <2>2. k \in SocketRec /\ k # None /\ k.handler = s.pool[fd].handler
        /\ k.closing = s.pool[fd].closing /\ k.gone = s.pool[fd].gone /\ k.queued
    BY <2>1, NotNone DEF SocketRec
  <2>3. t = [s EXCEPT !.pool = [s.pool EXCEPT ![fd] = k]]
    BY <1>2 DEF PoolSend
  <2> HIDE DEF k
  <2>4. t.pool = [s.pool EXCEPT ![fd] = k] /\ t.clients = s.clients /\ t.drivers = s.drivers
        /\ t.open = s.open /\ t.client = s.client
    BY <2>1, <2>3 DEF System
  <2>5. t \in System
    BY <2>1, <2>2, <2>3 DEF System
  <2>6. \A x \in Fd : t.pool[x] = IF x = fd THEN k ELSE s.pool[x]
    BY <2>1, <2>4
  <2>7. Pooled(t) = Pooled(s)
    BY <1>2, <2>2, <2>6 DEF Pooled
  <2>8. Live(t) = Live(s)
    BY <2>4 DEF Live
  <2>9. \A x \in Pooled(s) :
            /\ t.pool[x].handler = s.pool[x].handler /\ t.pool[x].closing = s.pool[x].closing
            /\ t.pool[x].gone = s.pool[x].gone
            /\ s.pool[x].queued => t.pool[x].queued
    BY <2>2, <2>6 DEF Pooled
  <2>10. Shape(t)
    <3>1. \A x \in Live(s) : t.client[x].fd = s.client[x].fd
      BY <2>4
    <3>2. \A x \in Pooled(s) : t.pool[x].handler = s.pool[x].handler
      BY <2>9
    <3>3. \A x \in Pooled(s) : /\ t.pool[x].closing = s.pool[x].closing
                               /\ t.pool[x].gone = s.pool[x].gone
      BY <2>9
    <3> QED BY <2>4, <2>5, <2>7, <2>8, <3>1, <3>2, <3>3, SamePlaces
  <2> QED BY <1>2, <2>2, <2>4, <2>6, <2>7, <2>9, <2>10
<1> QED BY <1>1, <1>2

\* The same, of the socket of a client.
LEMMA ClientSent ==
    ASSUME NEW s, Shape(s), NEW c \in Live(s), NEW t, t = Send(s, c)
    PROVE  /\ Shape(t) /\ t.clients = s.clients /\ t.client = s.client /\ t.open = s.open
           /\ Pooled(t) = Pooled(s) /\ Live(t) = Live(s)
           /\ \A x \in Pooled(s) : s.pool[x].queued => t.pool[x].queued
           /\ t.pool[t.client[c].fd].queued
<1>1. s.client[c].fd \in Fd /\ s.client[c].fd \in Pooled(s)
  BY DEF Shape, Pooled
<1>2. t = PoolSend(s, s.client[c].fd)
  BY DEF Send
<1>3. /\ Shape(t) /\ t.clients = s.clients /\ t.client = s.client /\ t.open = s.open
      /\ Pooled(t) = Pooled(s)
      /\ \A x \in Pooled(s) : s.pool[x].queued => t.pool[x].queued
      /\ t.pool[s.client[c].fd].queued
  BY <1>1, <1>2, PoolSent
<1> QED BY <1>3 DEF Live

-----------------------------------------------------------------------------
(* Clients that come and go.                                               *)

\* The removal of a client from a list that has it once.
LEMMA WithoutElement ==
    ASSUME NEW list \in Seq(Client), IsInjective(list), NEW c \in Range(list)
    PROVE  /\ Without(list, c) \in Seq(Client)
           /\ IsInjective(Without(list, c))
           /\ Range(Without(list, c)) = Range(list) \ {c}
<1>1. Len(list) \in Nat /\ DOMAIN list = 1..Len(list)
  BY LenProperties
<1> DEFINE I == {i \in 1..Len(list) : list[i] = c}
<1>2. I \in SUBSET Nat /\ I # {}
  BY <1>1 DEF Range
<1>3. \E i \in I : \A j \in I : i <= j
  <2> HIDE DEF I
  <2> QED BY <1>2, LeastPosition
<1>4. PICK k : k = Min(I)
  OBVIOUS
<1>5. k \in I
  BY <1>3, <1>4 DEF Min
<1>6. Without(list, c) = RemoveAt(list, k)
  BY <1>2, <1>4 DEF Without, RemoveFirst, SelectInSeq
<1>7. k \in DOMAIN list /\ list[k] = c
  BY <1>1, <1>5
<1> QED BY <1>6, <1>7, RemoveElement

\* A disconnect while no command of the client is processed: the client is gone,
\* and its socket, which had something to say, is to be closed.
LEMMA Disconnected ==
    ASSUME NEW s, Shape(s), NEW c \in Live(s), s.client[c].state # "processing",
           s.pool[s.client[c].fd].queued, NEW t, t = Disconnect(s, c)
    PROVE  /\ Shape(t) /\ Live(t) = Live(s) \ {c} /\ Pooled(t) = Pooled(s)
           /\ \A d \in Live(t) : t.client[d] = s.client[d]
           /\ t.pool[s.client[c].fd].closing
           /\ \A x \in Pooled(s) : s.pool[x].queued => t.pool[x].queued
<1> DEFINE fd == s.client[c].fd
<1>1. /\ s \in System /\ c \in Client /\ fd \in Fd /\ fd \in Pooled(s)
      /\ s.pool[fd] \in SocketRec /\ s.pool[fd].handler = c /\ c # None
  BY Structures, TelnetAssumption DEF Shape, Pooled, TelnetAssumption
<1>2. /\ s.clients \in Seq(Client) /\ s.open \in SUBSET Fd
      /\ s.client \in [Client -> ClientRec \cup {None}]
      /\ s.pool \in [Fd -> SocketRec \cup {None}]
  BY <1>1 DEF System
<1>3. PICK a : a = [s.pool[fd] EXCEPT !.closing = TRUE]
  OBVIOUS
<1>4. PICK k : k = [a EXCEPT !.handler = None]
  OBVIOUS
<1>5. a \in SocketRec /\ a # None /\ a.closing /\ a.queued
  <2>1. a \in SocketRec /\ a.closing /\ a.queued
    BY <1>1, <1>3 DEF SocketRec
  <2> QED BY <2>1, NotNone
<1>6. k \in SocketRec /\ k # None /\ k.handler = None /\ k.closing /\ k.queued
  <2>1. k \in SocketRec /\ k.handler = None /\ k.closing /\ k.queued
    BY <1>4, <1>5 DEF SocketRec
  <2> QED BY <2>1, NotNone
<1>7. t = [clients |-> Without(s.clients, c), drivers |-> Without(s.clients, c),
           open |-> s.open, client |-> [s.client EXCEPT ![c] = None],
           pool |-> [s.pool EXCEPT ![fd] = k]]
  <2>1. PICK r : r = PoolClose(s, fd)
    OBVIOUS
  <2>2. r = [s EXCEPT !.pool[fd].closing = TRUE]
    BY <1>1, <2>1 DEF PoolClose
  <2>3. r = [s EXCEPT !.pool = [s.pool EXCEPT ![fd] = [s.pool[fd] EXCEPT !.closing = TRUE]]]
    BY <2>2
  <2>4. /\ r = [s EXCEPT !.pool = [s.pool EXCEPT ![fd] = a]]
        /\ r.pool = [s.pool EXCEPT ![fd] = a] /\ r.clients = s.clients
        /\ r.drivers = s.drivers /\ r.open = s.open /\ r.client = s.client
    BY <1>1, <1>3, <2>3 DEF System
  <2>5. fd \in Pooled(r) /\ r.pool[fd] = a
    BY <1>1, <1>2, <1>5, <2>4 DEF Pooled
  <2>6. PICK b : b = PoolAdd(r, fd, None)
    OBVIOUS
  <2>7. b = [r EXCEPT !.pool = [r.pool EXCEPT ![fd] = [r.pool[fd] EXCEPT !.handler = None]]]
    BY <2>5, <2>6 DEF PoolAdd
  <2>8. [r.pool[fd] EXCEPT !.handler = None] = k
    BY <1>4, <2>5
  <2>9. [r.pool EXCEPT ![fd] = k] = [s.pool EXCEPT ![fd] = k]
    BY <1>1, <1>2, <2>4
  <2>10. b = [s EXCEPT !.pool = [s.pool EXCEPT ![fd] = k]]
    <3>1. b = [r EXCEPT !.pool = [s.pool EXCEPT ![fd] = k]]
      BY <2>7, <2>8, <2>9
    <3> QED BY <2>4, <3>1
  <2>11. b = [clients |-> s.clients, drivers |-> s.drivers, open |-> s.open,
              client |-> s.client, pool |-> [s.pool EXCEPT ![fd] = k]]
    BY <1>1, <2>10 DEF System
  <2>12. DriverDisconnect(s, c) = [b EXCEPT !.drivers = Without(@, c)]
    BY <2>1, <2>6 DEF DriverDisconnect
  <2>13. PICK e : e = DriverDisconnect(s, c)
    OBVIOUS
  <2>14. e = [clients |-> s.clients, drivers |-> Without(s.drivers, c), open |-> s.open,
              client |-> s.client, pool |-> [s.pool EXCEPT ![fd] = k]]
    BY <2>11, <2>12, <2>13
  <2>15. t = [e EXCEPT !.clients = Without(@, c), !.client[c] = None]
    BY <2>13 DEF Disconnect
  <2>16. s.drivers = s.clients
    BY DEF Shape
  <2>17. PICK f : f = [e EXCEPT !.clients = Without(@, c)]
    OBVIOUS
  <2>18. f = [clients |-> Without(s.clients, c), drivers |-> Without(s.clients, c),
              open |-> s.open, client |-> s.client, pool |-> [s.pool EXCEPT ![fd] = k]]
    BY ONLY <2>14, <2>16, <2>17
  <2>19. t = [f EXCEPT !.client[c] = None]
    BY ONLY <2>15, <2>17
  <2> QED BY ONLY <2>18, <2>19
<1>8. /\ t.clients = Without(s.clients, c) /\ t.drivers = Without(s.clients, c)
      /\ t.open = s.open /\ t.client = [s.client EXCEPT ![c] = None]
      /\ t.pool = [s.pool EXCEPT ![fd] = k]
  BY <1>7
<1>9. /\ \A d \in Client : t.client[d] = IF d = c THEN None ELSE s.client[d]
      /\ \A x \in Fd : t.pool[x] = IF x = fd THEN k ELSE s.pool[x]
  BY <1>2, <1>8
<1>10. /\ Without(s.clients, c) \in Seq(Client) /\ IsInjective(Without(s.clients, c))
      /\ Range(Without(s.clients, c)) = Live(s) \ {c}
  BY <1>2, WithoutElement DEF Shape
<1>11. t \in System
  BY <1>1, <1>2, <1>6, <1>7, <1>10 DEF System
<1>12. Live(t) = Live(s) \ {c}
  BY <1>9 DEF Live
<1>13. Pooled(t) = Pooled(s)
  BY <1>1, <1>6, <1>9 DEF Pooled
<1>14. \A d \in Live(t) : t.client[d] = s.client[d]
  BY <1>9, <1>12 DEF Live
<1>15. \A d \in Live(t) : t.client[d].fd \in Pooled(t) /\ t.pool[t.client[d].fd].handler = d
  <2> SUFFICES ASSUME NEW d \in Live(t)
               PROVE  s.client[d].fd \in Pooled(s) /\ t.pool[s.client[d].fd].handler = d
    BY <1>13, <1>14
  <2>1. s.client[d].fd \in Pooled(s) /\ s.pool[s.client[d].fd].handler = d /\ d # c
    BY <1>12 DEF Shape
  <2>2. s.client[d].fd # fd
    BY <1>1, <2>1
  <2> QED BY <1>9, <2>1, <2>2 DEF Pooled
<1>16. ASSUME NEW x \in Pooled(t), t.pool[x].handler # None
       PROVE  t.pool[x].handler \in Live(t) /\ t.client[t.pool[x].handler].fd = x
  <2>1. x # fd
    BY <1>9, <1>16, <1>6 DEF Pooled
  <2>2. t.pool[x] = s.pool[x] /\ x \in Pooled(s)
    BY <1>9, <1>13, <2>1 DEF Pooled
  <2>3. s.pool[x].handler \in Live(s) /\ s.client[s.pool[x].handler].fd = x
    BY <1>16, <2>2 DEF Shape
  <2>4. s.pool[x].handler # c
    BY <2>1, <2>3
  <2> QED BY <1>12, <1>14, <2>2, <2>3, <2>4
<1>17. \A x \in Pooled(t) : t.pool[x].closing => t.pool[x].handler = None \/ t.pool[x].gone
  BY <1>6, <1>9, <1>13 DEF Shape, Pooled
<1>20. Shape(t)
  BY <1>8, <1>10, <1>11, <1>12, <1>13, <1>15, <1>16, <1>17 DEF Shape
<1>18. t.pool[fd].closing /\ t.pool[fd].queued
  BY <1>1, <1>9, <1>6
<1>19. \A x \in Pooled(s) : s.pool[x].queued => t.pool[x].queued
  BY <1>9, <1>18 DEF Pooled
<1> QED BY <1>12, <1>13, <1>14, <1>20, <1>18, <1>19

-----------------------------------------------------------------------------
(* Clients that stay.                                                      *)

\* A handler of client c leaves all clients where they are, the others as they
\* are, and what is queued queued.
Stays(s, t, c) ==
    /\ Shape(t) /\ Live(t) = Live(s) /\ Pooled(t) = Pooled(s)
    /\ \A d \in Live(s) \ {c} : t.client[d] = s.client[d]
    /\ t.client[c].fd = s.client[c].fd
    /\ \A x \in Pooled(s) : s.pool[x].queued => t.pool[x].queued

\* One such step after another.
LEMMA StaysOn ==
    ASSUME NEW s, NEW r, NEW t, NEW c, Stays(s, r, c), Stays(r, t, c)
    PROVE  Stays(s, t, c)
<1>1. /\ Shape(t) /\ Live(t) = Live(s) /\ Pooled(t) = Pooled(s)
      /\ t.client[c].fd = s.client[c].fd
  BY DEF Stays
<1>2. \A d \in Live(s) \ {c} : t.client[d] = s.client[d]
  BY DEF Stays
<1>3. \A x \in Pooled(s) : s.pool[x].queued => t.pool[x].queued
  BY DEF Stays
<1> QED BY <1>1, <1>2, <1>3 DEF Stays

\* telnet_socket_send.
LEMMA SentStays ==
    ASSUME NEW s, Shape(s), NEW c \in Live(s), NEW t, t = Send(s, c)
    PROVE  Stays(s, t, c) /\ t.client = s.client /\ t.pool[t.client[c].fd].queued
<1>1. /\ Shape(t) /\ t.client = s.client /\ Pooled(t) = Pooled(s) /\ Live(t) = Live(s)
      /\ \A x \in Pooled(s) : s.pool[x].queued => t.pool[x].queued
      /\ t.pool[t.client[c].fd].queued
  BY ClientSent
<1> QED BY <1>1 DEF Stays

\* A client that becomes another structure, with the same socket.
LEMMA ChangeStays ==
    ASSUME NEW s, Shape(s), NEW c \in Live(s), NEW r \in ClientRec, r.fd = s.client[c].fd,
           NEW t, t = [s EXCEPT !.client = [s.client EXCEPT ![c] = r]]
    PROVE  Stays(s, t, c) /\ t.pool = s.pool
<1>1. s \in System /\ c \in Client /\ s.client \in [Client -> ClientRec \cup {None}]
  BY Structures DEF Shape, System
<1>2. t.client = [s.client EXCEPT ![c] = r] /\ t.clients = s.clients /\ t.drivers = s.drivers
      /\ t.open = s.open /\ t.pool = s.pool
  BY <1>1 DEF System
<1>3. t \in System
  BY <1>1 DEF System
<1>4. \A d \in Client : t.client[d] = IF d = c THEN r ELSE s.client[d]
  BY <1>1, <1>2
<1>5. Live(t) = Live(s)
  BY <1>4, NotNone DEF Live
<1>6. Pooled(t) = Pooled(s)
  BY <1>2 DEF Pooled
<1>7. \A d \in Live(s) : t.client[d].fd = s.client[d].fd
  BY <1>4 DEF Live
<1>12. \A x \in Pooled(s) : /\ t.pool[x].closing = s.pool[x].closing
                             /\ t.pool[x].gone = s.pool[x].gone
  BY <1>2
<1>8. Shape(t)
  BY <1>2, <1>3, <1>5, <1>6, <1>7, <1>12, SamePlaces
<1>9. t.client[c] = r /\ \A d \in Live(s) \ {c} : t.client[d] = s.client[d]
  BY <1>1, <1>4 DEF Live
<1>10. \A x \in Pooled(s) : s.pool[x].queued => t.pool[x].queued
  BY <1>2
<1>11. t.client[c].fd = s.client[c].fd
  BY <1>9
<1> QED BY <1>2, <1>5, <1>6, <1>8, <1>9, <1>10, <1>11 DEF Stays

\* The state of a client changes.
LEMMA StateStays ==
    ASSUME NEW s, Shape(s), NEW c \in Live(s),
           NEW x \in {"interactive", "prompt", "processing", "disconnected"},
           NEW t, t = [s EXCEPT !.client[c].state = x]
    PROVE  /\ Stays(s, t, c) /\ t.client[c].state = x /\ t.client[c].user = s.client[c].user
           /\ t.pool = s.pool
<1>1. PICK r : r = [s.client[c] EXCEPT !.state = x]
  OBVIOUS
<1>2. s.client[c] \in ClientRec
  BY Structures
<1>3. r \in ClientRec /\ r.fd = s.client[c].fd /\ r.state = x /\ r.user = s.client[c].user
  BY <1>1, <1>2 DEF ClientRec
<1>4. t = [s EXCEPT !.client = [s.client EXCEPT ![c] = r]]
  BY <1>1
<1>5. r \in ClientRec /\ r.fd = s.client[c].fd
  BY <1>3
<1>6. Stays(s, t, c)
  BY <1>4, <1>5, ChangeStays
<1>7. s \in System /\ c \in Client /\ s.client \in [Client -> ClientRec \cup {None}]
  BY Structures DEF Shape, System
<1>8. t.pool = s.pool
  BY <1>4, <1>5, ChangeStays
<1>9. t.client[c] = r
  BY <1>4, <1>7 DEF System
<1> QED BY <1>3, <1>6, <1>8, <1>9

\* A user has been recognised.
LEMMA UserStays ==
    ASSUME NEW s, Shape(s), NEW c \in Live(s), NEW t, t = [s EXCEPT !.client[c].user = TRUE]
    PROVE  Stays(s, t, c) /\ t.client[c].user /\ t.client[c].state = s.client[c].state
<1>1. PICK r : r = [s.client[c] EXCEPT !.user = TRUE]
  OBVIOUS
<1>2. s.client[c] \in ClientRec
  BY Structures
<1>3. r \in ClientRec /\ r.fd = s.client[c].fd /\ r.user /\ r.state = s.client[c].state
  BY <1>1, <1>2 DEF ClientRec
<1>4. t = [s EXCEPT !.client = [s.client EXCEPT ![c] = r]]
  BY <1>1
<1>5. r \in ClientRec /\ r.fd = s.client[c].fd
  BY <1>3
<1>6. Stays(s, t, c)
  BY <1>4, <1>5, ChangeStays
<1>7. s \in System /\ c \in Client /\ s.client \in [Client -> ClientRec \cup {None}]
  BY Structures DEF Shape, System
<1>8. t.pool = s.pool
  BY <1>4, <1>5, ChangeStays
<1>9. t.client[c] = r
  BY <1>4, <1>7 DEF System
<1> QED BY <1>3, <1>6, <1>8, <1>9

\* The dialogue goes on to the password.
LEMMA CallbackStays ==
    ASSUME NEW s, Shape(s), NEW c \in Live(s),
           NEW t, t = [s EXCEPT !.client[c].callback = "password"]
    PROVE  /\ Stays(s, t, c)
           /\ t.client[c].state = s.client[c].state /\ t.client[c].user = s.client[c].user
<1>1. PICK r : r = [s.client[c] EXCEPT !.callback = "password"]
  OBVIOUS
<1>2. s.client[c] \in ClientRec
  BY Structures
<1>3. /\ r \in ClientRec /\ r.fd = s.client[c].fd
      /\ r.state = s.client[c].state /\ r.user = s.client[c].user
  BY <1>1, <1>2 DEF ClientRec
<1>4. t = [s EXCEPT !.client = [s.client EXCEPT ![c] = r]]
  BY <1>1
<1>5. r \in ClientRec /\ r.fd = s.client[c].fd
  BY <1>3
<1>6. Stays(s, t, c)
  BY <1>4, <1>5, ChangeStays
<1>7. s \in System /\ c \in Client /\ s.client \in [Client -> ClientRec \cup {None}]
  BY Structures DEF Shape, System
<1>8. t.pool = s.pool
  BY <1>4, <1>5, ChangeStays
<1>9. t.client[c] = r
  BY <1>4, <1>7 DEF System
<1> QED BY <1>3, <1>6, <1>8, <1>9

\* The context changes.
LEMMA ContextStays ==
    ASSUME NEW s, Shape(s), NEW c \in Live(s), NEW cd \in Seq(STRING),
           NEW t, t = [s EXCEPT !.client[c].cd = cd]
    PROVE  /\ Stays(s, t, c) /\ t.pool = s.pool
           /\ t.client[c].state = s.client[c].state /\ t.client[c].user = s.client[c].user
<1>1. PICK r : r = [s.client[c] EXCEPT !.cd = cd]
  OBVIOUS
<1>2. s.client[c] \in ClientRec
  BY Structures
<1>3. /\ r \in ClientRec /\ r.fd = s.client[c].fd
      /\ r.state = s.client[c].state /\ r.user = s.client[c].user
  BY <1>1, <1>2 DEF ClientRec
<1>4. t = [s EXCEPT !.client = [s.client EXCEPT ![c] = r]]
  BY <1>1
<1>5. r \in ClientRec /\ r.fd = s.client[c].fd
  BY <1>3
<1>6. Stays(s, t, c)
  BY <1>4, <1>5, ChangeStays
<1>7. s \in System /\ c \in Client /\ s.client \in [Client -> ClientRec \cup {None}]
  BY Structures DEF Shape, System
<1>8. t.pool = s.pool
  BY <1>4, <1>5, ChangeStays
<1>9. t.client[c] = r
  BY <1>4, <1>7 DEF System
<1> QED BY <1>3, <1>6, <1>8, <1>9

\* telnet_prompt: from then on the client may type commands.
LEMMA Prompted ==
    ASSUME NEW s, Shape(s), NEW c \in Live(s), NEW t, t = Prompt(s, c)
    PROVE  /\ Stays(s, t, c) /\ t.client[c].state = "prompt"
           /\ t.client[c].user = s.client[c].user
<1>1. PICK r : r = Send(s, c)
  OBVIOUS
<1>2. Stays(s, r, c) /\ r.client = s.client
  BY <1>1, SentStays
<1>3. Shape(r) /\ c \in Live(r)
  BY <1>2 DEF Stays
<1>4. t = [r EXCEPT !.client[c].state = "prompt"]
  BY <1>1 DEF Prompt
<1>5. /\ Stays(r, t, c) /\ t.client[c].state = "prompt"
      /\ t.client[c].user = r.client[c].user
  BY <1>3, <1>4, StateStays
<1> QED BY <1>2, <1>5, StaysOn

\* telnet_motd.
LEMMA MotdShown ==
    ASSUME NEW s, Shape(s), NEW c \in Live(s), NEW t, t = Motd(s, c)
    PROVE  /\ Stays(s, t, c) /\ t.client[c].state = "prompt"
           /\ t.client[c].user = s.client[c].user
<1>1. PICK r : r = [s EXCEPT !.client[c].state = "processing"]
  OBVIOUS
<1>2. Stays(s, r, c) /\ r.client[c].user = s.client[c].user
  BY <1>1, StateStays
<1>3. Shape(r) /\ c \in Live(r)
  BY <1>2 DEF Stays
<1>4. t = Prompt(r, c)
  BY <1>1 DEF Motd
<1>5. /\ Stays(r, t, c) /\ t.client[c].state = "prompt"
      /\ t.client[c].user = r.client[c].user
  BY <1>3, <1>4, Prompted
<1> QED BY <1>2, <1>5, StaysOn

\* The clients are calm again if the one whose line was handled is.
LEMMA CalmAgain ==
    ASSUME NEW s, Calm(s), NEW c \in Live(s), NEW t, Stays(s, t, c),
           t.client[c].state \in {"interactive", "prompt"}, Cleared(t, c)
    PROVE  Calm(t)
<1>1. ASSUME NEW d \in Live(t)
      PROVE  t.client[d].state \in {"interactive", "prompt"} /\ Cleared(t, d)
  <2>1. CASE d = c
    BY <2>1
  <2>2. CASE d # c
    <3>1. d \in Live(s) /\ t.client[d] = s.client[d]
      BY <1>1, <2>2 DEF Stays
    <3>2. s.client[d].state \in {"interactive", "prompt"} /\ Cleared(s, d)
      BY <3>1 DEF Calm
    <3> QED BY <3>1, <3>2 DEF Cleared
  <2> QED BY <2>1, <2>2
<1> QED BY <1>1 DEF Calm

-----------------------------------------------------------------------------
(* Commands and the login.                                                 *)

\* The context is put before the line.
LEMMA FullType ==
    ASSUME NEW s, Shape(s), NEW c \in Live(s), NEW line \in Line
    PROVE  Full(s, c, line) \in Seq(STRING)
<1>1. s.client[c] \in ClientRec
  BY Structures
<1>2. s.client[c].cd \in Seq(STRING)
  BY <1>1 DEF ClientRec
<1>3. line \in Seq(STRING)
  BY TelnetAssumption DEF TelnetAssumption
<1> QED BY <1>2, <1>3, ConcatProperties DEF Full

\* A command that is under way defers the disconnect of its client.
LEMMA Handled ==
    ASSUME NEW s, Shape(s), NEW c \in Live(s), s.client[c].state = "processing",
           NEW line \in Line, NEW t, t = Handle(s, c, line)
    PROVE  /\ Stays(s, t, c) /\ t.client[c].state \in {"processing", "disconnected"}
           /\ t.client[c].user = s.client[c].user
<1>1. CASE IsQuit(s, c, line)
  <2>1. PICK r : r = Send(s, c)
    OBVIOUS
  <2>2. Stays(s, r, c) /\ r.client = s.client
    BY <2>1, SentStays
  <2>3. Shape(r) /\ c \in Live(r) /\ r.client[c].state = "processing"
    BY <2>2 DEF Stays
  <2>4. t = [r EXCEPT !.client[c].state = "disconnected"]
    BY <1>1, <2>1, <2>3 DEF Handle, TelnetQuit, Disconnect
  <2>5. /\ Stays(r, t, c) /\ t.client[c].state = "disconnected"
        /\ t.client[c].user = r.client[c].user
    BY <2>3, <2>4, StateStays
  <2> QED BY <2>2, <2>5, StaysOn
<1>2. CASE t = s
  <2>1. Stays(s, t, c)
    BY <1>2 DEF Stays
  <2> QED BY <1>2, <2>1
<1>3. CASE t = Send(s, c)
  BY <1>3, SentStays
<1>4. CASE t = [s EXCEPT !.client[c].cd = Full(s, c, line)]
  <2>1. Full(s, c, line) \in Seq(STRING)
    BY FullType
  <2>2. PICK cd \in Seq(STRING) : cd = Full(s, c, line)
    BY <2>1
  <2>3. t = [s EXCEPT !.client[c].cd = cd]
    BY <1>4, <2>2
  <2> QED BY <2>3, ContextStays
<1> QED BY <1>1, <1>2, <1>3, <1>4 DEF Handle

\* A word goes out of the context.
LEMMA FrontType ==
    ASSUME NEW cd \in Seq(STRING)
    PROVE  (IF cd = <<>> THEN cd ELSE Front(cd)) \in Seq(STRING)
<1>1. CASE cd = <<>>
  BY <1>1
<1>2. CASE cd # <<>>
  <2>1. Front(cd) \in Seq(STRING)
    BY <1>2, EmptySeq, LenProperties, SubSeqProperties DEF Front
  <2> QED BY <1>2, <2>1
<1> QED BY <1>1, <1>2

\* A command is handled: its client goes on, or is gone with its socket to be
\* closed; it survived its command until then.
LEMMA CommandProcessed ==
    ASSUME NEW s, Shape(s), Calm(s), NEW c \in Live(s), s.client[c].state = "prompt",
           s.pool[s.client[c].fd].queued, NEW line \in Line,
           NEW t, t = ProcessCommand(s, c, line)
    PROVE  /\ Shape(t) /\ Calm(t) /\ Pooled(t) = Pooled(s)
           /\ c \in Live(t) \/ t.pool[s.client[c].fd].closing
<1>1. PICK p : p = [s EXCEPT !.client[c].state = "processing"]
  OBVIOUS
<1>2. /\ Stays(s, p, c) /\ p.client[c].state = "processing"
      /\ p.client[c].user = s.client[c].user
  BY <1>1, StateStays
<1>3. Shape(p) /\ c \in Live(p)
  BY <1>2 DEF Stays
<1>4. PICK r : r = IF line # <<"..">> THEN Handle(p, c, line)
                   ELSE [p EXCEPT !.client[c].cd = IF @ = <<>> THEN @ ELSE Front(@)]
  OBVIOUS
<1>5. /\ Stays(p, r, c) /\ r.client[c].state \in {"processing", "disconnected"}
      /\ r.client[c].user = p.client[c].user
  <2>1. CASE line # <<"..">>
    <3>1. r = Handle(p, c, line)
      BY <1>4, <2>1
    <3> QED BY <1>2, <1>3, <3>1, Handled
  <2>2. CASE line = <<"..">>
    <3>1. p.client[c] \in ClientRec
      BY <1>3, Structures
    <3>2. p.client[c].cd \in Seq(STRING)
      BY <3>1 DEF ClientRec
    <3>3. PICK cd \in Seq(STRING) :
              cd = IF p.client[c].cd = <<>> THEN p.client[c].cd ELSE Front(p.client[c].cd)
      BY <3>2, FrontType
    <3>4. r = [p EXCEPT !.client[c].cd = cd]
      BY <1>4, <2>2, <3>3
    <3>5. /\ Stays(p, r, c) /\ r.client[c].state = p.client[c].state
          /\ r.client[c].user = p.client[c].user
      BY <1>3, <3>4, ContextStays
    <3> QED BY <1>2, <3>5
  <2> QED BY <2>1, <2>2
<1>6. Stays(s, r, c)
  BY <1>2, <1>5, StaysOn
<1>7. Shape(r) /\ c \in Live(r) /\ Live(r) = Live(s) /\ Pooled(r) = Pooled(s)
      /\ r.client[c].fd = s.client[c].fd
  BY <1>6 DEF Stays
<1>8. r.client[c].user = s.client[c].user
  BY <1>2, <1>5
<1>9. CASE r.client[c].state = "disconnected"
  <2>1. t = Disconnect(r, c)
    BY <1>1, <1>4, <1>7, <1>9 DEF ProcessCommand
  <2>2. r.pool[r.client[c].fd].queued
    <3>1. s.client[c].fd \in Pooled(s)
      BY DEF Shape
    <3> QED BY <1>6, <1>7, <3>1 DEF Stays
  <2>3. /\ Shape(t) /\ Live(t) = Live(r) \ {c} /\ Pooled(t) = Pooled(r)
        /\ \A d \in Live(t) : t.client[d] = r.client[d]
        /\ t.pool[r.client[c].fd].closing
    BY <1>7, <1>9, <2>1, <2>2, Disconnected
  <2>4. \A d \in Live(t) : d \in Live(s) /\ t.client[d] = s.client[d]
    BY <1>6, <1>7, <2>3 DEF Stays
  <2>5. Calm(t)
    BY <2>4 DEF Calm, Cleared
  <2> QED BY <1>7, <2>3, <2>5
<1>10. CASE r.client[c].state = "processing"
  <2>1. t = Prompt(r, c)
    BY <1>1, <1>4, <1>7, <1>10 DEF ProcessCommand
  <2>2. Stays(r, t, c) /\ t.client[c].state = "prompt" /\ t.client[c].user = r.client[c].user
    BY <1>7, <2>1, Prompted
  <2>3. Stays(s, t, c)
    BY <1>6, <2>2, StaysOn
  <2>4. Cleared(s, c)
    BY DEF Calm
  <2>5. Cleared(t, c)
    BY <1>8, <2>2, <2>4 DEF Cleared
  <2>6. Calm(t)
    BY <2>2, <2>3, <2>5, CalmAgain
  <2> QED BY <2>3, <2>6 DEF Stays
<1> QED BY <1>5, <1>9, <1>10

\* A line is received: its socket is there and the client has gone only if the
\* socket is to be closed.
LEMMA LineReceived ==
    ASSUME NEW s, Shape(s), Calm(s), NEW c \in Live(s), NEW line \in Line,
           NEW known \in BOOLEAN, NEW t, t = Received(s, c, line, known)
    PROVE  /\ Shape(t) /\ Calm(t) /\ s.client[c].fd \in Pooled(t)
           /\ c \in Live(t) \/ t.pool[s.client[c].fd].closing
<1>1. /\ s.client[c] \in ClientRec /\ s.client[c].fd \in Pooled(s)
      /\ s.client[c].state \in {"interactive", "prompt"} /\ Cleared(s, c)
  BY Structures DEF Shape, Calm
<1>2. s.client[c].callback \in {"login", "password"}
  BY <1>1 DEF ClientRec
<1>3. CASE s.client[c].state = "interactive" /\ s.client[c].callback = "login"
  <2>1. t = LoginReceived(s, c)
    BY <1>3 DEF Received
  <2>2. PICK r : r = [s EXCEPT !.client[c].callback = "password"]
    OBVIOUS
  <2>3. Stays(s, r, c) /\ r.client[c].state = "interactive"
    BY <1>3, <2>2, CallbackStays
  <2>4. Shape(r) /\ c \in Live(r)
    BY <2>3 DEF Stays
  <2>5. t = Send(r, c)
    BY <2>1, <2>2 DEF LoginReceived
  <2>6. Stays(r, t, c) /\ t.client = r.client
    BY <2>4, <2>5, SentStays
  <2>7. Stays(s, t, c)
    BY <2>3, <2>6, StaysOn
  <2>8. t.client[c].state = "interactive" /\ Cleared(t, c)
    BY <2>3, <2>6 DEF Cleared
  <2>9. Calm(t)
    BY <2>7, <2>8, CalmAgain
  <2> QED BY <1>1, <2>7, <2>9 DEF Stays
<1>4. CASE s.client[c].state = "interactive" /\ s.client[c].callback = "password" /\ known
  <2>1. PICK r : r = Send(s, c)
    OBVIOUS
  <2>2. PICK u : u = [r EXCEPT !.client[c].user = TRUE]
    OBVIOUS
  <2>3. t = Motd(u, c)
    BY <1>4, <2>1, <2>2 DEF Received, PasswordReceived
  <2>4. Stays(s, r, c)
    BY <2>1, SentStays
  <2>5. Shape(r) /\ c \in Live(r)
    BY <2>4 DEF Stays
  <2>6. Stays(r, u, c) /\ u.client[c].user
    BY <2>2, <2>5, UserStays
  <2>7. Shape(u) /\ c \in Live(u)
    BY <2>5, <2>6 DEF Stays
  <2>8. Stays(u, t, c) /\ t.client[c].state = "prompt" /\ t.client[c].user = u.client[c].user
    BY <2>3, <2>7, MotdShown
  <2>9. Stays(s, t, c)
    BY <2>4, <2>6, <2>8, StaysOn
  <2>10. Cleared(t, c)
    BY <2>6, <2>8 DEF Cleared
  <2>11. Calm(t)
    BY <2>8, <2>9, <2>10, CalmAgain
  <2> QED BY <1>1, <2>9, <2>11 DEF Stays
<1>5. CASE s.client[c].state = "interactive" /\ s.client[c].callback = "password" /\ ~known
  <2>1. PICK r : r = Send(s, c)
    OBVIOUS
  <2>2. PICK u : u = Send(r, c)
    OBVIOUS
  <2>3. t = Disconnect(u, c)
    BY <1>5, <2>1, <2>2 DEF Received, PasswordReceived
  <2>4. Stays(s, r, c) /\ r.client = s.client
    BY <2>1, SentStays
  <2>5. Shape(r) /\ c \in Live(r)
    BY <2>4 DEF Stays
  <2>6. Stays(r, u, c) /\ u.client = r.client /\ u.pool[u.client[c].fd].queued
    BY <2>2, <2>5, SentStays
  <2>7. Shape(u) /\ Live(u) = Live(s) /\ Pooled(u) = Pooled(s) /\ u.client = s.client
    BY <2>4, <2>5, <2>6 DEF Stays
  <2>8. /\ Shape(t) /\ Live(t) = Live(u) \ {c} /\ Pooled(t) = Pooled(u)
        /\ \A d \in Live(t) : t.client[d] = u.client[d]
        /\ t.pool[u.client[c].fd].closing
    BY <1>5, <2>3, <2>6, <2>7, Disconnected
  <2>9. Calm(t)
    BY <2>7, <2>8 DEF Calm, Cleared
  <2> QED BY <1>1, <2>7, <2>8, <2>9
<1>6. CASE s.client[c].state = "prompt"
  <2>1. PICK r : r = Send(s, c)
    OBVIOUS
  <2>2. t = ProcessCommand(r, c, line)
    BY <1>6, <2>1 DEF Received
  <2>3. Stays(s, r, c) /\ r.client = s.client /\ r.pool[r.client[c].fd].queued
    BY <2>1, SentStays
  <2>4. Shape(r) /\ Live(r) = Live(s) /\ Pooled(r) = Pooled(s)
    BY <2>3 DEF Stays
  <2>5. Calm(r)
    BY <2>3, <2>4 DEF Calm, Cleared
  <2>6. /\ Shape(t) /\ Calm(t) /\ Pooled(t) = Pooled(r)
        /\ c \in Live(t) \/ t.pool[r.client[c].fd].closing
    BY <1>6, <2>2, <2>3, <2>4, <2>5, CommandProcessed
  <2> QED BY <1>1, <2>3, <2>4, <2>6
<1> QED BY <1>1, <1>2, <1>3, <1>4, <1>5, <1>6

\* The client is there when its command has been handled.
LEMMA CommandSurvived ==
    ASSUME NEW s, Shape(s), NEW c \in Live(s), NEW line \in Line
    PROVE  Survives(s, c, line)
<1>1. PICK p : p = [s EXCEPT !.client[c].state = "processing"]
  OBVIOUS
<1>2. Stays(s, p, c) /\ p.client[c].state = "processing"
  BY <1>1, StateStays
<1>3. Shape(p) /\ c \in Live(p)
  BY <1>2 DEF Stays
<1>4. PICK t : t = Handle(p, c, line)
  OBVIOUS
<1>5. Stays(p, t, c)
  BY <1>2, <1>3, <1>4, Handled
<1>6. c \in Live(t)
  BY <1>3, <1>5 DEF Stays
<1> QED BY <1>1, <1>4, <1>6 DEF Survives

-----------------------------------------------------------------------------
(* A client is accepted.                                                   *)

\* What is sent to a socket of the pool is queued there.
LEMMA Queued ==
    ASSUME NEW x, NEW pool \in [Fd -> SocketRec \cup {None}], NEW fd \in Fd,
           NEW k \in SocketRec, x.pool = [pool EXCEPT ![fd] = k],
           NEW q, q = [k EXCEPT !.queued = TRUE], NEW t, t = PoolSend(x, fd)
    PROVE  t = [x EXCEPT !.pool = [pool EXCEPT ![fd] = q]]
<1>1. x.pool[fd] = k /\ k # None
  BY NotNone
<1>2. fd \in Pooled(x)
  BY <1>1 DEF Pooled
<1>3. t = [x EXCEPT !.pool = [x.pool EXCEPT ![fd] = [k EXCEPT !.queued = TRUE]]]
  BY <1>1, <1>2 DEF PoolSend
<1>4. [x.pool EXCEPT ![fd] = q] = [pool EXCEPT ![fd] = q]
  OBVIOUS
<1> QED BY <1>3, <1>4

\* A socket of the pool gets a handler.
LEMMA Handler ==
    ASSUME NEW x, NEW pool \in [Fd -> SocketRec \cup {None}], NEW fd \in Fd,
           NEW k \in SocketRec, x.pool = [pool EXCEPT ![fd] = k], NEW h,
           NEW q, q = [k EXCEPT !.handler = h], NEW t, t = PoolAdd(x, fd, h)
    PROVE  t = [x EXCEPT !.pool = [pool EXCEPT ![fd] = q]]
<1>1. x.pool[fd] = k /\ k # None
  BY NotNone
<1>2. fd \in Pooled(x)
  BY <1>1 DEF Pooled
<1>3. t = [x EXCEPT !.pool = [x.pool EXCEPT ![fd] = [k EXCEPT !.handler = h]]]
  BY <1>1, <1>2 DEF PoolAdd
<1>4. [x.pool EXCEPT ![fd] = q] = [pool EXCEPT ![fd] = q]
  OBVIOUS
<1> QED BY <1>3, <1>4

\* A client is accepted, under a free address and a free descriptor.
LEMMA Accepted ==
    ASSUME NEW s, Shape(s), Calm(s), NEW c \in Client, c \notin Live(s),
           NEW fd \in Fd, fd \notin s.open, NEW t, t = AcceptClient(s, c, fd)
    PROVE  Shape(t) /\ Calm(t)
<1>1. /\ s \in System /\ s.clients \in Seq(Client) /\ s.drivers = s.clients
      /\ s.open \in SUBSET Fd /\ s.client \in [Client -> ClientRec \cup {None}]
      /\ s.pool \in [Fd -> SocketRec \cup {None}] /\ fd \notin Pooled(s) /\ c # None
  BY TelnetAssumption DEF Shape, System, TelnetAssumption
<1>2. PICK open, clients : open = s.open \cup {fd} /\ clients = Append(s.clients, c)
  OBVIOUS
<1>3. PICK k : k = [handler |-> None, queued |-> FALSE, closing |-> FALSE, gone |-> FALSE]
  OBVIOUS
<1>4. k \in SocketRec /\ k # None
  <2>1. k \in SocketRec
    BY <1>3 DEF SocketRec
  <2> QED BY <2>1, NotNone
<1>5. PICK p : p = PoolAdd([s EXCEPT !.open = @ \cup {fd}], fd, None)
  OBVIOUS
<1>6. p = [clients |-> s.clients, drivers |-> s.clients, open |-> open, client |-> s.client,
           pool |-> [s.pool EXCEPT ![fd] = k]]
  <2>1. PICK q : q = [s EXCEPT !.open = @ \cup {fd}]
    OBVIOUS
  <2>2. q = [clients |-> s.clients, drivers |-> s.clients, open |-> open, client |-> s.client,
             pool |-> s.pool]
    BY <1>1, <1>2, <2>1 DEF System
  <2>3. fd \notin Pooled(q)
    BY <1>1, <2>2 DEF Pooled
  <2>4. p = [q EXCEPT !.pool[fd] = k]
    BY <1>3, <1>5, <2>1, <2>3 DEF PoolAdd
  <2>5. p = [q EXCEPT !.pool = [q.pool EXCEPT ![fd] = k]]
    BY <2>4
  <2>6. q.pool = s.pool
    BY <2>2
  <2>7. p = [q EXCEPT !.pool = [s.pool EXCEPT ![fd] = k]]
    BY <2>5, <2>6
  <2> QED BY ONLY <2>2, <2>7
<1>7. PICK first : first = [fd |-> fd, state |-> "interactive", callback |-> "login",
                            user |-> FALSE, cd |-> <<>>]
  OBVIOUS
<1>8. first \in ClientRec /\ first.fd = fd /\ first.state = "interactive"
  <2>1. <<>> \in Seq(STRING)
    BY EmptySeq
  <2> QED BY <1>7, <2>1 DEF ClientRec
<1>9. PICK a : a = [p EXCEPT !.clients = Append(@, c), !.client[c] = first]
  OBVIOUS
<1>10. a = [clients |-> clients, drivers |-> s.clients, open |-> open,
            client |-> [s.client EXCEPT ![c] = first], pool |-> [s.pool EXCEPT ![fd] = k]]
  <2>1. PICK q : q = [p EXCEPT !.clients = Append(@, c)]
    OBVIOUS
  <2>2. q = [clients |-> clients, drivers |-> s.clients, open |-> open, client |-> s.client,
             pool |-> [s.pool EXCEPT ![fd] = k]]
    BY ONLY <1>2, <1>6, <2>1
  <2>3. a = [q EXCEPT !.client = [q.client EXCEPT ![c] = first]]
    BY <1>9, <2>1
  <2>4. q.client = s.client
    BY <2>2
  <2>5. a = [q EXCEPT !.client = [s.client EXCEPT ![c] = first]]
    BY <2>3, <2>4
  <2> QED BY ONLY <2>2, <2>5
<1>11. PICK l : l = [k EXCEPT !.queued = TRUE]
  OBVIOUS
<1>12. l \in SocketRec /\ l.queued /\ ~l.closing
  BY <1>3, <1>4, <1>11 DEF SocketRec
<1>13. PICK b : b = AddClient(p, c, fd)
  OBVIOUS
<1>14. b = IF guarded THEN Send(a, c) ELSE Motd(a, c)
  BY <1>7, <1>9, <1>13 DEF AddClient
<1>15. a.client[c] = first /\ a.client[c].fd = fd
  BY <1>1, <1>8, <1>10
<1>16. \E r \in ClientRec :
          /\ r.fd = fd /\ r.state \in {"interactive", "prompt"}
          /\ guarded => r.state = "interactive"
          /\ b = [clients |-> clients, drivers |-> s.clients, open |-> open,
                  client |-> [s.client EXCEPT ![c] = r], pool |-> [s.pool EXCEPT ![fd] = l]]
  <2>1. CASE guarded
    <3>1. b = PoolSend(a, fd)
      BY <1>14, <1>15, <2>1 DEF Send
    <3>2. b = [clients |-> clients, drivers |-> s.clients, open |-> open,
               client |-> [s.client EXCEPT ![c] = first], pool |-> [s.pool EXCEPT ![fd] = l]]
      <4>1. a.pool = [s.pool EXCEPT ![fd] = k]
        BY <1>10
      <4>2. b = [a EXCEPT !.pool = [s.pool EXCEPT ![fd] = l]]
        BY <1>1, <1>4, <1>11, <3>1, <4>1, Queued
      <4> QED BY ONLY <1>10, <4>2
    <3> QED BY <1>8, <3>2
  <2>2. CASE ~guarded
    <3>1. PICK m : m = [a EXCEPT !.client[c].state = "processing"]
      OBVIOUS
    <3>2. PICK u : u = [first EXCEPT !.state = "processing"]
      OBVIOUS
    <3>3. u \in ClientRec /\ u.fd = fd
      BY <1>8, <3>2 DEF ClientRec
    <3>4. m = [clients |-> clients, drivers |-> s.clients, open |-> open,
               client |-> [s.client EXCEPT ![c] = u], pool |-> [s.pool EXCEPT ![fd] = k]]
      <4>1. m = [a EXCEPT !.client = [a.client EXCEPT ![c] = [a.client[c] EXCEPT !.state = "processing"]]]
        BY <3>1
      <4>2. [a.client EXCEPT ![c] = u] = [s.client EXCEPT ![c] = u]
        BY <1>1, <1>10
      <4>3. m = [a EXCEPT !.client = [s.client EXCEPT ![c] = u]]
        BY <1>15, <3>2, <4>1, <4>2
      <4> QED BY ONLY <1>10, <4>3
    <3>5. m.client[c] = u
      BY <1>1, <3>4
    <3>6. PICK n : n = Send(m, c)
      OBVIOUS
    <3>7. n = PoolSend(m, fd)
      BY <3>3, <3>5, <3>6 DEF Send
    <3>8. n = [clients |-> clients, drivers |-> s.clients, open |-> open,
               client |-> [s.client EXCEPT ![c] = u], pool |-> [s.pool EXCEPT ![fd] = l]]
      <4>1. m.pool = [s.pool EXCEPT ![fd] = k]
        BY <3>4
      <4>2. n = [m EXCEPT !.pool = [s.pool EXCEPT ![fd] = l]]
        BY <1>1, <1>4, <1>11, <3>7, <4>1, Queued
      <4> QED BY ONLY <3>4, <4>2
    <3>9. PICK r : r = [u EXCEPT !.state = "prompt"]
      OBVIOUS
    <3>10. r \in ClientRec /\ r.fd = fd /\ r.state = "prompt"
      BY <3>3, <3>9 DEF ClientRec
    <3>11. b = [n EXCEPT !.client[c].state = "prompt"]
      BY <1>14, <2>2, <3>1, <3>6 DEF Motd, Prompt
    <3>12. n.client = [s.client EXCEPT ![c] = u] /\ n.client[c] = u
      BY <1>1, <3>8
    <3>13. [n.client EXCEPT ![c] = r] = [s.client EXCEPT ![c] = r]
      BY <1>1, <3>12
    <3>14. b = [n EXCEPT !.client = [s.client EXCEPT ![c] = r]]
      <4>1. b = [n EXCEPT !.client = [n.client EXCEPT ![c] = [n.client[c] EXCEPT !.state = "prompt"]]]
        BY <3>11
      <4> QED BY <3>9, <3>12, <3>13, <4>1
    <3>15. b = [clients |-> clients, drivers |-> s.clients, open |-> open,
                client |-> [s.client EXCEPT ![c] = r], pool |-> [s.pool EXCEPT ![fd] = l]]
      BY ONLY <3>8, <3>14
    <3> QED BY <2>2, <3>10, <3>15
  <2> QED BY <2>1, <2>2
<1>17. PICK r \in ClientRec :
          /\ r.fd = fd /\ r.state \in {"interactive", "prompt"}
          /\ guarded => r.state = "interactive"
          /\ b = [clients |-> clients, drivers |-> s.clients, open |-> open,
                  client |-> [s.client EXCEPT ![c] = r], pool |-> [s.pool EXCEPT ![fd] = l]]
  BY <1>16
<1>18. PICK z : z = [l EXCEPT !.handler = c]
  OBVIOUS
<1>19. z \in SocketRec /\ z # None /\ z.handler = c /\ ~z.closing
  <2>1. z \in SocketRec /\ z.handler = c /\ ~z.closing
    BY <1>12, <1>18 DEF SocketRec
  <2> QED BY <2>1, NotNone
<1>20. [z EXCEPT !.queued = TRUE] = z
  BY <1>12, <1>18 DEF SocketRec
<1>21. PICK d : d = PoolAdd(b, fd, c)
  OBVIOUS
<1>22. d = [clients |-> clients, drivers |-> s.clients, open |-> open,
            client |-> [s.client EXCEPT ![c] = r], pool |-> [s.pool EXCEPT ![fd] = z]]
  <2>1. b.pool = [s.pool EXCEPT ![fd] = l]
    BY <1>17
  <2>2. d = [b EXCEPT !.pool = [s.pool EXCEPT ![fd] = z]]
    BY <1>1, <1>12, <1>18, <1>21, <2>1, Handler
  <2> QED BY ONLY <1>17, <2>2
<1>23. PICK e : e = Send(d, c)
  OBVIOUS
<1>24. e = PoolSend(d, fd)
  <2>1. d.client[c] = r
    BY <1>1, <1>22
  <2> QED BY <1>17, <1>23, <2>1 DEF Send
<1>25. e = [clients |-> clients, drivers |-> s.clients, open |-> open,
            client |-> [s.client EXCEPT ![c] = r], pool |-> [s.pool EXCEPT ![fd] = z]]
  <2>1. d.pool = [s.pool EXCEPT ![fd] = z]
    BY <1>22
  <2>2. e = [d EXCEPT !.pool = [s.pool EXCEPT ![fd] = z]]
    BY <1>1, <1>19, <1>20, <1>24, <2>1, Queued
  <2> QED BY ONLY <1>22, <2>2
<1>26. t = [e EXCEPT !.drivers = Append(@, c)]
  BY <1>5, <1>13, <1>21, <1>23 DEF AcceptClient
<1>27. t = [clients |-> clients, drivers |-> clients, open |-> open,
            client |-> [s.client EXCEPT ![c] = r], pool |-> [s.pool EXCEPT ![fd] = z]]
  BY ONLY <1>2, <1>25, <1>26
<1>28. /\ t.clients = clients /\ t.drivers = clients /\ t.open = open
       /\ t.client = [s.client EXCEPT ![c] = r] /\ t.pool = [s.pool EXCEPT ![fd] = z]
  BY <1>27
<1>29. /\ \A x \in Client : t.client[x] = IF x = c THEN r ELSE s.client[x]
       /\ \A x \in Fd : t.pool[x] = IF x = fd THEN z ELSE s.pool[x]
  BY <1>1, <1>28
<1>30. Live(t) = Live(s) \cup {c}
  BY <1>29, NotNone DEF Live
<1>31. Pooled(t) = Pooled(s) \cup {fd}
  BY <1>19, <1>29 DEF Pooled
<1>32. clients \in Seq(Client) /\ IsInjective(clients) /\ Range(clients) = Live(t)
  BY <1>1, <1>2, <1>30, AppendElement DEF Shape
<1>33. t \in System
  <2>1. open \in SUBSET Fd
    BY <1>1, <1>2
  <2>2. [s.client EXCEPT ![c] = r] \in [Client -> ClientRec \cup {None}]
    BY <1>1
  <2>3. [s.pool EXCEPT ![fd] = z] \in [Fd -> SocketRec \cup {None}]
    BY <1>1, <1>19
  <2> QED BY <1>27, <1>32, <2>1, <2>2, <2>3 DEF System
<1>34. \A x \in Live(t) : t.client[x].fd \in Pooled(t) /\ t.pool[t.client[x].fd].handler = x
  <2> SUFFICES ASSUME NEW x \in Live(t)
               PROVE  t.client[x].fd \in Pooled(t) /\ t.pool[t.client[x].fd].handler = x
    OBVIOUS
  <2>1. CASE x = c
    BY <1>17, <1>19, <1>29, <1>31, <2>1
  <2>2. CASE x # c
    <3>1. x \in Live(s) /\ x \in Client
      BY <1>30, <2>2 DEF Live
    <3>2. s.client[x].fd \in Pooled(s) /\ s.pool[s.client[x].fd].handler = x
      BY <3>1 DEF Shape
    <3>3. s.client[x].fd \in Fd /\ s.client[x].fd # fd
      BY <1>1, <3>2 DEF Pooled
    <3> QED BY <1>29, <1>31, <2>2, <3>1, <3>2, <3>3
  <2> QED BY <2>1, <2>2
<1>35. \A x \in Pooled(t) :
          t.pool[x].handler # None =>
              t.pool[x].handler \in Live(t) /\ t.client[t.pool[x].handler].fd = x
  <2> SUFFICES ASSUME NEW x \in Pooled(t), t.pool[x].handler # None
               PROVE  t.pool[x].handler \in Live(t) /\ t.client[t.pool[x].handler].fd = x
    OBVIOUS
  <2>1. CASE x = fd
    BY <1>17, <1>19, <1>29, <1>30, <2>1
  <2>2. CASE x # fd
    <3>1. x \in Pooled(s) /\ x \in Fd /\ t.pool[x] = s.pool[x]
      BY <1>29, <1>31, <2>2 DEF Pooled
    <3>2. s.pool[x].handler \in Live(s) /\ s.client[s.pool[x].handler].fd = x
      BY <3>1 DEF Shape
    <3>3. s.pool[x].handler # c /\ s.pool[x].handler \in Client
      BY <3>2 DEF Live
    <3> QED BY <1>29, <1>30, <3>1, <3>2, <3>3
  <2> QED BY <2>1, <2>2
<1>36. \A x \in Pooled(t) : t.pool[x].closing => t.pool[x].handler = None \/ t.pool[x].gone
  <2> SUFFICES ASSUME NEW x \in Pooled(t), t.pool[x].closing
               PROVE  t.pool[x].handler = None \/ t.pool[x].gone
    OBVIOUS
  <2>1. x # fd
    BY <1>19, <1>29
  <2>2. x \in Pooled(s) /\ t.pool[x] = s.pool[x]
    BY <1>29, <1>31, <2>1 DEF Pooled
  <2> QED BY <2>2 DEF Shape
<1>37. Pooled(t) \subseteq t.open
  BY <1>2, <1>28, <1>31 DEF Shape
<1>38. Shape(t)
  BY <1>28, <1>32, <1>33, <1>34, <1>35, <1>36, <1>37 DEF Shape
<1>39. ASSUME NEW x \in Live(t)
       PROVE  t.client[x].state \in {"interactive", "prompt"} /\ Cleared(t, x)
  <2>1. CASE x = c
    <3>1. t.client[x] = r
      BY <1>29, <2>1
    <3>2. guarded => r.state # "prompt"
      BY <1>17
    <3> QED BY <1>17, <3>1, <3>2 DEF Cleared
  <2>2. CASE x # c
    <3>1. x \in Live(s) /\ t.client[x] = s.client[x]
      BY <1>29, <1>30, <2>2 DEF Live
    <3>2. s.client[x].state \in {"interactive", "prompt"} /\ Cleared(s, x)
      BY <3>1 DEF Calm
    <3> QED BY <3>1, <3>2 DEF Cleared
  <2> QED BY <2>1, <2>2
<1> QED BY <1>38, <1>39 DEF Calm
-----------------------------------------------------------------------------
(* What becomes of the sockets.                                            *)

\* A socket of the pool becomes another structure with the same handler.
LEMMA SocketChanged ==
    ASSUME NEW s, Shape(s), NEW fd \in Pooled(s), NEW k \in SocketRec,
           k.handler = s.pool[fd].handler, k.closing => k.handler = None \/ k.gone,
           NEW t, t = [s EXCEPT !.pool = [s.pool EXCEPT ![fd] = k]]
    PROVE  /\ Shape(t) /\ t.client = s.client /\ Live(t) = Live(s) /\ Pooled(t) = Pooled(s)
           /\ t.pool[fd] = k
<1>1. /\ s \in System /\ fd \in Fd /\ k # None
      /\ s.pool \in [Fd -> SocketRec \cup {None}]
  BY NotNone DEF Shape, System, Pooled
<1>2. /\ t.pool = [s.pool EXCEPT ![fd] = k] /\ t.clients = s.clients
      /\ t.drivers = s.drivers /\ t.open = s.open /\ t.client = s.client
  BY <1>1 DEF System
<1>3. t \in System
  BY <1>1 DEF System
<1>4. \A x \in Fd : t.pool[x] = IF x = fd THEN k ELSE s.pool[x]
  BY <1>1, <1>2
<1>5. Pooled(t) = Pooled(s)
  BY <1>1, <1>4 DEF Pooled
<1>6. Live(t) = Live(s)
  BY <1>2 DEF Live
<1>7. \A x \in Pooled(s) : t.pool[x].handler = s.pool[x].handler
  BY <1>4 DEF Pooled
<1>8. \A x \in Pooled(s) : t.pool[x].closing => t.pool[x].handler = None \/ t.pool[x].gone
  BY <1>4 DEF Pooled, Shape
<1>9. \A c \in Live(t) : t.client[c].fd \in Pooled(t) /\ t.pool[t.client[c].fd].handler = c
  BY <1>2, <1>5, <1>6, <1>7 DEF Shape
<1>10. \A x \in Pooled(t) :
          t.pool[x].handler # None =>
              t.pool[x].handler \in Live(t) /\ t.client[t.pool[x].handler].fd = x
  BY <1>2, <1>5, <1>6, <1>7 DEF Shape
<1>11. /\ t.drivers = t.clients /\ IsInjective(t.clients) /\ Range(t.clients) = Live(t)
       /\ Pooled(t) \subseteq t.open
  BY <1>2, <1>5, <1>6 DEF Shape
<1>12. Shape(t)
  BY <1>3, <1>5, <1>8, <1>9, <1>10, <1>11 DEF Shape
<1> QED BY <1>1, <1>2, <1>4, <1>5, <1>6, <1>12

\* A socket without handler is removed.
LEMMA SocketRemoved ==
    ASSUME NEW s, Shape(s), NEW fd \in Fd, fd \in Pooled(s) => s.pool[fd].handler = None,
           NEW t, t = PoolRemove(s, fd)
    PROVE  Shape(t) /\ t.client = s.client /\ Live(t) = Live(s)
<1>1. s \in System /\ s.open \in SUBSET Fd /\ s.pool \in [Fd -> SocketRec \cup {None}]
  BY DEF Shape, System
<1>2. PICK p : p = [s.pool EXCEPT ![fd] = None]
  OBVIOUS
<1>3. p \in [Fd -> SocketRec \cup {None}] /\ \A x \in Fd : p[x] = IF x = fd THEN None ELSE s.pool[x]
  BY <1>1, <1>2
<1>4. PICK o : o = s.open \ {fd}
  OBVIOUS
<1>5. t = [s EXCEPT !.pool = p, !.open = o]
  BY <1>2, <1>4 DEF PoolRemove
<1>6. /\ t.pool = p /\ t.open = o /\ t.clients = s.clients
      /\ t.drivers = s.drivers /\ t.client = s.client
  BY <1>1, <1>5 DEF System
<1>7. t \in System
  <2>1. o \in SUBSET Fd
    BY <1>1, <1>4
  <2> QED BY <1>1, <1>3, <1>5, <2>1 DEF System
<1>8. Pooled(t) = Pooled(s) \ {fd} /\ \A x \in Pooled(t) : t.pool[x] = s.pool[x]
  BY <1>3, <1>6 DEF Pooled
<1>9. Live(t) = Live(s)
  BY <1>6 DEF Live
<1>10. ASSUME NEW c \in Live(t)
       PROVE  t.client[c].fd \in Pooled(t) /\ t.pool[t.client[c].fd].handler = c
  <2>1. s.client[c].fd \in Pooled(s) /\ s.pool[s.client[c].fd].handler = c /\ c # None
    BY <1>9, TelnetAssumption DEF Shape, Live, TelnetAssumption
  <2>2. s.client[c].fd # fd
    BY <2>1
  <2> QED BY <1>6, <1>8, <2>1, <2>2
<1>11. \A x \in Pooled(t) :
          t.pool[x].handler # None =>
              t.pool[x].handler \in Live(t) /\ t.client[t.pool[x].handler].fd = x
  BY <1>6, <1>8, <1>9 DEF Shape
<1>12. \A x \in Pooled(t) : t.pool[x].closing => t.pool[x].handler = None \/ t.pool[x].gone
  BY <1>8 DEF Shape
<1>13. Pooled(t) \subseteq t.open
  BY <1>4, <1>6, <1>8 DEF Shape
<1>14. t.drivers = t.clients /\ IsInjective(t.clients) /\ Range(t.clients) = Live(t)
  BY <1>6, <1>9 DEF Shape
<1>15. Shape(t)
  BY <1>7, <1>10, <1>11, <1>12, <1>13, <1>14 DEF Shape
<1> QED BY <1>6, <1>9, <1>15

\* socketpool_close of a socket without handler, or of one whose peer has gone
\* while something is queued: the clients stay as they are.
LEMMA SocketClosed ==
    ASSUME NEW s, Shape(s), NEW fd \in Fd,
           fd \in Pooled(s) => \/ s.pool[fd].handler = None
                               \/ s.pool[fd].queued /\ s.pool[fd].gone,
           NEW t, t = PoolClose(s, fd)
    PROVE  Shape(t) /\ t.client = s.client /\ Live(t) = Live(s)
<1>1. CASE fd \in Pooled(s) /\ s.pool[fd].queued
  <2>1. s.pool[fd] \in SocketRec
    BY <1>1, Structures
  <2>2. PICK k : k = [s.pool[fd] EXCEPT !.closing = TRUE]
    OBVIOUS
  <2>3. k \in SocketRec /\ k.handler = s.pool[fd].handler /\ k.gone = s.pool[fd].gone
    BY <2>1, <2>2 DEF SocketRec
  <2>4. k.handler = None \/ k.gone
    BY <1>1, <2>3
  <2>5. t = [s EXCEPT !.pool = [s.pool EXCEPT ![fd] = k]]
    BY <1>1, <2>2 DEF PoolClose
  <2>6. fd \in Pooled(s)
    BY <1>1
  <2> QED BY <2>3, <2>4, <2>5, <2>6, SocketChanged
<1>2. CASE ~(fd \in Pooled(s) /\ s.pool[fd].queued)
  <2>1. t = PoolRemove(s, fd)
    BY <1>2 DEF PoolClose
  <2>2. fd \in Pooled(s) => s.pool[fd].handler = None
    BY <1>2
  <2> QED BY <2>1, <2>2, SocketRemoved
<1> QED BY <1>1, <1>2

\* Clients that have not changed are calm still.
LEMMA CalmKept ==
    ASSUME NEW s, Calm(s), NEW t, t.client = s.client
    PROVE  Calm(t)
BY DEF Calm, Cleared, Live
-----------------------------------------------------------------------------
(* The loops over a list.                                                  *)

\* What one turn of a loop does.
Turn(k, t, x) ==
    IF k = 0 THEN Send(t, x) ELSE IF k = 1 THEN Disconnect(t, x) ELSE
    IF k = 2 THEN PoolClose(t, x) ELSE IF k = 3 THEN Show(t, x) ELSE Byte(t, x)

SendAll(s, list) == FoldLeft(LAMBDA t, c : Send(t, c), s, list)
DisconnectAll(s, list) == FoldLeft(LAMBDA t, c : Disconnect(t, c), s, list)
CloseAll(s, list) == FoldLeft(LAMBDA t, fd : PoolClose(t, fd), s, list)

\* What a loop has done after some of the positions 1..n.
Loop(k, base, list, n, g) ==
    g = [s \in SUBSET (1..n) |->
            IF s = {} THEN base ELSE Turn(k, g[s \ {Max(s)}], list[Max(s)])]

\* The states h that it goes through, the last of which is t.
Runs(k, base, list, n, h, t) ==
    h[0] = base /\ h[n] = t /\ \A i \in 1..n : h[i] = Turn(k, h[i-1], list[i])

\* The greatest position of a list is its length.
LEMMA LastPosition ==
    ASSUME NEW m \in Nat, NEW s \in SUBSET (1..m), m \in s
    PROVE  Max(s) = m
<1>1. m \in s /\ \A y \in s : m >= y
  OBVIOUS
<1>2. \E x \in s : \A y \in s : x >= y
  BY <1>1
<1>3. Max(s) \in s /\ \A y \in s : Max(s) >= y
  BY <1>2 DEF Max
<1>4. PICK x \in s : x = Max(s)
  BY <1>3
<1>5. x >= m /\ m >= x /\ x \in Nat
  BY <1>1, <1>3, <1>4
<1> QED BY <1>4, <1>5

\* A function that has the values of the loop is that of the loop.
LEMMA LoopValues ==
    ASSUME NEW k, NEW base, NEW list, NEW n \in Nat, NEW h,
           h = [s \in SUBSET (1..n) |-> h[s]],
           \A s \in SUBSET (1..n) :
              h[s] = IF s = {} THEN base ELSE Turn(k, h[s \ {Max(s)}], list[Max(s)])
    PROVE  Loop(k, base, list, n, h)
BY DEF Loop

\* There is such a function.
LEMMA LoopFunction ==
    ASSUME NEW k, NEW base, NEW list, NEW n \in Nat
    PROVE  \E g : Loop(k, base, list, n, g)
<1> DEFINE Bad == {m \in Nat : ~ \E g : Loop(k, base, list, m, g)}
<1>1. SUFFICES ASSUME Bad # {} PROVE FALSE
  OBVIOUS
<1>2. PICK m \in Bad : \A j \in Bad : m <= j
  BY <1>1, LeastPosition
<1>3. m # 0
  <2> DEFINE g == [s \in SUBSET (1..0) |-> base]
  <2>1. \A s \in SUBSET (1..0) : s = {}
    OBVIOUS
  <2>2. \A s \in SUBSET (1..0) :
            g[s] = IF s = {} THEN base ELSE Turn(k, g[s \ {Max(s)}], list[Max(s)])
    BY <2>1
  <2>3. g = [s \in SUBSET (1..0) |-> g[s]]
    OBVIOUS
  <2> HIDE DEF g
  <2>4. Loop(k, base, list, 0, g)
    BY <2>2, <2>3, LoopValues
  <2> QED BY <2>4
<1>4. m - 1 \in Nat /\ m - 1 \notin Bad
  BY <1>2, <1>3
<1>5. PICK g : Loop(k, base, list, m - 1, g)
  BY <1>4
<1> DEFINE h == [s \in SUBSET (1..m) |-> IF m \in s THEN Turn(k, g[s \ {m}], list[m]) ELSE g[s]]
<1>6. ASSUME NEW s \in SUBSET (1..m)
      PROVE  h[s] = IF s = {} THEN base ELSE Turn(k, h[s \ {Max(s)}], list[Max(s)])
  <2>1. CASE m \in s
    <3>1. Max(s) = m
      BY <2>1, LastPosition
    <3>2. s \ {m} \in SUBSET (1..m) /\ m \notin s \ {m}
      OBVIOUS
    <3>3. h[s \ {m}] = g[s \ {m}]
      BY <3>2
    <3>4. h[s] = Turn(k, g[s \ {m}], list[m])
      BY <2>1
    <3> QED BY <2>1, <3>1, <3>3, <3>4
  <2>2. CASE m \notin s
    <3>1. s \in SUBSET (1..m-1)
      BY <1>4, <2>2
    <3>2. h[s] = g[s]
      BY <2>2
    <3>3. g[s] = IF s = {} THEN base ELSE Turn(k, g[s \ {Max(s)}], list[Max(s)])
      BY <1>5, <3>1 DEF Loop
    <3>4. s \ {Max(s)} \in SUBSET (1..m) /\ m \notin s \ {Max(s)}
      BY <2>2
    <3>5. h[s \ {Max(s)}] = g[s \ {Max(s)}]
      BY <3>4
    <3> QED BY <3>2, <3>3, <3>5
  <2> QED BY <2>1, <2>2
<1>7. h = [s \in SUBSET (1..m) |-> h[s]]
  OBVIOUS
<1> HIDE DEF h
<1>8. Loop(k, base, list, m, h)
  BY <1>4, <1>6, <1>7, LoopValues
<1> QED BY <1>2, <1>8

\* The states that a loop goes through.
LEMMA LoopStates ==
    ASSUME NEW k, NEW base, NEW list, NEW n \in Nat, NEW g, Loop(k, base, list, n, g)
    PROVE  \E h : Runs(k, base, list, n, h, g[1..n])
<1> DEFINE h == [i \in 0..n |-> g[1..i]]
<1>1. \A s \in SUBSET (1..n) :
          g[s] = IF s = {} THEN base ELSE Turn(k, g[s \ {Max(s)}], list[Max(s)])
  BY DEF Loop
<1>2. h[0] = base
  <2>1. 0 \in 0..n /\ {} \in SUBSET (1..n) /\ 1..0 = {}
    OBVIOUS
  <2>2. h[0] = g[{}] /\ g[{}] = base
    BY <1>1, <2>1
  <2> QED BY <2>2
<1>3. ASSUME NEW i \in 1..n
      PROVE  h[i] = Turn(k, h[i-1], list[i])
  <2>1. 1..i \in SUBSET (1..n) /\ i \in 1..i /\ i \in Nat
    OBVIOUS
  <2>2. Max(1..i) = i
    BY <2>1, LastPosition
  <2>3. (1..i) \ {i} = 1..i-1
    OBVIOUS
  <2>4. 1..i # {}
    BY <2>1
  <2>5. g[1..i] = Turn(k, g[(1..i) \ {Max(1..i)}], list[Max(1..i)])
    BY <1>1, <2>1, <2>4
  <2>6. g[1..i] = Turn(k, g[1..i-1], list[i])
    BY <2>2, <2>3, <2>5
  <2>7. h[i] = g[1..i]
    BY <2>1
  <2>8. h[i-1] = g[1..i-1]
    <3>1. PICK j \in 0..n : j = i - 1
      BY <2>1
    <3>2. h[j] = g[1..j]
      OBVIOUS
    <3> QED BY <3>1, <3>2
  <2> QED BY <2>6, <2>7, <2>8
<1>4. h[n] = g[1..n]
  <2>1. n \in 0..n
    OBVIOUS
  <2> QED BY <2>1
<1> HIDE DEF h
<1>5. Runs(k, base, list, n, h, g[1..n])
  BY <1>2, <1>3, <1>4 DEF Runs
<1> QED BY <1>5

\* FoldLeft ends in the last of these states.
LEMMA Looped ==
    ASSUME NEW k \in 0..2, NEW base, NEW list, NEW n \in Nat, DOMAIN list = 1..n, NEW t,
           t = IF k = 0 THEN SendAll(base, list)
               ELSE IF k = 1 THEN DisconnectAll(base, list) ELSE CloseAll(base, list)
    PROVE  \E h : Runs(k, base, list, n, h, t)
<1>1. \E g : Loop(k, base, list, n, g)
  BY LoopFunction
<1>2. \E g : Loop(k, base, list, n, g) /\ g[1..n] = t
  <2>1. CASE k = 0
    <3>1. \A a, x : Turn(k, a, x) = Send(a, x)
      BY <2>1 DEF Turn
    <3>2. \A e : Loop(k, base, list, n, e) <=>
                    e = [s \in SUBSET (1..n) |->
                            IF s = {} THEN base ELSE Send(e[s \ {Max(s)}], list[Max(s)])]
      BY <3>1 DEF Loop
    <3> DEFINE It == CHOOSE e : e = [s \in SUBSET (1..n) |->
                          IF s = {} THEN base ELSE Send(e[s \ {Max(s)}], list[Max(s)])]
    <3>3. It = [s \in SUBSET (1..n) |->
                  IF s = {} THEN base ELSE Send(It[s \ {Max(s)}], list[Max(s)])]
      BY <1>1, <3>2
    <3>4. SendAll(base, list) = It[1..n]
      BY DEF SendAll, FoldLeft, MapThenFoldSet
    <3> HIDE DEF It
    <3>5. Loop(k, base, list, n, It)
      BY <3>2, <3>3
    <3>6. t = It[1..n]
      BY <2>1, <3>4
    <3> QED BY <3>5, <3>6
  <2>2. CASE k = 1
    <3>1. \A a, x : Turn(k, a, x) = Disconnect(a, x)
      BY <2>2 DEF Turn
    <3>2. \A e : Loop(k, base, list, n, e) <=>
                    e = [s \in SUBSET (1..n) |->
                            IF s = {} THEN base ELSE Disconnect(e[s \ {Max(s)}], list[Max(s)])]
      BY <3>1 DEF Loop
    <3> DEFINE It == CHOOSE e : e = [s \in SUBSET (1..n) |->
                          IF s = {} THEN base ELSE Disconnect(e[s \ {Max(s)}], list[Max(s)])]
    <3>3. It = [s \in SUBSET (1..n) |->
                  IF s = {} THEN base ELSE Disconnect(It[s \ {Max(s)}], list[Max(s)])]
      BY <1>1, <3>2
    <3>4. DisconnectAll(base, list) = It[1..n]
      BY DEF DisconnectAll, FoldLeft, MapThenFoldSet
    <3> HIDE DEF It
    <3>5. Loop(k, base, list, n, It)
      BY <3>2, <3>3
    <3>6. t = It[1..n]
      BY <2>2, <3>4
    <3> QED BY <3>5, <3>6
  <2>3. CASE k = 2
    <3>1. \A a, x : Turn(k, a, x) = PoolClose(a, x)
      BY <2>3 DEF Turn
    <3>2. \A e : Loop(k, base, list, n, e) <=>
                    e = [s \in SUBSET (1..n) |->
                            IF s = {} THEN base ELSE PoolClose(e[s \ {Max(s)}], list[Max(s)])]
      BY <3>1 DEF Loop
    <3> DEFINE It == CHOOSE e : e = [s \in SUBSET (1..n) |->
                          IF s = {} THEN base ELSE PoolClose(e[s \ {Max(s)}], list[Max(s)])]
    <3>3. It = [s \in SUBSET (1..n) |->
                  IF s = {} THEN base ELSE PoolClose(It[s \ {Max(s)}], list[Max(s)])]
      BY <1>1, <3>2
    <3>4. CloseAll(base, list) = It[1..n]
      BY DEF CloseAll, FoldLeft, MapThenFoldSet
    <3> HIDE DEF It
    <3>5. Loop(k, base, list, n, It)
      BY <3>2, <3>3
    <3>6. t = It[1..n]
      BY <2>3, <3>4
    <3> QED BY <3>5, <3>6
  <2> QED BY <2>1, <2>2, <2>3
<1>3. PICK g : Loop(k, base, list, n, g) /\ g[1..n] = t
  BY <1>2
<1> QED BY <1>3, LoopStates

\* What one turn after another makes true is true at the end.
LEMMA Induction ==
    ASSUME NEW n \in Nat, NEW P, 0 \in P, \A i \in 1..n : i-1 \in P => i \in P
    PROVE  n \in P
<1> DEFINE Bad == {i \in 0..n : i \notin P}
<1>1. SUFFICES ASSUME Bad # {} PROVE FALSE
  OBVIOUS
<1>2. PICK i \in Bad : \A j \in Bad : i <= j
  <2>1. Bad \in SUBSET Nat
    OBVIOUS
  <2> HIDE DEF Bad
  <2> QED BY <1>1, <2>1, LeastPosition
<1>3. i # 0 /\ i - 1 \in 0..n /\ i - 1 \notin Bad
  BY <1>2
<1> QED BY <1>2, <1>3

\* plugins_close is three such loops.
LEMMA Unloaded ==
    ASSUME NEW s, NEW t, t = UnloadPlugins(s)
    PROVE  \E told, left : /\ told = SendAll(s, s.clients)
                           /\ left = DisconnectAll(told, told.clients)
                           /\ t = DisconnectAll(left, left.drivers)
<1>1. UnloadPlugins(s) =
          DisconnectAll(DisconnectAll(SendAll(s, s.clients), SendAll(s, s.clients).clients),
              DisconnectAll(SendAll(s, s.clients), SendAll(s, s.clients).clients).drivers)
  BY DEF UnloadPlugins, SendAll, DisconnectAll, FoldLeft, MapThenFoldSet
<1> QED BY <1>1

\* All clients are told that the program ends: something is queued for each.
Told(s, x, i) ==
    /\ Shape(x) /\ x.clients = s.clients /\ x.client = s.client /\ Live(x) = Live(s)
    /\ Pooled(x) = Pooled(s) /\ \A j \in 1..i : x.pool[s.client[s.clients[j]].fd].queued

\* The first loop of plugins_close.
LEMMA AllTold ==
    ASSUME NEW s, Shape(s), NEW t, t = SendAll(s, s.clients)
    PROVE  /\ Shape(t) /\ t.clients = s.clients /\ t.client = s.client /\ Live(t) = Live(s)
           /\ \A c \in Live(t) : t.pool[t.client[c].fd].queued
<1> DEFINE n == Len(s.clients)
<1>1. s.clients \in Seq(Client) /\ n \in Nat /\ DOMAIN s.clients = 1..n
  BY LenProperties DEF Shape, System
<1>2. \A i \in 1..n : s.clients[i] \in Live(s)
  BY <1>1 DEF Shape, Range
<1> HIDE DEF n
<1>3. PICK h : Runs(0, s, s.clients, n, h, t)
  BY <1>1, Looped
<1> DEFINE P == {i \in 0..n : Told(s, h[i], i)}
<1>4. 0 \in P
  <2>1. h[0] = s
    BY <1>3 DEF Runs
  <2> QED BY <1>1, <2>1 DEF Told
<1>5. ASSUME NEW i \in 1..n, i - 1 \in P
      PROVE  i \in P
  <2>1. PICK x : x = h[i - 1]
    OBVIOUS
  <2>2. PICK c : c = s.clients[i]
    OBVIOUS
  <2>3. PICK y : y = h[i]
    OBVIOUS
  <2>4. y = Send(x, c)
    BY <1>3, <2>1, <2>2, <2>3 DEF Runs, Turn
  <2>5. Told(s, x, i - 1)
    BY <1>5, <2>1
  <2>6. /\ Shape(x) /\ x.clients = s.clients /\ x.client = s.client /\ Live(x) = Live(s)
        /\ Pooled(x) = Pooled(s)
    BY <2>5 DEF Told
  <2>7. c \in Live(x)
    BY <1>2, <2>2, <2>6
  <2>8. /\ Shape(y) /\ y.clients = x.clients /\ y.client = x.client
        /\ Pooled(y) = Pooled(x) /\ Live(y) = Live(x)
        /\ \A z \in Pooled(x) : x.pool[z].queued => y.pool[z].queued
        /\ y.pool[y.client[c].fd].queued
    BY <2>4, <2>6, <2>7, ClientSent
  <2>9. ASSUME NEW j \in 1..i
        PROVE  y.pool[s.client[s.clients[j]].fd].queued
    <3>1. CASE j = i
      BY <2>2, <2>6, <2>8, <3>1
    <3>2. CASE j # i
      <4>1. j \in 1..i-1 /\ j \in 1..n
        BY <1>1, <3>2
      <4>2. x.pool[s.client[s.clients[j]].fd].queued
        BY <2>5, <4>1 DEF Told
      <4>3. s.clients[j] \in Live(s)
        BY <1>2, <4>1
      <4>4. s.client[s.clients[j]].fd \in Pooled(s)
        BY <4>3 DEF Shape
      <4> QED BY <2>6, <2>8, <4>2, <4>4
    <3> QED BY <3>1, <3>2
  <2>10. Told(s, y, i)
    BY <2>6, <2>8, <2>9 DEF Told
  <2> QED BY <1>1, <2>3, <2>10
<1>6. n \in P
  <2> HIDE DEF P
  <2> QED BY <1>1, <1>4, <1>5, Induction
<1>7. Told(s, t, n)
  BY <1>3, <1>6 DEF Runs
<1>8. ASSUME NEW c \in Live(t)
      PROVE  t.pool[t.client[c].fd].queued
  <2>1. c \in Range(s.clients)
    BY <1>7 DEF Told, Shape
  <2>2. PICK j \in 1..n : s.clients[j] = c
    BY <1>1, <2>1 DEF Range
  <2> QED BY <1>7, <2>2 DEF Told
<1> QED BY <1>7, <1>8 DEF Told

\* All clients up to position i of the list are gone.
Gone(s, x, i) ==
    /\ Shape(x) /\ Live(x) = Live(s) \ {s.clients[j] : j \in 1..i} /\ Pooled(x) = Pooled(s)
    /\ \A d \in Live(x) : x.client[d] = s.client[d]
    /\ \A y \in Pooled(s) : s.pool[y].queued => x.pool[y].queued

\* The second loop of plugins_close.
LEMMA AllDisconnected ==
    ASSUME NEW s, Shape(s), Calm(s), \A c \in Live(s) : s.pool[s.client[c].fd].queued,
           NEW t, t = DisconnectAll(s, s.clients)
    PROVE  Shape(t) /\ Live(t) = {}
<1> DEFINE n == Len(s.clients)
<1>1. s.clients \in Seq(Client) /\ n \in Nat /\ DOMAIN s.clients = 1..n
  BY LenProperties DEF Shape, System
<1>2. \A i \in 1..n : s.clients[i] \in Live(s)
  BY <1>1 DEF Shape, Range
<1>3. \A i, j \in 1..n : s.clients[i] = s.clients[j] => i = j
  BY <1>1 DEF Shape, IsInjective
<1> HIDE DEF n
<1>4. PICK h : Runs(1, s, s.clients, n, h, t)
  BY <1>1, Looped
<1> DEFINE P == {i \in 0..n : Gone(s, h[i], i)}
<1>5. 0 \in P
  <2>1. h[0] = s
    BY <1>4 DEF Runs
  <2> QED BY <1>1, <2>1 DEF Gone
<1>6. ASSUME NEW i \in 1..n, i - 1 \in P
      PROVE  i \in P
  <2>1. PICK x : x = h[i - 1]
    OBVIOUS
  <2>2. PICK c : c = s.clients[i]
    OBVIOUS
  <2>3. PICK y : y = h[i]
    OBVIOUS
  <2>4. y = Disconnect(x, c)
    BY <1>4, <2>1, <2>2, <2>3 DEF Runs, Turn
  <2>5. Gone(s, x, i - 1)
    BY <1>6, <2>1
  <2>6. /\ Shape(x) /\ Live(x) = Live(s) \ {s.clients[j] : j \in 1..i-1}
        /\ Pooled(x) = Pooled(s)
        /\ \A d \in Live(x) : x.client[d] = s.client[d]
        /\ \A z \in Pooled(s) : s.pool[z].queued => x.pool[z].queued
    BY <2>5 DEF Gone
  <2>7. c \in Live(x)
    <3>1. \A j \in 1..i-1 : s.clients[j] # c
      BY <1>1, <1>3, <2>2
    <3> QED BY <1>2, <2>2, <2>6, <3>1
  <2>8. c \in Live(s) /\ x.client[c] = s.client[c]
    BY <2>6, <2>7
  <2>9. x.client[c].state # "processing"
    BY <2>8 DEF Calm
  <2>10. x.pool[x.client[c].fd].queued
    <3>1. s.client[c].fd \in Pooled(s)
      BY <2>8 DEF Shape
    <3> QED BY <2>6, <2>8, <3>1
  <2>11. /\ Shape(y) /\ Live(y) = Live(x) \ {c} /\ Pooled(y) = Pooled(x)
         /\ \A d \in Live(y) : y.client[d] = x.client[d]
         /\ \A z \in Pooled(x) : x.pool[z].queued => y.pool[z].queued
    BY <2>4, <2>6, <2>7, <2>9, <2>10, Disconnected
  <2>12. Live(y) = Live(s) \ {s.clients[j] : j \in 1..i}
    <3>1. 1..i = (1..i-1) \cup {i}
      BY <1>1
    <3>2. {s.clients[j] : j \in 1..i} = {s.clients[j] : j \in 1..i-1} \cup {c}
      BY <2>2, <3>1
    <3> QED BY <2>6, <2>11, <3>2
  <2>13. \A d \in Live(y) : y.client[d] = s.client[d]
    BY <2>6, <2>11
  <2>14. \A z \in Pooled(s) : s.pool[z].queued => y.pool[z].queued
    BY <2>6, <2>11
  <2>15. Gone(s, y, i)
    BY <2>6, <2>11, <2>12, <2>13, <2>14 DEF Gone
  <2> QED BY <1>1, <2>3, <2>15
<1>7. n \in P
  <2> HIDE DEF P
  <2> QED BY <1>1, <1>5, <1>6, Induction
<1>8. Gone(s, t, n)
  BY <1>4, <1>7 DEF Runs
<1>9. Live(s) = {s.clients[j] : j \in 1..n}
  BY <1>1 DEF Shape, Range
<1> QED BY <1>8, <1>9 DEF Gone

\* The third finds no client any more.
LEMMA NoneLeft ==
    ASSUME NEW s, Shape(s), Live(s) = {}, NEW t, t = DisconnectAll(s, s.drivers)
    PROVE  t = s
<1>1. s.drivers \in Seq(Client) /\ Range(s.drivers) = {}
  BY DEF Shape, System
<1> DEFINE n == Len(s.drivers)
<1>2. n \in Nat /\ DOMAIN s.drivers = 1..n
  BY <1>1, LenProperties
<1>3. n = 0
  <2>1. \A i \in 1..n : s.drivers[i] \in Range(s.drivers)
    BY <1>2 DEF Range
  <2>2. ~(1 \in 1..n)
    BY <1>1, <2>1
  <2> QED BY <1>2, <2>2
<1> HIDE DEF n
<1>4. PICK h : Runs(1, s, s.drivers, n, h, t)
  BY <1>2, Looped
<1> QED BY <1>3, <1>4 DEF Runs

\* socketpool_shutdown closes sockets that have no handler any more.
LEMMA AllClosed ==
    ASSUME NEW s, Shape(s), Live(s) = {}, NEW list, NEW n \in Nat, DOMAIN list = 1..n,
           \A i \in 1..n : list[i] \in Fd, NEW t, t = CloseAll(s, list)
    PROVE  Shape(t) /\ Live(t) = {}
<1>1. PICK h : Runs(2, s, list, n, h, t)
  BY Looped
<1> DEFINE P == {i \in 0..n : Shape(h[i]) /\ Live(h[i]) = {}}
<1>2. 0 \in P
  <2>1. h[0] = s
    BY <1>1 DEF Runs
  <2> QED BY <2>1
<1>3. ASSUME NEW i \in 1..n, i - 1 \in P
      PROVE  i \in P
  <2>1. PICK x : x = h[i - 1]
    OBVIOUS
  <2>2. PICK y : y = h[i]
    OBVIOUS
  <2>3. PICK fd \in Fd : fd = list[i]
    OBVIOUS
  <2>4. y = PoolClose(x, fd)
    BY <1>1, <2>1, <2>2, <2>3 DEF Runs, Turn
  <2>5. Shape(x) /\ Live(x) = {}
    BY <1>3, <2>1
  <2>6. fd \in Pooled(x) => x.pool[fd].handler = None
    BY <2>5 DEF Shape
  <2>7. Shape(y) /\ Live(y) = {}
    BY <2>4, <2>5, <2>6, SocketClosed
  <2> QED BY <2>2, <2>7
<1>4. n \in P
  <2> HIDE DEF P
  <2> QED BY <1>2, <1>3, Induction
<1> QED BY <1>1, <1>4 DEF Runs

\* The sockets of the pool can be listed.
LEMMA PooledListed ==
    ASSUME NEW s
    PROVE  \E n \in Nat : /\ DOMAIN SetToSeq(Pooled(s)) = 1..n
                          /\ \A i \in 1..n : SetToSeq(Pooled(s))[i] \in Fd
<1>1. IsFiniteSet(Pooled(s))
  BY FS_Subset, TelnetAssumption DEF Pooled, TelnetAssumption
<1> DEFINE n == Cardinality(Pooled(s))
<1>2. n \in Nat /\ ExistsBijection(1..n, Pooled(s))
  BY <1>1, FS_CardinalityType
<1> HIDE DEF n
<1>3. PICK f \in [1..n -> Pooled(s)] : IsInjective(f)
  BY <1>2 DEF ExistsBijection, Bijection, Injection, IsInjective
<1>4. SetToSeq(Pooled(s)) \in [1..n -> Pooled(s)]
  BY <1>3 DEF SetToSeq, n
<1> QED BY <1>2, <1>4 DEF Pooled

\* main after its loop leaves no client.
LEMMA EverythingClosed ==
    ASSUME NEW s, Shape(s), Calm(s), NEW u, u = UnloadPlugins(s),
           NEW t, t = CloseAll(u, SetToSeq(Pooled(u)))
    PROVE  Shape(t) /\ Live(t) = {}
<1>1. PICK told, left : /\ told = SendAll(s, s.clients)
                        /\ left = DisconnectAll(told, told.clients)
                        /\ u = DisconnectAll(left, left.drivers)
  BY Unloaded
<1>2. /\ Shape(told) /\ told.client = s.client
      /\ \A c \in Live(told) : told.pool[told.client[c].fd].queued
  BY <1>1, AllTold
<1>3. Calm(told)
  BY <1>2, CalmKept
<1>4. Shape(left) /\ Live(left) = {}
  BY <1>1, <1>2, <1>3, AllDisconnected
<1>5. u = left
  BY <1>1, <1>4, NoneLeft
<1>6. PICK n \in Nat : /\ DOMAIN SetToSeq(Pooled(u)) = 1..n
                       /\ \A i \in 1..n : SetToSeq(Pooled(u))[i] \in Fd
  BY PooledListed
<1> QED BY <1>4, <1>5, <1>6, AllClosed
-----------------------------------------------------------------------------
(* The invariant.                                                          *)

\* Between two handlers everything is in its place and the program has not
\* used what was freed.
IInv ==
    /\ Shape(sys) /\ Calm(sys)
    /\ mode \in {"running", "breaking", "draining", "ended", "killed"}

\* The program starts without clients.
LEMMA InitIInv == Init => IInv
<1> SUFFICES ASSUME Init PROVE IInv
  OBVIOUS
<1>1. \A c \in Client : sys.client[c] = None
  BY DEF Init
<1>2. \A fd \in Fd : sys.pool[fd] = None
  BY DEF Init
<1>3. Live(sys) = {} /\ Pooled(sys) = {}
  BY <1>1, <1>2 DEF Live, Pooled
<1>4. sys \in System
  <2>1. <<>> \in Seq(Client)
    BY EmptySeq
  <2> QED BY <2>1 DEF Init, System
<1>5. sys.clients = <<>> /\ sys.drivers = <<>>
  BY DEF Init
<1>6. IsInjective(sys.clients) /\ Range(sys.clients) = {}
  BY <1>5 DEF IsInjective, Range
<1>7. Shape(sys)
  BY <1>3, <1>4, <1>5, <1>6 DEF Shape
<1> QED BY <1>3, <1>7 DEF IInv, Calm, Init

\* Accept.
LEMMA AcceptIInv ==
    ASSUME IInv, NEW c \in Client, NEW fd \in Fd, Accept(c, fd)
    PROVE  IInv'
<1>1. PICK t : t = AcceptClient(sys, c, fd)
  OBVIOUS
<1>2. c \notin Live(sys) /\ fd \notin sys.open /\ sys' = t /\ mode' = mode
      /\ guarded' = guarded
  BY <1>1 DEF Accept
<1>3. Shape(t) /\ Calm(t)
  BY <1>1, <1>2, Accepted DEF IInv
<1> QED BY <1>2, <1>3 DEF IInv, Calm, Cleared, Shape, Live, Pooled

\* Receive: neither the socket nor the client is used after it was freed.
LEMMA ReceiveIInv ==
    ASSUME IInv, NEW fd \in Fd, NEW line \in Line, NEW known \in BOOLEAN,
           Receive(fd, line, known)
    PROVE  IInv'
<1>1. PICK c : c = sys.pool[fd].handler
  OBVIOUS
<1>2. fd \in Pooled(sys) /\ c # None /\ guarded' = guarded
  BY <1>1 DEF Receive
<1>3. c \in Live(sys) /\ sys.client[c].fd = fd
  BY <1>1, <1>2 DEF IInv, Shape
<1>4. PICK t : t = Received(sys, c, line, known)
  OBVIOUS
<1>5. sys' = t
  BY <1>1, <1>3, <1>4 DEF Receive
<1>6. /\ Shape(t) /\ Calm(t) /\ fd \in Pooled(t)
      /\ c \in Live(t) \/ t.pool[fd].closing
  BY <1>3, <1>4, LineReceived DEF IInv
<1>7. Survives(sys, c, line)
  BY <1>3, CommandSurvived DEF IInv
<1>8. mode' \in {mode, "breaking"}
  BY <1>1, <1>3, <1>4, <1>6, <1>7 DEF Receive
<1> QED BY <1>2, <1>5, <1>6, <1>8 DEF IInv, Calm, Cleared

\* main after its loop.
LEMMA CloseIInv ==
    ASSUME IInv, Close
    PROVE  IInv'
<1>1. PICK u : u = UnloadPlugins(sys)
  OBVIOUS
<1>2. PICK t : t = CloseAll(u, SetToSeq(Pooled(u)))
  OBVIOUS
<1>3. sys' = CloseAll(UnloadPlugins(sys), SetToSeq(Pooled(UnloadPlugins(sys))))
  BY DEF Close, CloseAll, FoldLeft, MapThenFoldSet
<1>4. sys' = t
  BY <1>1, <1>2, <1>3
<1>5. Shape(t) /\ Live(t) = {}
  BY <1>1, <1>2, EverythingClosed DEF IInv
<1>6. mode' = "draining"
  BY DEF Close
<1> QED BY <1>4, <1>5, <1>6 DEF IInv, Calm

\* Write: the socket that is closed at last has no handler.
LEMMA WriteIInv ==
    ASSUME IInv, NEW fd \in Fd, Write(fd)
    PROVE  IInv'
<1>1. /\ fd \in Pooled(sys) /\ ~sys.pool[fd].gone /\ Shape(sys)
      /\ sys.pool[fd] \in SocketRec
  BY Structures DEF IInv, Write
<1>2. PICK k : k = [sys.pool[fd] EXCEPT !.queued = FALSE]
  OBVIOUS
<1>3. /\ k \in SocketRec /\ k.handler = sys.pool[fd].handler
      /\ k.closing = sys.pool[fd].closing /\ k.gone = sys.pool[fd].gone
  BY <1>1, <1>2 DEF SocketRec
<1>4. sys.pool[fd].closing => sys.pool[fd].handler = None
  BY <1>1 DEF Shape
<1>5. PICK s : s = [sys EXCEPT !.pool = [sys.pool EXCEPT ![fd] = k]]
  OBVIOUS
<1>6. Shape(s) /\ s.client = sys.client /\ Pooled(s) = Pooled(sys) /\ s.pool[fd] = k
  <2>1. k.closing => k.handler = None \/ k.gone
    BY <1>3, <1>4
  <2> QED BY <1>1, <1>3, <1>5, <2>1, SocketChanged
<1>7. sys' = IF sys.pool[fd].closing THEN PoolClose(s, fd) ELSE s
  BY <1>2, <1>5 DEF Write
<1>8. PICK t : t = sys'
  OBVIOUS
<1>9. Shape(t) /\ t.client = sys.client
  <2>1. CASE sys.pool[fd].closing
    <3>1. t = PoolClose(s, fd)
      BY <1>7, <1>8, <2>1
    <3>2. s.pool[fd].handler = None
      BY <1>3, <1>4, <1>6, <2>1
    <3>3. Shape(t) /\ t.client = s.client
      BY <1>6, <3>1, <3>2, SocketClosed
    <3> QED BY <1>6, <3>3
  <2>2. CASE ~sys.pool[fd].closing
    BY <1>6, <1>7, <1>8, <2>2
  <2> QED BY <2>1, <2>2
<1>10. Calm(t)
  BY <1>9, CalmKept DEF IInv
<1>11. mode' = mode /\ guarded' = guarded
  BY DEF Write
<1> QED BY <1>8, <1>9, <1>10, <1>11 DEF IInv, Calm, Cleared

\* WriteFails.
LEMMA WriteFailsIInv ==
    ASSUME IInv, NEW fd \in Fd, WriteFails(fd)
    PROVE  IInv'
<1>1. fd \in Pooled(sys) /\ sys.pool[fd].queued /\ sys.pool[fd].gone /\ guarded' = guarded
  BY DEF WriteFails
<1>2. CASE sys' = PoolClose(sys, fd) /\ mode' = mode
  <2>1. PICK t : t = PoolClose(sys, fd)
    OBVIOUS
  <2>2. Shape(t) /\ t.client = sys.client
    BY <1>1, <2>1, SocketClosed DEF IInv
  <2>3. Calm(t)
    BY <2>2, CalmKept DEF IInv
  <2> QED BY <1>1, <1>2, <2>1, <2>2, <2>3 DEF IInv, Calm, Cleared
<1>3. CASE sys' = sys /\ mode' = "killed"
  BY <1>1, <1>3 DEF IInv, Calm, Cleared
<1> QED BY <1>2, <1>3 DEF WriteFails

\* PeerGoes.
LEMMA PeerGoesIInv ==
    ASSUME IInv, NEW fd \in Fd, PeerGoes(fd)
    PROVE  IInv'
<1>1. fd \in Pooled(sys) /\ Shape(sys) /\ sys.pool[fd] \in SocketRec
  BY Structures DEF IInv, PeerGoes
<1>2. PICK k : k = [sys.pool[fd] EXCEPT !.gone = TRUE]
  OBVIOUS
<1>3. k \in SocketRec /\ k.handler = sys.pool[fd].handler /\ k.gone
  BY <1>1, <1>2 DEF SocketRec
<1>4. PICK t : t = [sys EXCEPT !.pool = [sys.pool EXCEPT ![fd] = k]]
  OBVIOUS
<1>5. Shape(t) /\ t.client = sys.client
  <2>1. k.closing => k.handler = None \/ k.gone
    BY <1>3
  <2> QED BY <1>1, <1>3, <1>4, <2>1, SocketChanged
<1>6. Calm(t)
  BY <1>5, CalmKept DEF IInv
<1>7. sys' = t /\ mode' = mode /\ guarded' = guarded
  BY <1>2, <1>4 DEF PeerGoes
<1> QED BY <1>5, <1>6, <1>7 DEF IInv, Calm, Cleared

\* Every step keeps the invariant.
LEMMA NextIInv == IInv /\ [Next]_vars => IInv'
<1> SUFFICES ASSUME IInv, [Next]_vars PROVE IInv'
  OBVIOUS
<1>1. ASSUME NEW c \in Client, NEW fd \in Fd, Accept(c, fd)
      PROVE  IInv'
  BY <1>1, AcceptIInv
<1>2. ASSUME NEW fd \in Fd, NEW line \in Line, NEW known \in BOOLEAN, Receive(fd, line, known)
      PROVE  IInv'
  BY <1>2, ReceiveIInv
<1>3. CASE Interrupt
  BY <1>3 DEF IInv, Interrupt, Calm, Cleared
<1>4. CASE Close
  BY <1>4, CloseIInv
<1>5. CASE Stop
  BY <1>5 DEF IInv, Stop, Calm, Cleared
<1>6. ASSUME NEW fd \in Fd, Write(fd) \/ WriteFails(fd) \/ PeerGoes(fd)
      PROVE  IInv'
  BY <1>6, WriteIInv, WriteFailsIInv, PeerGoesIInv
<1>7. CASE UNCHANGED vars
  BY <1>7 DEF IInv, vars, Calm, Cleared
<1> QED BY <1>1, <1>2, <1>3, <1>4, <1>5, <1>6, <1>7 DEF Next

\* The lists, the clients and the sockets are as Coherent says.
LEMMA CoherentShape == IInv => Coherent
<1> SUFFICES ASSUME IInv PROVE Coherent
  OBVIOUS
<1>1. Shape(sys) /\ Calm(sys)
  BY DEF IInv
<1>2. \A c \in Live(sys) : sys.client[c] \in ClientRec
  BY <1>1, Structures
<1>3. TypeOK
  <2>1. \A c \in Live(sys) :
          /\ sys.client[c].state \in {"prompt", "interactive"}
          /\ sys.client[c].callback \in {"login", "password"}
          /\ sys.client[c].fd \in Fd
    BY <1>1, <1>2 DEF Calm, ClientRec
  <2>2. Live(sys) \subseteq Client /\ Pooled(sys) \subseteq Fd
    BY DEF Live, Pooled
  <2> QED BY <2>1, <2>2 DEF TypeOK, IInv
<1>4. Len(sys.clients) = Cardinality(Live(sys))
  <2>1. sys.clients \in Seq(Client) /\ IsInjective(sys.clients) /\ Range(sys.clients) = Live(sys)
    BY <1>1 DEF Shape, System
  <2> DEFINE n == Len(sys.clients)
  <2>2. n \in Nat /\ DOMAIN sys.clients = 1..n
    BY <2>1, LenProperties
  <2>3. sys.clients = [i \in 1..n |-> sys.clients[i]]
    BY <2>1, <2>2, LenProperties
  <2> HIDE DEF n
  <2>4. sys.clients \in [1..n -> Live(sys)]
    BY <2>1, <2>2, <2>3 DEF Range
  <2>5. sys.clients \in Bijection(1..n, Live(sys))
    BY <2>1, <2>2, <2>4 DEF Bijection, Injection, Surjection, IsInjective, Range
  <2>6. ExistsBijection(1..n, Live(sys))
    BY <2>5 DEF ExistsBijection
  <2> QED BY <2>2, <2>6, FS_CountingElements DEF n
<1> QED BY <1>1, <1>3, <1>4 DEF Coherent, Shape

-----------------------------------------------------------------------------
(* The theorems.                                                           *)

\* In every reachable state the invariant holds.
LEMMA AlwaysIInv == Spec => []IInv
BY InitIInv, NextIInv, PTL DEF Spec

\* telnet_disconnect and telnet_socket_disconnect keep the list of the service,
\* that of the driver, the clients and the handlers of their sockets together.
THEOREM TelnetCoherent == Spec => []Coherent
BY AlwaysIInv, CoherentShape, PTL

\* What telnet_socket_disconnect adds to the pool again has not been closed.
THEOREM TelnetDescriptors == Spec => []NoDeadDescriptor
<1>1. IInv => NoDeadDescriptor
  BY DEF IInv, Shape, NoDeadDescriptor
<1> QED BY <1>1, AlwaysIInv, PTL

\* telnet_process_command and telnet_socket_client_receive go on only with a
\* client and a socket that the command has left in place.
THEOREM TelnetMemorySafe == Spec => []MemorySafe
<1>1. IInv => MemorySafe
  BY DEF IInv, MemorySafe
<1> QED BY <1>1, AlwaysIInv, PTL

\* Where users_telnetconnected asks for a login, no client gets to a prompt
\* before users_telnetpasswreceive has let it in.
THEOREM TelnetLoggedIn == Spec => []LoggedIn
<1>1. IInv => LoggedIn
  BY DEF IInv, Calm, Cleared, LoggedIn
<1> QED BY <1>1, AlwaysIInv, PTL

-----------------------------------------------------------------------------
(* The screen of a telnet client.                                          *)

\* The bytes of a burst and the bytes of an echo are gone through one by one.
LEMMA BytesRun ==
    ASSUME NEW k \in 3..4, NEW base, NEW list, NEW n \in Nat, DOMAIN list = 1..n, NEW t,
           t = IF k = 3 THEN ShowAll(base, list) ELSE FoldLeft(Byte, base, list)
    PROVE  \E h : Runs(k, base, list, n, h, t)
<1>1. \E g : Loop(k, base, list, n, g)
  BY LoopFunction
<1>0. \A s : Max(s) = Max(s)
  BY DEF Max, Max
<1>2. \E g : Loop(k, base, list, n, g) /\ g[1..n] = t
  <2>1. CASE k = 3
    <3>1. \A a, x : Turn(k, a, x) = Show(a, x)
      BY <2>1 DEF Turn
    <3>2. \A e : Loop(k, base, list, n, e) <=>
                    e = [s \in SUBSET (1..n) |->
                            IF s = {} THEN base ELSE Show(e[s \ {Max(s)}], list[Max(s)])]
      BY <1>0, <3>1 DEF Loop
    <3> DEFINE It == CHOOSE e : e = [s \in SUBSET (1..n) |->
                          IF s = {} THEN base ELSE Show(e[s \ {Max(s)}], list[Max(s)])]
    <3>3. It = [s \in SUBSET (1..n) |->
                  IF s = {} THEN base ELSE Show(It[s \ {Max(s)}], list[Max(s)])]
      BY <1>1, <3>2
    <3>4. ShowAll(base, list) = It[1..n]
      BY DEF ShowAll, FoldLeft, MapThenFoldSet
    <3> HIDE DEF It
    <3>5. Loop(k, base, list, n, It)
      BY <3>2, <3>3
    <3>6. t = It[1..n]
      BY <2>1, <3>4
    <3> QED BY <3>5, <3>6
  <2>2. CASE k = 4
    <3>1. \A a, x : Turn(k, a, x) = Byte(a, x)
      BY <2>2 DEF Turn
    <3>2. \A e : Loop(k, base, list, n, e) <=>
                    e = [s \in SUBSET (1..n) |->
                            IF s = {} THEN base ELSE Byte(e[s \ {Max(s)}], list[Max(s)])]
      BY <1>0, <3>1 DEF Loop
    <3> DEFINE It == CHOOSE e : e = [s \in SUBSET (1..n) |->
                          IF s = {} THEN base ELSE Byte(e[s \ {Max(s)}], list[Max(s)])]
    <3>3. It = [s \in SUBSET (1..n) |->
                  IF s = {} THEN base ELSE Byte(It[s \ {Max(s)}], list[Max(s)])]
      BY <1>1, <3>2
    <3>4. FoldLeft(Byte, base, list) = It[1..n]
      BY DEF FoldLeft, MapThenFoldSet
    <3> HIDE DEF It
    <3>5. Loop(k, base, list, n, It)
      BY <3>2, <3>3
    <3>6. t = It[1..n]
      BY <2>2, <3>4
    <3> QED BY <3>5, <3>6
  <2> QED BY <2>1, <2>2
<1>3. PICK g : Loop(k, base, list, n, g) /\ g[1..n] = t
  BY <1>2
<1> QED BY <1>3, LoopStates

Char == 32..255

Screen == [row : Seq(Char), cursor : Nat]

\* A character is printed at the cursor.
LEMMA ShowChar ==
    ASSUME NEW s \in Screen, NEW ch \in Char, s.cursor <= Len(s.row)
    PROVE  /\ Show(s, ch) \in Screen /\ Show(s, ch).cursor = s.cursor + 1
           /\ Len(s.row) \in Nat
           /\ Len(Show(s, ch).row) = IF s.cursor < Len(s.row) THEN Len(s.row) ELSE Len(s.row) + 1
           /\ \A x \in 1..Len(Show(s, ch).row) :
                 Show(s, ch).row[x] = IF x = s.cursor + 1 THEN ch ELSE s.row[x]
<1> DEFINE r == IF s.cursor < Len(s.row) THEN [s.row EXCEPT ![s.cursor + 1] = ch]
                ELSE Append(s.row, ch)
<1>0. ch # 8
  BY DEF Char
<1>1. Show(s, ch) = [row |-> r, cursor |-> s.cursor + 1]
  BY ONLY <1>0 DEF Show
<1>2. s.row \in Seq(Char) /\ s.cursor \in Nat /\ Len(s.row) \in Nat
  BY DEF Screen
<1>3. /\ r \in Seq(Char)
      /\ Len(r) = IF s.cursor < Len(s.row) THEN Len(s.row) ELSE Len(s.row) + 1
      /\ \A x \in 1..Len(r) : r[x] = IF x = s.cursor + 1 THEN ch ELSE s.row[x]
  <2>1. CASE s.cursor < Len(s.row)
    <3>1. s.cursor + 1 \in 1..Len(s.row) /\ r = [s.row EXCEPT ![s.cursor + 1] = ch]
      BY <1>2, <2>1
    <3>2. r \in Seq(Char) /\ Len(r) = Len(s.row)
          /\ \A x \in 1..Len(s.row) : r[x] = IF x = s.cursor + 1 THEN ch ELSE s.row[x]
      BY ONLY <1>2, <3>1, ch \in Char, ExceptSeq
    <3> QED BY <2>1, <3>2
  <2>2. CASE ~(s.cursor < Len(s.row))
    <3>1. r = Append(s.row, ch) /\ s.cursor = Len(s.row)
      BY <1>2, <2>2
    <3>2. /\ Append(s.row, ch) \in Seq(Char) /\ Len(Append(s.row, ch)) = Len(s.row) + 1
          /\ \A x \in 1..Len(s.row) : Append(s.row, ch)[x] = s.row[x]
          /\ Append(s.row, ch)[Len(s.row) + 1] = ch
      BY ONLY <1>2, ch \in Char, AppendProperties
    <3> HIDE DEF r
    <3> QED BY <1>2, <2>2, <3>1, <3>2
  <2> QED BY <2>1, <2>2
<1> HIDE DEF r
<1> QED BY <1>1, <1>2, <1>3 DEF Screen

\* An 8 moves the cursor back.
LEMMA ShowBack ==
    ASSUME NEW s \in Screen, s.cursor > 0
    PROVE  /\ Show(s, 8) \in Screen /\ Show(s, 8).cursor = s.cursor - 1
           /\ Show(s, 8).row = s.row
BY DEF Screen, Show

\* Where the cursor is and how much has been printed after i bytes of an echo, which
\* is a number j of moves back, m characters and moves back.
CursorAt(c, j, m, i) ==
    IF i <= j THEN c - i ELSE IF i <= j + m THEN c - j + (i - j) ELSE c - j + m - (i - j - m)

Printed(j, m, i) == IF i <= j THEN 0 ELSE IF i <= j + m THEN i - j ELSE m

Echoed(s, d, j, m, i, u) ==
    /\ u \in Screen /\ u.cursor = CursorAt(s.cursor, j, m, i)
    /\ Len(u.row) = LET top == s.cursor - j + Printed(j, m, i)
                    IN  IF top > Len(s.row) THEN top ELSE Len(s.row)
    /\ \A x \in 1..Len(u.row) :
          u.row[x] = LET y == x - (s.cursor - j)
                     IN  IF y \in 1..Printed(j, m, i) THEN d[j + y] ELSE s.row[x]

\* One byte more.
LEMMA EchoGoesOn ==
    ASSUME NEW s \in Screen, NEW d, NEW j \in Nat, NEW m \in Nat, NEW k \in Nat,
           j <= s.cursor, s.cursor <= Len(s.row), k <= s.cursor - j + m,
           \A x \in 1..j : d[x] = 8, \A x \in j+1..j+m : d[x] \in Char,
           \A x \in j+m+1..j+m+k : d[x] = 8,
           NEW i \in 1..j+m+k, NEW u, Echoed(s, d, j, m, i - 1, u)
    PROVE  Echoed(s, d, j, m, i, Show(u, d[i]))
<1>0. s.cursor \in Nat /\ Len(s.row) \in Nat /\ i \in Nat /\ i >= 1 /\ i <= j + m + k
  BY DEF Screen
<1>1. PICK p : p = Printed(j, m, i - 1)
  OBVIOUS
<1>2. PICK q : q = Printed(j, m, i)
  OBVIOUS
<1>3. PICK b : b = s.cursor - j
  OBVIOUS
<1>4. /\ b \in Nat /\ p \in Nat /\ q \in Nat
      /\ p = IF i - 1 <= j THEN 0 ELSE IF i - 1 <= j + m THEN i - 1 - j ELSE m
      /\ q = IF i <= j THEN 0 ELSE IF i <= j + m THEN i - j ELSE m
  BY <1>0, <1>1, <1>2, <1>3 DEF Printed
<1>5. /\ u \in Screen /\ u.cursor = CursorAt(s.cursor, j, m, i - 1)
      /\ u.row \in Seq(Char) /\ Len(u.row) \in Nat
      /\ Len(u.row) = IF b + p > Len(s.row) THEN b + p ELSE Len(s.row)
      /\ \A x \in 1..Len(u.row) : u.row[x] = IF x - b \in 1..p THEN d[j + (x - b)] ELSE s.row[x]
  BY <1>1, <1>3 DEF Echoed, Screen
<1>6. CASE i <= j \/ i > j + m
  <2>1. d[i] = 8 /\ q = p
    BY <1>0, <1>4, <1>6
  <2>2. u.cursor > 0 /\ u.cursor - 1 = CursorAt(s.cursor, j, m, i)
    BY <1>0, <1>5, <1>6 DEF CursorAt
  <2>3. PICK v : v = Show(u, d[i])
    OBVIOUS
  <2>4. v \in Screen /\ v.cursor = u.cursor - 1 /\ v.row = u.row
    BY <1>5, <2>1, <2>2, <2>3, ShowBack
  <2>5. Echoed(s, d, j, m, i, v)
    BY <1>2, <1>3, <1>5, <2>1, <2>2, <2>4 DEF Echoed
  <2> QED BY <2>3, <2>5
<1>7. CASE i > j /\ i <= j + m
  <2>1. d[i] \in Char /\ q = p + 1 /\ p = i - 1 - j
    BY <1>0, <1>4, <1>7
  <2>2. u.cursor = b + p /\ CursorAt(s.cursor, j, m, i) = b + q
    BY <1>0, <1>3, <1>5, <1>7, <2>1 DEF CursorAt
  <2>3. u.cursor <= Len(u.row)
    <3>1. PICK a : a = Len(u.row)
      OBVIOUS
    <3>2. PICK z : z = Len(s.row)
      OBVIOUS
    <3>3. a = (IF b + p > z THEN b + p ELSE z) /\ a \in Nat /\ z \in Nat
      BY <1>0, <1>5, <3>1, <3>2
    <3>4. b + p <= a
      BY ONLY <1>4, <3>3
    <3> QED BY <2>2, <3>1, <3>4
  <2>4. PICK v : v = Show(u, d[i])
    OBVIOUS
  <2>5. /\ v \in Screen /\ v.cursor = u.cursor + 1
        /\ Len(v.row) = IF u.cursor < Len(u.row) THEN Len(u.row) ELSE Len(u.row) + 1
        /\ \A x \in 1..Len(v.row) : v.row[x] = IF x = u.cursor + 1 THEN d[i] ELSE u.row[x]
    <3>1. PICK ch \in Char : ch = d[i]
      BY <2>1
    <3> QED BY ONLY <1>5, <2>3, <2>4, <3>1, ShowChar
  <2>6. v.cursor = CursorAt(s.cursor, j, m, i)
    BY <1>4, <2>1, <2>2, <2>5
  <2>7. Len(v.row) = IF b + q > Len(s.row) THEN b + q ELSE Len(s.row)
    <3>1. PICK a : a = Len(u.row)
      OBVIOUS
    <3>2. PICK z : z = Len(s.row)
      OBVIOUS
    <3>3. a = (IF b + p > z THEN b + p ELSE z) /\ a \in Nat /\ z \in Nat
      BY <1>0, <1>5, <3>1, <3>2
    <3>4. Len(v.row) = IF b + p < a THEN a ELSE a + 1
      BY <2>2, <2>5, <3>1
    <3>5. Len(v.row) = IF b + q > z THEN b + q ELSE z
      BY ONLY <1>4, <2>1, <3>3, <3>4
    <3> QED BY <3>2, <3>5
  <2>8. ASSUME NEW x \in 1..Len(v.row)
        PROVE  v.row[x] = IF x - b \in 1..q THEN d[j + (x - b)] ELSE s.row[x]
    <3>0. Len(v.row) \in Nat /\ x \in Nat /\ x >= 1 /\ x <= Len(v.row)
      BY <1>0, <1>4, <2>7
    <3>1. CASE x = u.cursor + 1
      <4>1. v.row[x] = d[i]
        BY <2>5, <3>1
      <4>2. x - b = q /\ q \in 1..q /\ j + (x - b) = i
        BY <1>0, <1>4, <2>1, <2>2, <3>1
      <4> QED BY <4>1, <4>2
    <3>2. CASE x # u.cursor + 1
      <4>1. v.row[x] = u.row[x]
        BY <2>5, <3>2
      <4>3. x \in 1..Len(u.row)
        <5>1. PICK a : a = Len(u.row)
          OBVIOUS
        <5>2. PICK c : c = u.cursor
          OBVIOUS
        <5>6. c \in Nat
          BY ONLY <1>4, <2>2, <5>2
        <5>7. a \in Nat /\ c <= a /\ x # c + 1
          BY ONLY <1>5, <2>3, <3>2, <5>1, <5>2
        <5>3. a \in Nat /\ c \in Nat /\ c <= a /\ x # c + 1 /\ x \in Nat /\ x >= 1
          BY ONLY <3>0, <5>6, <5>7
        <5>4. x <= IF c < a THEN a ELSE a + 1
          BY <2>5, <3>0, <5>1, <5>2
        <5>5. x \in 1..a
          BY ONLY <5>3, <5>4
        <5> QED BY <5>1, <5>5
      <4>2. x - b \in 1..q <=> x - b \in 1..p
        BY <1>4, <2>1, <2>2, <3>0, <3>2
      <4> QED BY <1>5, <4>1, <4>2, <4>3
    <3> QED BY <3>1, <3>2
  <2>9. Echoed(s, d, j, m, i, v)
    BY <1>2, <1>3, <2>5, <2>6, <2>7, <2>8 DEF Echoed
  <2> QED BY <2>4, <2>9
<1> QED BY <1>0, <1>6, <1>7

\* What an echo does to the screen.
LEMMA EchoShown ==
    ASSUME NEW s \in Screen, NEW d, NEW j \in Nat, NEW m \in Nat, NEW k \in Nat,
           j <= s.cursor, s.cursor <= Len(s.row), k <= s.cursor - j + m,
           DOMAIN d = 1..j+m+k,
           \A x \in 1..j : d[x] = 8, \A x \in j+1..j+m : d[x] \in Char,
           \A x \in j+m+1..j+m+k : d[x] = 8
    PROVE  Echoed(s, d, j, m, j + m + k, ShowAll(s, d))
<1>0. s.cursor \in Nat /\ Len(s.row) \in Nat /\ j + m + k \in Nat
  BY DEF Screen
<1>1. PICK n : n = j + m + k
  OBVIOUS
<1>2. PICK h : Runs(3, s, d, n, h, ShowAll(s, d))
  <2>1. 3 \in 3..4 /\ n \in Nat /\ DOMAIN d = 1..n
    BY <1>0, <1>1
  <2> QED BY <2>1, BytesRun
<1>3. h[0] = s /\ h[n] = ShowAll(s, d) /\ \A i \in 1..n : h[i] = Show(h[i-1], d[i])
  BY <1>2 DEF Runs, Turn
<1> DEFINE Bad == {i \in 0..n : ~Echoed(s, d, j, m, i, h[i])}
<1>4. SUFFICES ASSUME Bad # {} PROVE FALSE
  <2>1. n \in 0..n
    BY <1>0, <1>1
  <2> QED BY <1>1, <1>3, <1>4, <2>1
<1>5. PICK i \in Bad : \A x \in Bad : i <= x
  <2>1. Bad \in SUBSET Nat
    OBVIOUS
  <2> HIDE DEF Bad
  <2> QED BY <1>4, <2>1, LeastPosition
<1>6. CASE i = 0
  <2>1. Printed(j, m, 0) = 0 /\ CursorAt(s.cursor, j, m, 0) = s.cursor
    BY <1>0 DEF Printed, CursorAt
  <2>2. Echoed(s, d, j, m, 0, s)
    <3>1. Len(s.row) = LET top == s.cursor - j + 0
                       IN  IF top > Len(s.row) THEN top ELSE Len(s.row)
      BY <1>0
    <3>2. \A x \in 1..Len(s.row) : x - (s.cursor - j) \notin 1..0
      OBVIOUS
    <3> QED BY <2>1, <3>1, <3>2 DEF Echoed
  <2> QED BY <1>3, <1>6, <2>2
<1>7. CASE i # 0
  <2>1. i \in 1..n /\ i - 1 \in 0..n /\ i - 1 \notin Bad
    BY <1>0, <1>1, <1>5, <1>7
  <2>2. PICK u : u = h[i - 1]
    OBVIOUS
  <2>3. Echoed(s, d, j, m, i - 1, u)
    BY <2>1, <2>2
  <2>4. i \in 1..j+m+k
    BY <1>1, <2>1
  <2>5. Echoed(s, d, j, m, i, Show(u, d[i]))
    BY <2>3, <2>4, EchoGoesOn
  <2> QED BY <1>3, <2>1, <2>2, <2>5
<1> QED BY <1>6, <1>7

\* A line on the screen: the line and blanks behind it.
Want(l, x) == IF x <= Len(l) THEN l[x] ELSE 32

Displays(s, l, p) ==
    /\ s \in Screen /\ s.cursor = p /\ Len(l) <= Len(s.row)
    /\ \A x \in 1..Len(s.row) : s.row[x] = Want(l, x)

\* The screen displays a line when what was not printed is right and what was too.
LEMMA Redrawn ==
    ASSUME NEW s \in Screen, NEW d, NEW j \in Nat, NEW m \in Nat, NEW k \in Nat,
           j <= s.cursor, s.cursor <= Len(s.row), k <= s.cursor - j + m,
           DOMAIN d = 1..j+m+k,
           \A x \in 1..j : d[x] = 8, \A x \in j+m+1..j+m+k : d[x] = 8,
           NEW l \in Seq(Char), NEW b, b = s.cursor - j,
           Len(l) <= Len(s.row) \/ Len(l) <= b + m,
           \A x \in 1..Len(s.row) : x \notin b+1..b+m => s.row[x] = Want(l, x),
           \A y \in 1..m : d[j + y] = Want(l, b + y),
           NEW p, p = b + m - k
    PROVE  Displays(ShowAll(s, d), l, p)
<1>0. /\ s.cursor \in Nat /\ s.row \in Seq(Char) /\ Len(s.row) \in Nat /\ b \in Nat
      /\ Len(l) \in Nat /\ \A x \in 1..Len(l) : l[x] \in Char
  <2>1. s.cursor \in Nat /\ s.row \in Seq(Char) /\ Len(s.row) \in Nat
    BY DEF Screen
  <2>2. b \in Nat
    BY <2>1
  <2> QED BY <2>1, <2>2, ElementOfSeq
<1>1. \A x \in Nat \ {0} : Want(l, x) \in Char
  BY <1>0 DEF Want, Char
<1>2. \A x \in j+1..j+m : d[x] \in Char
  <2>1. ASSUME NEW x \in j+1..j+m PROVE d[x] \in Char
    <3>1. PICK y \in 1..m : x = j + y
      <4>1. x - j \in 1..m /\ x = j + (x - j)
        OBVIOUS
      <4> QED BY <4>1
    <3>2. b + y \in Nat \ {0}
      <4>1. b \in Nat /\ m \in Nat /\ y \in 1..m
        BY <1>0
      <4> QED BY ONLY <4>1
    <3>3. d[x] = Want(l, b + y)
      BY <3>1
    <3> QED BY <1>1, <3>2, <3>3
  <2> QED BY <2>1
<1>3. PICK r : r = ShowAll(s, d)
  OBVIOUS
<1>4. Echoed(s, d, j, m, j + m + k, r)
  BY <1>2, <1>3, EchoShown
<1>5. Printed(j, m, j + m + k) = m
  BY DEF Printed
<1>6. CursorAt(s.cursor, j, m, j + m + k) = p
  <2>1. PICK c : c = s.cursor
    OBVIOUS
  <2>2. c \in Nat /\ p = c - j + m - k
    BY <1>0, <2>1
  <2>3. CursorAt(c, j, m, j + m + k) = c - j + m - k
    BY ONLY <2>2, j \in Nat, m \in Nat, k \in Nat DEF CursorAt
  <2> QED BY <2>1, <2>2, <2>3
<1>7. /\ r \in Screen /\ r.cursor = p
      /\ Len(r.row) = IF b + m > Len(s.row) THEN b + m ELSE Len(s.row)
      /\ \A x \in 1..Len(r.row) : r.row[x] = IF x - b \in 1..m THEN d[j + (x - b)] ELSE s.row[x]
  BY <1>4, <1>5, <1>6 DEF Echoed
<1> DEFINE n == Len(l)
           old == Len(s.row)
           new == Len(r.row)
<1>10. /\ n \in Nat /\ old \in Nat /\ new = IF b + m > old THEN b + m ELSE old
       /\ n <= old \/ n <= b + m
  BY <1>0, <1>7
<1> HIDE DEF n, old, new
<1>8. n <= new /\ new \in Nat /\ (new > old => new = b + m)
  BY ONLY <1>0, <1>10, m \in Nat
<1>9. ASSUME NEW x \in 1..Len(r.row) PROVE r.row[x] = Want(l, x)
  <2>0. x \in Nat /\ x >= 1 /\ x <= Len(r.row)
    BY <1>8 DEF new
  <2>1. CASE x - b \in 1..m
    <3>1. PICK y \in 1..m : y = x - b
      BY <2>1
    <3>2. b + y = x
      BY <1>0, <2>0, <3>1
    <3> QED BY <1>7, <2>1, <3>1, <3>2
  <2>2. CASE x - b \notin 1..m
    <3>1. x \notin b+1..b+m
      BY ONLY <1>0, <2>0, <2>2, m \in Nat
    <3>3. x <= new
      BY <2>0 DEF new
    <3>5. b <= old
      BY <1>0 DEF old
    <3>4. x \in 1..old
      <4>1. b \in Nat /\ x \in Nat /\ x >= 1
        BY <1>0, <2>0
      <4> QED BY ONLY <1>8, <1>10, <3>1, <3>3, <3>5, <4>1, m \in Nat
    <3>2. x \in 1..Len(s.row)
      BY <3>4 DEF old
    <3> QED BY <1>7, <2>2, <3>1, <3>2
  <2> QED BY <2>1, <2>2
<1> QED BY <1>3, <1>7, <1>8, <1>9 DEF Displays, n, new

-----------------------------------------------------------------------------
(* The line of a telnet client.                                            *)

Edit == [line : Seq(Char), pos : Nat, commands : Seq(Seq(Char))]

\* The record of telnet_receiveWithEcho and of the automaton before it.
Reading ==
    [driver : [state : {"normal", "esc", "iac", "do", "dont", "will", "wont", "sb", "width",
                        "height", "till_se"},
               width : Nat, height : Nat],
     edit : Edit, screen : Screen, echo : BOOLEAN, esc : {"code", "param1", "param2"}, code : Nat]

Sound(t) ==
    /\ t \in Reading /\ t.edit.pos <= Len(t.edit.line)
    /\ Displays(t.screen, t.edit.line, t.edit.pos)

Inserted(l, p, ch) == SubSeq(l, 1, p) \o <<ch>> \o SubSeq(l, p + 1, Len(l))

Wider(r, l, p, ch) ==
    /\ Len(r) = Len(l) + 1
    /\ \A x \in 1..p : r[x] = l[x]
    /\ r[p + 1] = ch
    /\ \A x \in p+1..Len(l) : r[x + 1] = l[x]

\* A line with one more character.
LEMMA InsertPositions ==
    ASSUME NEW S, NEW l \in Seq(S), NEW p \in Nat, p <= Len(l), NEW ch \in S, NEW r,
           r = Inserted(l, p, ch)
    PROVE  r \in Seq(S) /\ Wider(r, l, p, ch)
<1>0. PICK n : n = Len(l)
  OBVIOUS
<1>1. n \in Nat /\ \A x \in 1..n : l[x] \in S
  BY <1>0, ElementOfSeq
<1>2. PICK a : a = SubSeq(l, 1, p)
  OBVIOUS
<1>3. PICK b : b = SubSeq(l, p + 1, n)
  OBVIOUS
<1>4. a \in Seq(S) /\ Len(a) = p /\ \A x \in 1..p : a[x] = l[x]
  <2>1. \A x \in 1..p : l[x] \in S
    BY <1>0, <1>1
  <2>2. 1 \in Int /\ p \in Int
    OBVIOUS
  <2>3. /\ a \in Seq(S) /\ Len(a) = IF 1 <= p THEN p - 1 + 1 ELSE 0
        /\ \A x \in 1..(p - 1 + 1) : a[x] = l[1 + x - 1]
    BY ONLY <1>2, <2>1, <2>2, SubSeqProperties
  <2> QED BY <2>3
<1>5. b \in Seq(S) /\ Len(b) = n - p /\ \A x \in 1..n - p : b[x] = l[p + x]
  <2>1. \A x \in p+1..n : l[x] \in S
    BY <1>1
  <2>2. p + 1 \in Int /\ n \in Int
    BY <1>1
  <2>3. /\ b \in Seq(S) /\ Len(b) = IF p + 1 <= n THEN n - (p + 1) + 1 ELSE 0
        /\ \A x \in 1..(n - (p + 1) + 1) : b[x] = l[(p + 1) + x - 1]
    BY ONLY <1>3, <2>1, <2>2, SubSeqProperties
  <2>4. p <= n
    BY <1>0
  <2>5. Len(b) = n - p
    BY ONLY <1>1, <2>3, <2>4, p \in Nat
  <2>6. n - (p + 1) + 1 = n - p /\ \A x \in 1..n - p : (p + 1) + x - 1 = p + x
    BY <1>1
  <2> QED BY <2>3, <2>5, <2>6
<1>6. <<ch>> \in Seq(S) /\ Len(<<ch>>) = 1 /\ <<ch>>[1] = ch
  OBVIOUS
<1>7. PICK c : c = a \o <<ch>>
  OBVIOUS
<1>8. /\ c \in Seq(S) /\ Len(c) = p + 1
      /\ \A x \in 1..p : c[x] = l[x]
      /\ c[p + 1] = ch
  <2>1. /\ c \in Seq(S) /\ Len(c) = Len(a) + Len(<<ch>>)
        /\ \A x \in 1..Len(a) : c[x] = a[x]
        /\ \A x \in 1..Len(<<ch>>) : c[Len(a) + x] = <<ch>>[x]
    BY ONLY <1>4, <1>6, <1>7, ConcatProperties
  <2>2. 1 \in 1..Len(<<ch>>)
    BY <1>6
  <2> QED BY <1>4, <1>6, <2>1, <2>2
<1>9. /\ r \in Seq(S) /\ Len(r) = Len(c) + Len(b)
      /\ \A x \in 1..Len(c) : r[x] = c[x]
      /\ \A x \in 1..Len(b) : r[Len(c) + x] = b[x]
  <2>1. r = c \o b
    BY <1>0, <1>2, <1>3, <1>7 DEF Inserted
  <2>2. b \in Seq(S) /\ c \in Seq(S)
    BY <1>5, <1>8
  <2> QED BY ONLY <2>1, <2>2, ConcatProperties
<1>10. Len(r) = n + 1
  <2>1. Len(r) = (p + 1) + (n - p)
    BY <1>5, <1>8, <1>9
  <2> QED BY ONLY <1>1, <2>1, p \in Nat
<1>11. \A x \in 1..p + 1 : r[x] = c[x]
  BY ONLY <1>8, <1>9
<1>12. ASSUME NEW x \in p+1..n PROVE r[x + 1] = l[x]
  <2>1. PICK y \in 1..n - p : x = p + y
    <3>1. x - p \in 1..n - p /\ x = p + (x - p)
      BY <1>1
    <3> QED BY <3>1
  <2>2. r[(p + 1) + y] = b[y] /\ b[y] = l[p + y]
    BY <1>5, <1>8, <1>9, <2>1
  <2>3. (p + 1) + y = x + 1
    BY <1>1, <2>1
  <2> QED BY <2>1, <2>2, <2>3
<1>13. \A x \in 1..p : r[x] = l[x]
  <2>1. \A x \in 1..p : x \in 1..p + 1
    OBVIOUS
  <2> QED BY <1>8, <1>11, <2>1
<1>14. r[p + 1] = ch
  <2>1. p + 1 \in 1..p + 1
    OBVIOUS
  <2> QED BY <1>8, <1>11, <2>1
<1> QED BY <1>0, <1>9, <1>10, <1>12, <1>13, <1>14 DEF Wider

\* A run of 8s.
LEMMA BackPositions ==
    ASSUME NEW n \in Nat
    PROVE  Back(n) \in Seq(Nat) /\ Len(Back(n)) = n /\ \A x \in 1..n : Back(n)[x] = 8
<1>1. Back(n) = [x \in 1..n |-> 8]
  BY DEF Back, Times
<1>2. \A x \in 1..n : Back(n)[x] = 8
  BY <1>1
<1>3. [x \in 1..n |-> 8] \in Seq(Nat)
  <2>1. \A x \in 1..n : 8 \in Nat
    OBVIOUS
  <2> QED BY <2>1, SeqDef
<1>4. Len(Back(n)) = n
  BY <1>1, <1>3, LenProperties
<1> QED BY <1>1, <1>2, <1>3, <1>4

\* The end of a line.
LEMMA RestPositions ==
    ASSUME NEW l \in Seq(Char), NEW p \in Nat, p <= Len(l), NEW r, r = SubSeq(l, p + 1, Len(l))
    PROVE  /\ r \in Seq(Nat) /\ Len(r) = Len(l) - p
           /\ \A x \in 1..Len(l) - p : r[x] = l[p + x]
<1>0. PICK n : n = Len(l)
  OBVIOUS
<1>1. n \in Nat /\ \A x \in 1..n : l[x] \in Nat
  <2>1. \A x \in 1..n : l[x] \in Char
    BY <1>0, ElementOfSeq
  <2>2. n \in Nat
    BY <1>0
  <2>3. \A ch \in Char : ch \in Nat
    BY DEF Char
  <2> QED BY <2>1, <2>2, <2>3
<1>2. \A x \in p+1..n : l[x] \in Nat
  BY <1>1
<1>3. p + 1 \in Int /\ n \in Int
  BY <1>1
<1>4. /\ r \in Seq(Nat) /\ Len(r) = IF p + 1 <= n THEN n - (p + 1) + 1 ELSE 0
      /\ \A x \in 1..(n - (p + 1) + 1) : r[x] = l[(p + 1) + x - 1]
  BY ONLY <1>0, r = SubSeq(l, p + 1, Len(l)), <1>2, <1>3, SubSeqProperties
<1>5. Len(r) = n - p
  BY <1>0, <1>1, <1>4
<1>6. \A x \in 1..n - p : r[x] = l[p + x]
  BY <1>1, <1>4
<1> QED BY <1>0, <1>4, <1>5, <1>6

\* The parts of a sound record.
LEMMA SoundParts ==
    ASSUME NEW t, Sound(t)
    PROVE  /\ t \in Reading /\ t.edit \in Edit /\ t.screen \in Screen
           /\ t.edit.line \in Seq(Char) /\ t.edit.pos \in Nat /\ Len(t.edit.line) \in Nat
           /\ t.edit.pos <= Len(t.edit.line)
           /\ t.screen.cursor = t.edit.pos /\ Len(t.edit.line) <= Len(t.screen.row)
           /\ t.screen.row \in Seq(Char) /\ Len(t.screen.row) \in Nat
           /\ t.edit.commands \in Seq(Seq(Char))
           /\ \A x \in 1..Len(t.screen.row) : t.screen.row[x] = Want(t.edit.line, x)
<1>1. t \in Reading /\ t.edit \in Edit /\ t.screen \in Screen
  BY DEF Sound, Reading
<1>2. t.edit.line \in Seq(Char) /\ t.edit.pos \in Nat /\ t.edit.commands \in Seq(Seq(Char))
  BY <1>1 DEF Edit
<1>3. t.screen.row \in Seq(Char)
  BY <1>1 DEF Screen
<1>4. Len(t.edit.line) \in Nat /\ Len(t.screen.row) \in Nat
  BY <1>2, <1>3, LenProperties
<1> QED BY <1>1, <1>2, <1>3, <1>4 DEF Sound, Displays

Reedited(t, u, e, s) ==
    /\ u \in Reading /\ u.edit = e /\ u.screen = s /\ u.driver = t.driver
    /\ u.echo = t.echo /\ u.esc = t.esc /\ u.code = t.code

\* Another line on the screen.
LEMMA SoundEdit ==
    ASSUME NEW t \in Reading, NEW e \in Edit, NEW s \in Screen, NEW u,
           u = [t EXCEPT !.edit = e, !.screen = s]
    PROVE  Reedited(t, u, e, s)
<1>1. u \in Reading /\ u.edit = e /\ u.screen = s
  BY DEF Reading
<1>2. u.driver = t.driver /\ u.echo = t.echo /\ u.esc = t.esc /\ u.code = t.code
  BY DEF Reading
<1> QED BY <1>1, <1>2 DEF Reedited

\* A character goes into the line, and is shown there.
LEMMA CharacterShown ==
    ASSUME NEW t, Sound(t), t.echo = TRUE, NEW ch \in Char, NEW u, u = Character(t, ch)
    PROVE  /\ Sound(u) /\ u.driver = t.driver /\ u.echo = t.echo /\ u.esc = t.esc
           /\ u.code = t.code
           /\ u.edit = [line |-> SubSeq(t.edit.line, 1, t.edit.pos) \o <<ch>>
                                 \o SubSeq(t.edit.line, t.edit.pos + 1, Len(t.edit.line)),
                        pos |-> t.edit.pos + 1, commands |-> t.edit.commands]
<1>1. PICK l : l = t.edit.line
  OBVIOUS
<1>2. PICK p : p = t.edit.pos
  OBVIOUS
<1>3. PICK n : n = Len(l)
  OBVIOUS
<1>4. PICK s : s = t.screen
  OBVIOUS
<1>5. /\ l \in Seq(Char) /\ p \in Nat /\ n \in Nat /\ p <= n /\ s \in Screen
      /\ s.cursor = p /\ n <= Len(s.row) /\ Len(s.row) \in Nat
      /\ \A x \in 1..Len(s.row) : s.row[x] = Want(l, x)
  BY <1>1, <1>2, <1>3, <1>4, SoundParts
<1>6. PICK new : new = Inserted(l, p, ch)
  OBVIOUS
<1>7. /\ new \in Seq(Char) /\ Len(new) = n + 1
      /\ \A x \in 1..p : new[x] = l[x]
      /\ new[p + 1] = ch
      /\ \A x \in p+1..n : new[x + 1] = l[x]
  <2>1. p <= Len(l) /\ new = Inserted(l, p, ch)
    BY <1>3, <1>5, <1>6
  <2>2. new \in Seq(Char) /\ Wider(new, l, p, ch)
    <3>1. l \in Seq(Char) /\ p \in Nat /\ ch \in Char
      BY <1>5
    <3> QED BY ONLY <2>1, <3>1, InsertPositions
  <2> QED BY <1>3, <2>2 DEF Wider
<1>8. PICK e : e = [line |-> new, pos |-> p + 1, commands |-> t.edit.commands]
  OBVIOUS
<1>9. e \in Edit /\ e.line = new /\ e.pos = p + 1
  BY <1>5, <1>7, <1>8, SoundParts DEF Edit
<1>10. InsertChar(t.edit, ch) = e
  <2>1. InsertAt(l, p + 1, ch) = new
    <3>1. PICK z : z = p + 1
      OBVIOUS
    <3>2. InsertAt(l, z, ch) = SubSeq(l, 1, z - 1) \o <<ch>> \o SubSeq(l, z, Len(l))
      BY DEF InsertAt
    <3>3. z - 1 = p
      BY <1>5, <3>1
    <3> QED BY ONLY <1>6, <3>1, <3>2, <3>3 DEF Inserted
  <2>2. t.edit \in Edit
    BY SoundParts
  <2>3. InsertChar(t.edit, ch) = [t.edit EXCEPT !.line = new, !.pos = p + 1]
    BY <1>1, <1>2, <2>1, <2>2 DEF InsertChar, Edit
  <2> QED BY <1>8, <2>2, <2>3 DEF Edit
<1>11. PICK rest : rest = SubSeq(new, p + 2, n + 1)
  OBVIOUS
<1>12. PICK back : back = Back(n - p)
  OBVIOUS
<1>13. PICK c : c = <<ch>> \o rest
  OBVIOUS
<1>14. PICK d : d = c \o back
  OBVIOUS
<1>15. d = EchoInsert(e, ch)
  <2>1. (p + 1) + 1 = p + 2 /\ n + 1 - (p + 1) = n - p
    BY <1>5
  <2>2. Rest(e) = rest
    <3>1. Rest(e) = SubSeq(e.line, e.pos + 1, Len(e.line))
      BY DEF Rest
    <3>2. e.pos + 1 = p + 2
      BY <1>9, <2>1
    <3>3. Len(e.line) = n + 1 /\ e.line = new
      BY <1>7, <1>9
    <3> QED BY ONLY <1>11, <3>1, <3>2, <3>3
  <2>3. Back(Len(e.line) - e.pos) = back
    <3>1. Len(e.line) = n + 1 /\ e.pos = p + 1
      BY <1>7, <1>9
    <3>3. p \in Nat /\ n \in Nat
      BY <1>5
    <3>2. Len(e.line) - e.pos = n - p
      BY ONLY <3>1, <3>3
    <3> QED BY <1>12, <3>2
  <2> QED BY <1>13, <1>14, <2>2, <2>3 DEF EchoInsert
<1>16. rest \in Seq(Nat) /\ Len(rest) = n - p /\ \A x \in 1..n - p : rest[x] = new[p + 1 + x]
  <2>1. p + 1 \in Nat /\ p + 1 <= Len(new) /\ rest = SubSeq(new, (p + 1) + 1, Len(new))
    <3>1. (p + 1) + 1 = p + 2
      BY <1>5
    <3> QED BY <1>5, <1>7, <1>11, <3>1
  <2>2. Len(new) - (p + 1) = n - p
    BY <1>5, <1>7
  <2>3. /\ rest \in Seq(Nat) /\ Len(rest) = Len(new) - (p + 1)
        /\ \A x \in 1..Len(new) - (p + 1) : rest[x] = new[(p + 1) + x]
    <3>1. new \in Seq(Char)
      BY <1>7
    <3> QED BY ONLY <2>1, <3>1, RestPositions
  <2> QED BY <2>2, <2>3
<1>17. n - p \in Nat /\ back \in Seq(Nat) /\ Len(back) = n - p /\ \A x \in 1..n - p : back[x] = 8
  <2>1. n - p \in Nat
    BY <1>5
  <2> QED BY <1>12, <2>1, BackPositions
<1>18. ch \in Nat /\ <<ch>> \in Seq(Nat) /\ Len(<<ch>>) = 1 /\ <<ch>>[1] = ch
  <2>1. ch \in Nat
    BY DEF Char
  <2> QED BY <2>1
<1>19. /\ c \in Seq(Nat) /\ Len(c) = n - p + 1 /\ c[1] = ch
       /\ \A x \in 1..n - p : c[1 + x] = rest[x]
  <2>1. /\ c \in Seq(Nat) /\ Len(c) = Len(<<ch>>) + Len(rest)
        /\ \A x \in 1..Len(<<ch>>) : c[x] = <<ch>>[x]
        /\ \A x \in 1..Len(rest) : c[Len(<<ch>>) + x] = rest[x]
    BY ONLY <1>13, <1>16, <1>18, ConcatProperties
  <2>2. 1 \in 1..Len(<<ch>>)
    BY <1>18
  <2> QED BY <1>16, <1>17, <1>18, <2>1, <2>2
<1>20. PICK k : k = n - p
  OBVIOUS
<1>21. PICK m : m = n - p + 1
  OBVIOUS
<1>22. /\ d \in Seq(Nat) /\ Len(d) = m + k
       /\ \A x \in 1..m : d[x] = c[x]
       /\ \A x \in 1..k : d[m + x] = 8
  <2>1. /\ d \in Seq(Nat) /\ Len(d) = Len(c) + Len(back)
        /\ \A x \in 1..Len(c) : d[x] = c[x]
        /\ \A x \in 1..Len(back) : d[Len(c) + x] = back[x]
    <3>1. c \in Seq(Nat) /\ back \in Seq(Nat)
      BY <1>17, <1>19
    <3> QED BY ONLY <1>14, <3>1, ConcatProperties
  <2>2. Len(c) = m /\ Len(back) = k
    BY <1>17, <1>19, <1>20, <1>21
  <2>3. \A x \in 1..k : back[x] = 8
    BY <1>17, <1>20
  <2> QED BY ONLY <2>1, <2>2, <2>3
<1>23. k \in Nat /\ m \in Nat /\ m = k + 1 /\ n = p + k
  BY <1>5, <1>20, <1>21
<1>24. ASSUME NEW y \in 1..m PROVE d[0 + y] = Want(new, p + y)
  <2>1. p + y <= Len(new)
    BY <1>5, <1>7, <1>23
  <2>2. CASE y = 1
    BY <1>5, <1>7, <1>19, <1>22, <2>1, <2>2 DEF Want
  <2>3. CASE y # 1
    <3>1. PICK x \in 1..n - p : y = 1 + x
      <4>1. k = n - p
        BY <1>20
      <4>2. y - 1 \in 1..k /\ y = 1 + (y - 1)
        BY ONLY <1>23, <2>3, y \in 1..m
      <4>3. y - 1 \in 1..n - p
        BY ONLY <4>1, <4>2
      <4> QED BY ONLY <4>2, <4>3
    <3>2. d[y] = new[p + 1 + x]
      BY <1>16, <1>19, <1>22, <3>1
    <3>3. p + 1 + x = p + y /\ 0 + y = y
      BY <1>5, <1>23, <3>1
    <3> QED BY <2>1, <3>2, <3>3 DEF Want
  <2> QED BY <2>2, <2>3
<1>25. ASSUME NEW x \in 1..Len(s.row), x \notin p+1..p+m
       PROVE  s.row[x] = Want(new, x)
  <2>0. x \in Nat /\ x >= 1
    OBVIOUS
  <2>1. x <= p \/ x > n + 1
    BY <1>5, <1>23, <1>25, <2>0
  <2>2. s.row[x] = Want(l, x)
    BY <1>5
  <2>3. CASE x <= p
    BY <1>3, <1>5, <1>7, <2>0, <2>2, <2>3 DEF Want
  <2>4. CASE x > n + 1
    BY <1>3, <1>5, <1>7, <2>0, <2>2, <2>4 DEF Want
  <2> QED BY <2>1, <2>3, <2>4
<1>26. PICK r : r = ShowAll(s, d)
  OBVIOUS
<1>27. Displays(r, new, p + 1)
  <2>0. PICK j : j = 0
    OBVIOUS
  <2>1. /\ j \in Nat /\ j <= s.cursor /\ s.cursor <= Len(s.row) /\ k <= s.cursor - j + m
        /\ p = s.cursor - j /\ Len(new) <= p + m
    BY <1>5, <1>7, <1>23, <2>0
  <2>2. DOMAIN d = 1..j+m+k
    <3>1. j + m + k = m + k
      BY <1>23, <2>0
    <3>2. DOMAIN d = 1..m+k
      BY <1>22, LenProperties
    <3> QED BY ONLY <3>1, <3>2
  <2>3. \A x \in 1..j : d[x] = 8
    BY <2>0
  <2>4. \A x \in j+m+1..j+m+k : d[x] = 8
    <3>1. ASSUME NEW x \in m+1..m+k PROVE d[x] = 8
      <4>1. PICK y \in 1..k : x = m + y
        <5>1. x - m \in 1..k /\ x = m + (x - m)
          BY <1>23
        <5> QED BY <5>1
      <4> QED BY <1>22, <4>1
    <3>2. j + m + 1 = m + 1 /\ j + m + k = m + k
      BY <1>23, <2>0
    <3> QED BY ONLY <3>1, <3>2
  <2>5. \A y \in 1..m : d[j + y] = Want(new, p + y)
    BY <1>24, <2>0
  <2>6. \A x \in 1..Len(s.row) : x \notin p+1..p+m => s.row[x] = Want(new, x)
    BY <1>25
  <2>7. s \in Screen /\ m \in Nat /\ k \in Nat /\ new \in Seq(Char)
    BY <1>5, <1>7, <1>23
  <2>8. PICK z : z = p + m - k
    OBVIOUS
  <2>9. Displays(r, new, z)
    BY ONLY <1>26, <2>1, <2>2, <2>3, <2>4, <2>5, <2>6, <2>7, <2>8, Redrawn
  <2>10. z = p + 1
    BY <1>5, <1>23, <2>8
  <2> QED BY <2>9, <2>10
<1>28. u = [t EXCEPT !.edit = e, !.screen = r]
  <2>1. t \in Reading
    BY SoundParts
  <2>2. u = [t EXCEPT !.edit = e, !.screen = IF t.echo THEN ShowAll(@, d) ELSE @]
    BY <1>10, <1>15 DEF Character
  <2> QED BY <1>4, <1>26, <2>1, <2>2 DEF Reading
<1>29. e.pos <= Len(e.line)
  BY <1>5, <1>7, <1>9
<1>30. /\ Sound(u) /\ u.edit = e /\ u.driver = t.driver
       /\ u.echo = t.echo /\ u.esc = t.esc /\ u.code = t.code
  <2>1. Displays(r, e.line, e.pos) /\ r \in Screen
    BY <1>9, <1>27 DEF Displays
  <2>2. t \in Reading
    BY SoundParts
  <2>3. Reedited(t, u, e, r)
    BY ONLY <1>9, <1>28, <2>1, <2>2, SoundEdit
  <2> QED BY <1>29, <2>1, <2>3 DEF Reedited, Sound
<1> QED BY <1>1, <1>2, <1>6, <1>8, <1>30 DEF Inserted

\* A character goes out of the line, and is shown no more.
LEMMA BackspaceShown ==
    ASSUME NEW t, Sound(t), NEW u, u = Backspace(t)
    PROVE  /\ Sound(u) /\ u.driver = t.driver /\ u.echo = t.echo /\ u.esc = t.esc
           /\ u.code = t.code
           /\ u.edit = IF t.edit.pos = 0 THEN t.edit
                       ELSE [line |-> SubSeq(t.edit.line, 1, t.edit.pos - 1)
                                      \o SubSeq(t.edit.line, t.edit.pos + 1, Len(t.edit.line)),
                             pos |-> t.edit.pos - 1, commands |-> t.edit.commands]
<1>1. PICK l : l = t.edit.line
  OBVIOUS
<1>2. PICK q : q = t.edit.pos
  OBVIOUS
<1>3. PICK n : n = Len(l)
  OBVIOUS
<1>4. PICK s : s = t.screen
  OBVIOUS
<1>5. /\ l \in Seq(Char) /\ q \in Nat /\ n \in Nat /\ q <= n /\ s \in Screen
      /\ s.cursor = q /\ n <= Len(s.row) /\ Len(s.row) \in Nat
      /\ \A x \in 1..Len(s.row) : s.row[x] = Want(l, x)
      /\ t \in Reading /\ t.edit \in Edit
  BY <1>1, <1>2, <1>3, <1>4, SoundParts
<1>6. CASE q = 0
  <2>1. DeleteChar(t.edit) = t.edit
    BY <1>2, <1>6 DEF DeleteChar
  <2>2. u = t
    BY <2>1 DEF Backspace
  <2> QED BY <1>2, <1>6, <2>2
<1>7. CASE q # 0
  <2>0. PICK p : p = q - 1
    OBVIOUS
  <2>1. p \in Nat /\ q = p + 1 /\ p < n /\ q \in 1..n
    BY <1>5, <1>7, <2>0
  <2>2. PICK new : new = RemoveAt(l, q)
    OBVIOUS
  <2>3. /\ new \in Seq(Char) /\ Len(new) = n - 1
        /\ \A x \in 1..n - 1 : new[x] = IF x < q THEN l[x] ELSE l[x + 1]
    <3>1. new = RemoveAt(l, q)
      BY <2>2 DEF RemoveAt, RemoveAt
    <3>2. q \in 1..Len(l)
      BY <1>3, <2>1
    <3> QED BY ONLY <1>3, <1>5, <3>1, <3>2, RemoveAtPositions
  <2>4. PICK e : e = [line |-> new, pos |-> p, commands |-> t.edit.commands]
    OBVIOUS
  <2>5. e \in Edit /\ e.line = new /\ e.pos = p
    BY <1>5, <2>1, <2>3, <2>4 DEF Edit
  <2>6. DeleteChar(t.edit) = e
    <3>1. DeleteChar(t.edit) = [t.edit EXCEPT !.line = new, !.pos = p]
      BY <1>1, <1>2, <1>5, <1>7, <2>0, <2>2 DEF DeleteChar, Edit
    <3> QED BY <1>5, <2>4, <3>1 DEF Edit
  <2>7. e # t.edit
    <3>1. e.pos # t.edit.pos
      BY <1>2, <2>1, <2>5
    <3> QED BY <3>1
  <2>8. PICK m : m = n - p
    OBVIOUS
  <2>9. m \in Nat /\ m >= 1 /\ n = p + m /\ m - 1 \in Nat
    BY <1>5, <2>1, <2>8
  <2>10. PICK rest : rest = SubSeq(new, p + 1, Len(new))
    OBVIOUS
  <2>11. rest \in Seq(Nat) /\ Len(rest) = m - 1 /\ \A x \in 1..m - 1 : rest[x] = new[p + x]
    <3>1. p <= Len(new) /\ Len(new) - p = m - 1
      BY <1>5, <2>1, <2>3, <2>9
    <3>2. /\ rest \in Seq(Nat) /\ Len(rest) = Len(new) - p
          /\ \A x \in 1..Len(new) - p : rest[x] = new[p + x]
      BY ONLY <2>1, <2>3, <2>10, <3>1, RestPositions
    <3> QED BY <3>1, <3>2
  <2>12. PICK back : back = Back(m)
    OBVIOUS
  <2>13. back \in Seq(Nat) /\ Len(back) = m /\ \A x \in 1..m : back[x] = 8
    BY <2>9, <2>12, BackPositions
  <2>14. PICK a : a = <<8>> \o rest
    OBVIOUS
  <2>15. PICK c : c = a \o <<32>>
    OBVIOUS
  <2>16. PICK d : d = c \o back
    OBVIOUS
  <2>17. d = EchoDelete(e)
    <3>1. Len(e.line) - e.pos + 1 = m
      <4>1. Len(e.line) = n - 1 /\ e.pos = p
        BY <2>3, <2>5
      <4> QED BY ONLY <2>1, <2>9, <4>1
    <3>2. Rest(e) = rest
      BY <2>5, <2>10 DEF Rest
    <3> QED BY <2>12, <2>14, <2>15, <2>16, <3>1, <3>2 DEF EchoDelete
  <2>18. /\ <<8>> \in Seq(Nat) /\ Len(<<8>>) = 1 /\ <<8>>[1] = 8
         /\ <<32>> \in Seq(Nat) /\ Len(<<32>>) = 1 /\ <<32>>[1] = 32
    OBVIOUS
  <2>19. a \in Seq(Nat) /\ Len(a) = m /\ a[1] = 8 /\ \A x \in 1..m - 1 : a[1 + x] = rest[x]
    <3>1. /\ a \in Seq(Nat) /\ Len(a) = Len(<<8>>) + Len(rest)
          /\ \A x \in 1..Len(<<8>>) : a[x] = <<8>>[x]
          /\ \A x \in 1..Len(rest) : a[Len(<<8>>) + x] = rest[x]
      BY ONLY <2>11, <2>14, <2>18, ConcatProperties
    <3>2. 1 \in 1..Len(<<8>>)
      BY <2>18
    <3> QED BY <2>9, <2>11, <2>18, <3>1, <3>2
  <2>20. /\ c \in Seq(Nat) /\ Len(c) = m + 1 /\ c[m + 1] = 32
         /\ \A x \in 1..m : c[x] = a[x]
    <3>1. /\ c \in Seq(Nat) /\ Len(c) = Len(a) + Len(<<32>>)
          /\ \A x \in 1..Len(a) : c[x] = a[x]
          /\ \A x \in 1..Len(<<32>>) : c[Len(a) + x] = <<32>>[x]
      BY ONLY <2>15, <2>18, <2>19, ConcatProperties
    <3>2. 1 \in 1..Len(<<32>>)
      BY <2>18
    <3> QED BY <2>18, <2>19, <3>1, <3>2
  <2>21. /\ d \in Seq(Nat) /\ Len(d) = (m + 1) + m
         /\ \A x \in 1..m + 1 : d[x] = c[x]
         /\ \A x \in 1..m : d[(m + 1) + x] = 8
    <3>1. /\ d \in Seq(Nat) /\ Len(d) = Len(c) + Len(back)
          /\ \A x \in 1..Len(c) : d[x] = c[x]
          /\ \A x \in 1..Len(back) : d[Len(c) + x] = back[x]
      <4>1. c \in Seq(Nat) /\ back \in Seq(Nat)
        BY <2>13, <2>20
      <4> QED BY ONLY <2>16, <4>1, ConcatProperties
    <3>2. Len(c) = m + 1 /\ Len(back) = m /\ \A x \in 1..m : back[x] = 8
      BY <2>13, <2>20
    <3> QED BY ONLY <3>1, <3>2
  <2>22. ASSUME NEW y \in 1..m PROVE d[1 + y] = Want(new, p + y)
    <3>0. y \in Nat /\ y >= 1 /\ y <= m
      BY <2>9
    <3>1. CASE y = m
      <4>1. d[1 + y] = 32
        <5>1. m + 1 \in 1..m + 1 /\ 1 + m = m + 1
          BY <2>9
        <5> QED BY <2>20, <2>21, <3>1, <5>1
      <4>2. p + y > Len(new)
        BY <1>5, <2>1, <2>3, <2>9, <3>1
      <4>3. ~(p + y <= Len(new))
        BY <1>5, <2>1, <2>3, <3>0, <4>2
      <4> QED BY <4>1, <4>3 DEF Want
    <3>2. CASE y # m
      <4>1. y \in 1..m - 1 /\ 1 + y \in 1..m /\ 1 + y \in 1..m + 1
        BY ONLY <2>9, <3>0, <3>2
      <4>2. d[1 + y] = new[p + y]
        <5>1. d[1 + y] = c[1 + y] /\ c[1 + y] = a[1 + y]
          BY <2>20, <2>21, <4>1
        <5>2. a[1 + y] = rest[y] /\ rest[y] = new[p + y]
          BY <2>11, <2>19, <4>1
        <5> QED BY <5>1, <5>2
      <4>3. p + y <= Len(new)
        BY <1>5, <2>1, <2>3, <2>9, <3>0, <3>2
      <4> QED BY <4>2, <4>3 DEF Want
    <3> QED BY <3>1, <3>2
  <2>23. ASSUME NEW x \in 1..Len(s.row), x \notin p+1..p+m
         PROVE  s.row[x] = Want(new, x)
    <3>0. x \in Nat /\ x >= 1
      OBVIOUS
    <3>1. x <= p \/ x > n
      BY <2>1, <2>9, <2>23, <3>0
    <3>2. s.row[x] = Want(l, x)
      BY <1>5
    <3>3. CASE x <= p
      <4>1. x \in 1..n - 1 /\ x < q /\ x <= Len(l) /\ x <= Len(new)
        BY <1>3, <1>5, <2>1, <2>3, <3>0, <3>3
      <4> QED BY <2>3, <3>2, <4>1 DEF Want
    <3>4. CASE x > n
      <4>1. ~(x <= Len(l)) /\ ~(x <= Len(new))
        BY <1>3, <1>5, <2>3, <3>0, <3>4
      <4> QED BY <3>2, <4>1 DEF Want
    <3> QED BY <3>1, <3>3, <3>4
  <2>24. PICK r : r = ShowAll(s, d)
    OBVIOUS
  <2>25. Displays(r, new, p)
    <3>0. PICK j : j = 1
      OBVIOUS
    <3>1. j \in Nat /\ j <= s.cursor /\ s.cursor <= Len(s.row) /\ m <= s.cursor - j + m
      <4>1. s.cursor = p + 1 /\ p + 1 <= Len(s.row)
        BY <1>5, <2>1
      <4> QED BY ONLY <2>1, <2>9, <3>0, <4>1
    <3>2. p = s.cursor - j
      BY <1>5, <2>0, <3>0
    <3>3. DOMAIN d = 1..j+m+m
      <4>1. (m + 1) + m = j + m + m
        BY <2>9, <3>0
      <4>2. DOMAIN d = 1..((m + 1) + m)
        BY <2>21, LenProperties
      <4> QED BY ONLY <4>1, <4>2
    <3>4. \A x \in 1..j : d[x] = 8
      <4>1. 1 \in 1..m /\ 1 \in 1..m + 1
        BY <2>9
      <4>2. d[1] = 8
        BY <2>19, <2>20, <2>21, <4>1
      <4> QED BY <3>0, <4>2
    <3>5. \A x \in j+m+1..j+m+m : d[x] = 8
      <4>1. PICK z : z = m + 1
        OBVIOUS
      <4>2. ASSUME NEW x \in z+1..z+m PROVE d[x] = 8
        <5>1. PICK y \in 1..m : x = z + y
          <6>1. x - z \in 1..m /\ x = z + (x - z)
            BY <2>9, <4>1
          <6> QED BY <6>1
        <5> QED BY <2>21, <4>1, <5>1
      <4>3. j + m + 1 = z + 1 /\ j + m + m = z + m
        BY <2>9, <3>0, <4>1
      <4> QED BY ONLY <4>2, <4>3
    <3>6. \A y \in 1..m : d[j + y] = Want(new, p + y)
      BY <2>22, <3>0
    <3>7. \A x \in 1..Len(s.row) : x \notin p+1..p+m => s.row[x] = Want(new, x)
      BY <2>23
    <3>8. s \in Screen /\ m \in Nat /\ new \in Seq(Char)
      BY <1>5, <2>3, <2>9
    <3>9. Len(new) <= p + m
      <4>1. Len(new) = n - 1 /\ n = p + m
        BY <2>3, <2>9
      <4> QED BY ONLY <2>1, <2>9, <4>1
    <3>10. PICK k : k = m
      OBVIOUS
    <3>11. PICK z : z = p + m - k
      OBVIOUS
    <3>13. z = p
      BY <2>1, <2>9, <3>10, <3>11
    <3>12. /\ k \in Nat /\ k <= s.cursor - j + m /\ DOMAIN d = 1..j+m+k
           /\ \A x \in j+m+1..j+m+k : d[x] = 8
      BY <3>1, <3>3, <3>5, <3>8, <3>10
    <3>14. Displays(r, new, z)
      BY ONLY <2>24, <3>1, <3>2, <3>4, <3>6, <3>7, <3>8, <3>9, <3>11, <3>12, Redrawn
    <3> QED BY <3>13, <3>14
  <2>26. u = [t EXCEPT !.edit = e, !.screen = r]
    <3>1. u = [t EXCEPT !.edit = e, !.screen = ShowAll(@, d)]
      BY <2>6, <2>7, <2>17 DEF Backspace
    <3> QED BY <1>4, <1>5, <2>24, <3>1 DEF Reading
  <2>27. e.pos <= Len(e.line)
    BY <1>5, <2>1, <2>3, <2>5
  <2>28. /\ Sound(u) /\ u.edit = e /\ u.driver = t.driver
         /\ u.echo = t.echo /\ u.esc = t.esc /\ u.code = t.code
    <3>1. Displays(r, e.line, e.pos) /\ r \in Screen
      BY <2>5, <2>25 DEF Displays
    <3>2. t \in Reading
      BY <1>5
    <3>3. Reedited(t, u, e, r)
      BY ONLY <2>5, <2>26, <3>1, <3>2, SoundEdit
    <3> QED BY <2>27, <3>1, <3>3 DEF Reedited, Sound
  <2>29. new = SubSeq(l, 1, q - 1) \o SubSeq(l, q + 1, Len(l))
    BY <2>2 DEF RemoveAt
  <2> QED BY <1>1, <1>2, <1>7, <2>0, <2>4, <2>28, <2>29
<1> QED BY <1>6, <1>7

\* An arrow moves the position in the line, and the cursor with it.
LEMMA MoveShown ==
    ASSUME NEW t, Sound(t), NEW o \in {1, -1}, NEW u, u = Move(t, o)
    PROVE  /\ Sound(u) /\ u.driver = t.driver /\ u.echo = t.echo /\ u.esc = t.esc
           /\ u.code = t.code
           /\ u.edit = Seek(t.edit, o)
<1>1. PICK l : l = t.edit.line
  OBVIOUS
<1>2. PICK p : p = t.edit.pos
  OBVIOUS
<1>3. PICK n : n = Len(l)
  OBVIOUS
<1>4. PICK s : s = t.screen
  OBVIOUS
<1>5. /\ l \in Seq(Char) /\ p \in Nat /\ n \in Nat /\ p <= n /\ s \in Screen
      /\ s.cursor = p /\ n <= Len(s.row) /\ Len(s.row) \in Nat
      /\ \A x \in 1..Len(s.row) : s.row[x] = Want(l, x)
      /\ t \in Reading /\ t.edit \in Edit
  BY <1>1, <1>2, <1>3, <1>4, SoundParts
<1>6. PICK e : e = Seek(t.edit, o)
  OBVIOUS
<1>7. e = IF p + o \in 0..n THEN [t.edit EXCEPT !.pos = @ + o] ELSE t.edit
  BY <1>1, <1>2, <1>3, <1>6 DEF Seek
<1>8. PICK z : z = IF p + o \in 0..n THEN p + o ELSE p
  OBVIOUS
<1>9. z \in Nat /\ z <= n
  BY <1>5, <1>8
<1>10. e \in Edit /\ e.line = l /\ e.pos = z
  <2>1. CASE p + o \in 0..n
    <3>1. e = [t.edit EXCEPT !.pos = z] /\ z \in Nat
      BY <1>2, <1>7, <1>8, <1>9, <2>1
    <3> QED BY <1>1, <1>5, <3>1 DEF Edit
  <2>2. CASE p + o \notin 0..n
    BY <1>1, <1>2, <1>5, <1>7, <1>8, <2>2
  <2> QED BY <2>1, <2>2
<1>11. PICK d : d = IF z < p THEN Back(1) ELSE SubSeq(l, p + 1, z)
  OBVIOUS
<1>12. PICK j : j = IF z < p THEN 1 ELSE 0
  OBVIOUS
<1>13. PICK m : m = IF p < z THEN 1 ELSE 0
  OBVIOUS
<1>14. j \in Nat /\ m \in Nat /\ j <= p /\ z = p - j + m /\ p + m <= n /\ (j = 1 => m = 0)
  BY <1>5, <1>8, <1>9, <1>12, <1>13
<1>15. /\ DOMAIN d = 1..j+m
       /\ \A x \in 1..j : d[x] = 8
       /\ m = 1 => d[1] = l[p + 1]
  <2>1. CASE z < p
    <3>1. d \in Seq(Nat) /\ Len(d) = 1 /\ \A x \in 1..1 : d[x] = 8
      BY <1>11, <2>1, BackPositions
    <3>2. j = 1 /\ m = 0 /\ j + m = 1
      BY <1>5, <1>9, <1>12, <1>13, <2>1
    <3>3. DOMAIN d = 1..1
      BY <3>1, LenProperties
    <3> QED BY <3>1, <3>2, <3>3
  <2>2. CASE ~(z < p)
    <3>1. j = 0 /\ z = p + m
      BY <1>5, <1>12, <1>14, <2>2
    <3>2. \A x \in p+1..z : l[x] \in Char
      <4>1. \A x \in 1..n : l[x] \in Char
        BY <1>3, <1>5, ElementOfSeq
      <4>2. \A x \in p+1..z : x \in 1..n
        BY <1>5, <1>9
      <4> QED BY <4>1, <4>2
    <3>3. p + 1 \in Int /\ z \in Int
      BY <1>5, <1>9
    <3>4. d = SubSeq(l, p + 1, z)
      BY <1>11, <2>2
    <3>5. /\ d \in Seq(Char) /\ Len(d) = IF p + 1 <= z THEN z - (p + 1) + 1 ELSE 0
          /\ \A x \in 1..(z - (p + 1) + 1) : d[x] = l[(p + 1) + x - 1]
      BY ONLY <3>2, <3>3, <3>4, SubSeqProperties
    <3>6. Len(d) = m /\ j + m = m /\ z - (p + 1) + 1 = m
      <4>1. m = 0 \/ m = 1
        BY <1>13
      <4> QED BY <1>5, <3>1, <3>5, <4>1
    <3>7. DOMAIN d = 1..m
      BY <3>5, <3>6, LenProperties
    <3>8. m = 1 => d[1] = l[p + 1]
      <4>1. (p + 1) + 1 - 1 = p + 1
        BY <1>5
      <4>2. m = 1 => 1 \in 1..(z - (p + 1) + 1)
        BY <3>6
      <4> QED BY <3>5, <4>1, <4>2
    <3> QED BY <3>1, <3>6, <3>7, <3>8
  <2> QED BY <2>1, <2>2
<1>16. PICK r : r = ShowAll(s, d)
  OBVIOUS
<1>17. Displays(r, l, z)
  <2>1. PICK k : k = 0
    OBVIOUS
  <2>2. PICK b : b = p - j
    OBVIOUS
  <2>3. /\ j <= s.cursor /\ s.cursor <= Len(s.row) /\ k <= s.cursor - j + m /\ k \in Nat
        /\ b = s.cursor - j /\ Len(l) <= Len(s.row) /\ b \in Nat
    BY <1>3, <1>5, <1>14, <2>1, <2>2
  <2>4. DOMAIN d = 1..j+m+k
    <3>1. j + m + k = j + m
      BY <1>14, <2>1
    <3> QED BY <1>15, <3>1
  <2>5. \A x \in j+m+1..j+m+k : d[x] = 8
    <3>1. \A x \in j+m+1..j+m+k : FALSE
      BY <1>14, <2>1
    <3> QED BY <3>1
  <2>6. \A x \in 1..Len(s.row) : x \notin b+1..b+m => s.row[x] = Want(l, x)
    BY <1>5
  <2>7. ASSUME NEW y \in 1..m PROVE d[j + y] = Want(l, b + y)
    <3>1. y = 1 /\ m = 1 /\ j = 0 /\ b = p
      <4>1. m = 0 \/ m = 1
        BY <1>13
      <4>2. m = 1 /\ y = 1
        BY <4>1
      <4>3. j = 0
        BY <1>12, <1>13, <1>5, <1>9, <4>2
      <4> QED BY <1>5, <2>2, <4>2, <4>3
    <3>2. p + 1 <= Len(l)
      BY <1>3, <1>14, <3>1
    <3> QED BY <1>15, <3>1, <3>2 DEF Want
  <2>8. PICK q : q = b + m - k
    OBVIOUS
  <2>9. s \in Screen /\ j \in Nat /\ m \in Nat /\ l \in Seq(Char)
    BY <1>5, <1>14
  <2>10. \A x \in 1..j : d[x] = 8
    BY <1>15
  <2>11. \A y \in 1..m : d[j + y] = Want(l, b + y)
    BY <2>7
  <2>12. Displays(r, l, q)
    BY ONLY <1>16, <2>3, <2>4, <2>5, <2>6, <2>8, <2>9, <2>10, <2>11, Redrawn
  <2>13. q = z
    BY <1>5, <1>14, <2>1, <2>2, <2>8
  <2> QED BY <2>12, <2>13
<1>18. u = [t EXCEPT !.edit = e, !.screen = r]
  <2>1. u = [t EXCEPT !.edit = e,
                      !.screen = ShowAll(@, IF e.pos < t.edit.pos THEN Back(1)
                                              ELSE SubSeq(e.line, t.edit.pos + 1, e.pos))]
    BY <1>6 DEF Move
  <2>2. d = IF e.pos < t.edit.pos THEN Back(1) ELSE SubSeq(e.line, t.edit.pos + 1, e.pos)
    BY <1>2, <1>10, <1>11
  <2> QED BY <1>4, <1>5, <1>16, <2>1, <2>2 DEF Reading
<1>19. /\ Sound(u) /\ u.edit = e /\ u.driver = t.driver
       /\ u.echo = t.echo /\ u.esc = t.esc /\ u.code = t.code
  <2>1. Displays(r, e.line, e.pos) /\ r \in Screen
    BY <1>10, <1>17 DEF Displays
  <2>2. t \in Reading
    BY <1>5
  <2>3. Reedited(t, u, e, r)
    BY ONLY <1>10, <1>18, <2>1, <2>2, SoundEdit
  <2>4. e.pos <= Len(e.line)
    BY <1>3, <1>9, <1>10
  <2> QED BY <2>1, <2>3, <2>4 DEF Reedited, Sound
<1> QED BY <1>6, <1>19

\* A line is handed over, and an empty one is on the screen.
LEMMA CommandShown ==
    ASSUME NEW t, Sound(t), NEW u, u = Command(t)
    PROVE  /\ Sound(u) /\ u.driver = t.driver /\ u.echo = t.echo /\ u.esc = t.esc
           /\ u.code = t.code
           /\ u.edit = [line |-> <<>>, pos |-> 0,
                        commands |-> Append(t.edit.commands, t.edit.line)]
<1>1. PICK e : e = [line |-> <<>>, pos |-> 0,
                    commands |-> Append(t.edit.commands, t.edit.line)]
  OBVIOUS
<1>2. t \in Reading /\ t.edit \in Edit /\ t.edit.line \in Seq(Char)
      /\ t.edit.commands \in Seq(Seq(Char))
  BY SoundParts
<1>3. e \in Edit
  <2>1. Append(t.edit.commands, t.edit.line) \in Seq(Seq(Char))
    BY <1>2, AppendProperties
  <2>2. <<>> \in Seq(Char)
    OBVIOUS
  <2> QED BY <1>1, <2>1, <2>2 DEF Edit
<1>4. PICK r : r = [row |-> <<>>, cursor |-> 0]
  OBVIOUS
<1>5. r \in Screen /\ Displays(r, <<>>, 0)
  <2>1. <<>> \in Seq(Char) /\ Len(<<>>) = 0
    OBVIOUS
  <2>2. r \in Screen /\ r.row = <<>> /\ r.cursor = 0
    BY <1>4, <2>1 DEF Screen
  <2> QED BY <2>1, <2>2 DEF Displays
<1>6. u = [t EXCEPT !.edit = e, !.screen = r]
  BY <1>1, <1>2, <1>4 DEF Command, Blank, Reading
<1>7. Reedited(t, u, e, r)
  BY ONLY <1>2, <1>3, <1>5, <1>6, SoundEdit
<1>8. e.line = <<>> /\ e.pos = 0 /\ e.pos <= Len(e.line)
  BY <1>1
<1> QED BY <1>1, <1>5, <1>7, <1>8 DEF Reedited, Sound

-----------------------------------------------------------------------------
(* The bytes on their way.                                                 *)

\* The record is between two keys or inside a negotiation.
Plain(t) == Sound(t) /\ t.driver.state # "esc" /\ t.esc = "code" /\ t.code = 0

\* The record after a byte, with an escape sequence over when it is.
Step(t, ch) ==
    LET u == Byte(t, ch)
    IN  IF t.driver.state = "esc" /\ t.esc = "param1"
        THEN [BurstEnds(u) EXCEPT !.esc = "code", !.code = 0] ELSE u

\* A record after i bytes is plain, or in a sequence that has begun with ESC.
Place(t, w, i) ==
    \/ Plain(t)
    \/ /\ Sound(t) /\ t.driver.state = "esc"
       /\ \/ t.esc = "code" /\ i >= 1 /\ w[i] = ESC
          \/ t.esc = "param1" /\ i >= 2 /\ w[i - 1] = ESC

\* A byte inside a sequence is that of an arrow key.
Follows(t, ch) ==
    t.driver.state = "esc" => IF t.esc = "code" THEN ch = 91 ELSE ch \in {67, 68}

\* The first n bytes of w lead from s to t.
Reads(f, s, w, n, t) ==
    /\ f[0] = s /\ f[n] = t
    /\ \A i \in 1..n : f[i] = Step(f[i - 1], w[i]) /\ Follows(f[i - 1], w[i])
    /\ \A i \in 0..n : Place(f[i], w, i)

Leads(s, w, n, t) == \E f : Reads(f, s, w, n, t)

\* Between two keys, with the echo agreed upon.
Ready(t) == Plain(t) /\ t.driver.state = "normal" /\ t.echo = TRUE

\* Nothing leads nowhere.
LEMMA LeadsNowhere ==
    ASSUME NEW s, Plain(s), NEW w
    PROVE  Leads(s, w, 0, s)
<1> DEFINE f == [i \in 0..0 |-> s]
<1>1. f[0] = s
  OBVIOUS
<1> HIDE DEF f
<1>2. Reads(f, s, w, 0, s)
  BY <1>1 DEF Reads, Place
<1> QED BY <1>2 DEF Leads

\* Bytes that are added do not matter to those before.
LEMMA SameBytes ==
    ASSUME NEW s, NEW w, NEW n \in Nat, NEW t, Leads(s, w, n, t), NEW v,
           \A i \in 1..n : v[i] = w[i]
    PROVE  Leads(s, v, n, t)
<1>1. PICK f : Reads(f, s, w, n, t)
  BY DEF Leads
<1>2. ASSUME NEW i \in 0..n PROVE Place(f[i], v, i)
  <2>1. Place(f[i], w, i)
    BY <1>1 DEF Reads
  <2>2. i >= 1 => v[i] = w[i]
    OBVIOUS
  <2>3. i >= 2 => v[i - 1] = w[i - 1]
    OBVIOUS
  <2> QED BY <2>1, <2>2, <2>3 DEF Place
<1>3. Reads(f, s, v, n, t)
  BY <1>1, <1>2 DEF Reads
<1> QED BY <1>3 DEF Leads

\* One byte more.
LEMMA LeadsOn ==
    ASSUME NEW s, NEW w, NEW n \in Nat, NEW t, Leads(s, w, n, t), NEW k, k = n + 1,
           Follows(t, w[k]), NEW u, u = Step(t, w[k]), Place(u, w, k)
    PROVE  Leads(s, w, k, u)
<1>1. PICK f : Reads(f, s, w, n, t)
  BY DEF Leads
<1>2. PICK g : g = [i \in 0..k |-> IF i = k THEN u ELSE f[i]]
  OBVIOUS
<1>3. g[k] = u /\ \A i \in 0..n : g[i] = f[i]
  <2>1. k \in 0..k /\ \A i \in 0..n : i \in 0..k /\ i # k
    OBVIOUS
  <2> QED BY <1>2, <2>1
<1>4. g[0] = s
  <2>1. 0 \in 0..n
    OBVIOUS
  <2> QED BY <1>1, <1>3, <2>1 DEF Reads
<1>5. ASSUME NEW i \in 1..k PROVE g[i] = Step(g[i - 1], w[i]) /\ Follows(g[i - 1], w[i])
  <2>1. CASE i = k
    <3>1. i - 1 = n /\ n \in 0..n
      BY <2>1
    <3>2. g[n] = t
      BY <1>1, <1>3, <3>1 DEF Reads
    <3> QED BY <1>3, <2>1, <3>1, <3>2
  <2>2. CASE i # k
    <3>1. i \in 1..n /\ i \in 0..n /\ i - 1 \in 0..n
      BY <2>2
    <3>2. f[i] = Step(f[i - 1], w[i]) /\ Follows(f[i - 1], w[i])
      BY <1>1, <3>1 DEF Reads
    <3> QED BY <1>3, <3>1, <3>2
  <2> QED BY <2>1, <2>2
<1>6. ASSUME NEW i \in 0..k PROVE Place(g[i], w, i)
  <2>1. CASE i = k
    BY <1>3, <2>1
  <2>2. CASE i # k
    <3>1. i \in 0..n
      BY <2>2
    <3> QED BY <1>1, <1>3, <3>1 DEF Reads
  <2> QED BY <2>1, <2>2
<1>7. Reads(g, s, w, k, u)
  BY <1>3, <1>4, <1>5, <1>6 DEF Reads
<1> QED BY <1>7 DEF Leads

\* One byte more that is part of no escape sequence.
LEMMA PlainOn ==
    ASSUME NEW s, NEW w, NEW n \in Nat, NEW t, Leads(s, w, n, t), Plain(t), NEW k, k = n + 1,
           NEW u, u = Byte(t, w[k]), Plain(u)
    PROVE  Leads(s, w, k, u)
<1>1. u = Step(t, w[k])
  BY DEF Step, Plain
<1>2. Place(u, w, k) /\ Follows(t, w[k])
  BY DEF Place, Follows, Plain
<1> QED BY <1>1, <1>2, LeadsOn

\* The states of the automaton outside of an escape sequence.
Between == {"normal", "iac", "do", "dont", "will", "wont", "sb", "width", "height", "till_se"}

\* The automaton has gone to another state of the negotiation.
Turned(t, u, x, a, b, c) ==
    /\ Plain(u) /\ u.edit = t.edit /\ u.echo = c
    /\ u.driver.state = x /\ u.driver.width = a /\ u.driver.height = b

\* What a state of the automaton does to the record.
LEMMA Went ==
    ASSUME NEW t, Plain(t), NEW x \in Between, NEW a \in Nat, NEW b \in Nat, NEW c \in BOOLEAN,
           NEW u, u = [t EXCEPT !.driver = [state |-> x, width |-> a, height |-> b], !.echo = c]
    PROVE  Turned(t, u, x, a, b, c)
<1>1. t \in Reading
  BY DEF Plain, Sound
<1>2. PICK d : d = [state |-> x, width |-> a, height |-> b]
  OBVIOUS
<1>3. /\ d \in [state : {"normal", "esc", "iac", "do", "dont", "will", "wont", "sb", "width",
                         "height", "till_se"},
                width : Nat, height : Nat]
      /\ d.state = x /\ d.width = a /\ d.height = b
  BY <1>2 DEF Between
<1>4. u = [t EXCEPT !.driver = d, !.echo = c]
  BY <1>2
<1>5. /\ u.edit = t.edit /\ u.screen = t.screen /\ u.esc = t.esc /\ u.code = t.code /\ u.echo = c
      /\ u.driver = d
  BY <1>1, <1>4 DEF Reading
<1>6. u \in Reading
  BY <1>1, <1>3, <1>4 DEF Reading
<1>7. x # "esc"
  BY DEF Between
<1> QED BY <1>3, <1>5, <1>6, <1>7 DEF Plain, Sound, Turned

Driver == [state : {"normal", "esc", "iac", "do", "dont", "will", "wont", "sb", "width", "height",
                    "till_se"},
           width : Nat, height : Nat]

\* The same when only the driver is written.
LEMMA Drove ==
    ASSUME NEW t, Plain(t), NEW d \in Driver, d.state # "esc", NEW u, u = [t EXCEPT !.driver = d]
    PROVE  Turned(t, u, d.state, d.width, d.height, t.echo)
<1>1. t \in Reading
  BY DEF Plain, Sound
<1>2. /\ u.edit = t.edit /\ u.screen = t.screen /\ u.esc = t.esc /\ u.code = t.code
      /\ u.echo = t.echo /\ u.driver = d
  BY <1>1 DEF Reading
<1>3. u \in Reading
  BY <1>1 DEF Reading, Driver
<1> QED BY <1>2, <1>3 DEF Plain, Sound, Turned

\* A state of the automaton, with or without an addition to the size of the window.
LEMMA WentTo ==
    ASSUME NEW t, Plain(t), NEW x \in Between
    PROVE  /\ t.driver \in Driver /\ t.echo \in BOOLEAN
           /\ Turned(t, Goto(t, x), x, t.driver.width, t.driver.height, t.echo)
           /\ \A y \in Nat :
                 Turned(t, [t EXCEPT !.driver.width = @ + y, !.driver.state = x], x,
                        t.driver.width + y, t.driver.height, t.echo)
           /\ \A y \in Nat :
                 Turned(t, [t EXCEPT !.driver.height = @ + y, !.driver.state = x], x,
                        t.driver.width, t.driver.height + y, t.echo)
<1>1. t \in Reading
  BY DEF Plain, Sound
<1>2. PICK d : d = t.driver
  OBVIOUS
<1>3. d \in Driver /\ t.echo \in BOOLEAN /\ x # "esc"
  BY <1>1, <1>2 DEF Reading, Driver, Between
<1>4. Turned(t, Goto(t, x), x, d.width, d.height, t.echo)
  <2>1. PICK e : e = [d EXCEPT !.state = x]
    OBVIOUS
  <2>2. e \in Driver /\ e.state = x /\ e.width = d.width /\ e.height = d.height
    BY <1>3, <2>1 DEF Driver, Between
  <2>3. Goto(t, x) = [t EXCEPT !.driver = e]
    BY <1>1, <1>2, <2>1 DEF Goto, Reading
  <2> QED BY <1>3, <2>2, <2>3, Drove
<1>5. ASSUME NEW y \in Nat
      PROVE  Turned(t, [t EXCEPT !.driver.width = @ + y, !.driver.state = x], x,
                    d.width + y, d.height, t.echo)
  <2>0. PICK z : z = d.width + y
    OBVIOUS
  <2>4. z \in Nat
    BY <1>3, <2>0 DEF Driver
  <2>5. PICK g : g = [d EXCEPT !.width = z]
    OBVIOUS
  <2>6. g \in Driver /\ g.width = z /\ g.height = d.height
    BY <1>3, <2>4, <2>5 DEF Driver
  <2>1. PICK e : e = [g EXCEPT !.state = x]
    OBVIOUS
  <2>7. e \in Driver /\ e.state = x /\ e.width = z /\ e.height = d.height
    BY <1>3, <2>1, <2>6 DEF Driver, Between
  <2>2. e \in Driver /\ e.state = x /\ e.width = d.width + y /\ e.height = d.height
    BY <2>0, <2>7
  <2>8. e = [d EXCEPT !.width = @ + y, !.state = x]
    BY <1>3, <2>0, <2>1, <2>5 DEF Driver
  <2>3. [t EXCEPT !.driver.width = @ + y, !.driver.state = x] = [t EXCEPT !.driver = e]
    BY <1>1, <1>2, <2>8 DEF Reading
  <2> QED BY <1>3, <2>2, <2>3, Drove
<1>6. ASSUME NEW y \in Nat
      PROVE  Turned(t, [t EXCEPT !.driver.height = @ + y, !.driver.state = x], x,
                    d.width, d.height + y, t.echo)
  <2>0. PICK z : z = d.height + y
    OBVIOUS
  <2>4. z \in Nat
    BY <1>3, <2>0 DEF Driver
  <2>5. PICK g : g = [d EXCEPT !.height = z]
    OBVIOUS
  <2>6. g \in Driver /\ g.height = z /\ g.width = d.width
    BY <1>3, <2>4, <2>5 DEF Driver
  <2>1. PICK e : e = [g EXCEPT !.state = x]
    OBVIOUS
  <2>7. e \in Driver /\ e.state = x /\ e.height = z /\ e.width = d.width
    BY <1>3, <2>1, <2>6 DEF Driver, Between
  <2>2. e \in Driver /\ e.state = x /\ e.height = d.height + y /\ e.width = d.width
    BY <2>0, <2>7
  <2>8. e = [d EXCEPT !.height = @ + y, !.state = x]
    BY <1>3, <2>0, <2>1, <2>5 DEF Driver
  <2>3. [t EXCEPT !.driver.height = @ + y, !.driver.state = x] = [t EXCEPT !.driver = e]
    BY <1>1, <1>2, <2>8 DEF Reading
  <2> QED BY <1>3, <2>2, <2>3, Drove
<1> QED BY <1>2, <1>3, <1>4, <1>5, <1>6

\* The client's consent to an echo.
LEMMA Consented ==
    ASSUME NEW t, Plain(t), t.driver.state = "do"
    PROVE  Turned(t, Byte(t, 1), "normal", t.driver.width, t.driver.height, TRUE)
<1>1. t \in Reading
  BY DEF Plain, Sound
<1>2. Byte(t, 1) = Negotiation(t, 1)
  BY DEF Byte, NUL
<1>3. Negotiation(t, 1) = Goto([t EXCEPT !.echo = @ \/ 1 = ECHO], "normal")
  BY DEF Negotiation, DoOption
<1>4. PICK v : v = [t EXCEPT !.echo = TRUE]
  OBVIOUS
<1>5. [t EXCEPT !.echo = @ \/ 1 = ECHO] = v
  BY <1>1, <1>4 DEF ECHO, Reading
<1>6. v \in Reading /\ v.echo = TRUE
  BY <1>1, <1>4 DEF Reading
<1>7. /\ v.driver = t.driver /\ v.edit = t.edit /\ v.screen = t.screen /\ v.esc = t.esc
      /\ v.code = t.code
  BY <1>1, <1>4 DEF Reading
<1>8. Plain(v)
  BY <1>6, <1>7 DEF Plain, Sound
<1>9. "normal" \in Between
  BY DEF Between
<1>10. Turned(v, Goto(v, "normal"), "normal", t.driver.width, t.driver.height, TRUE)
  BY <1>6, <1>7, <1>8, <1>9, WentTo
<1> QED BY <1>2, <1>3, <1>5, <1>7, <1>10 DEF Turned

\* What each byte of a negotiation does to the automaton.
LEMMA Negotiated ==
    ASSUME NEW t, Plain(t), NEW a, a = t.driver.width, NEW b, b = t.driver.height,
           NEW c, c = t.echo
    PROVE  /\ Byte(t, 0) = t
           /\ t.driver.state = "normal" => Turned(t, Byte(t, 255), "iac", a, b, c)
           /\ t.driver.state = "iac" => /\ Turned(t, Byte(t, 250), "sb", a, b, c)
                                        /\ Turned(t, Byte(t, 251), "will", a, b, c)
                                        /\ Turned(t, Byte(t, 253), "do", a, b, c)
           /\ t.driver.state = "will" =>
                \A ch \in {31, 24} : Turned(t, Byte(t, ch), "normal", a, b, c)
           /\ t.driver.state = "sb" => Turned(t, Byte(t, 31), "width", 0, 0, c)
           /\ t.driver.state = "width" =>
                \A ch \in Nat \ {0} : Turned(t, Byte(t, ch), "height", a + ch, b, c)
           /\ t.driver.state = "height" =>
                \A ch \in Nat \ {0} : Turned(t, Byte(t, ch), "till_se", a, b + ch, c)
           /\ t.driver.state = "till_se" => /\ Byte(t, 255) = t
                                            /\ Turned(t, Byte(t, 240), "normal", a, b, c)
<1>1. t \in Reading
  BY DEF Plain, Sound
<1>2. a \in Nat /\ b \in Nat /\ c \in BOOLEAN
  BY <1>1 DEF Reading
<1>3. \A x \in Between : Turned(t, Goto(t, x), x, a, b, c)
  BY WentTo
<1>4. Byte(t, 0) = t
  BY DEF Byte, NUL
<1>5. ASSUME t.driver.state = "normal" PROVE Turned(t, Byte(t, 255), "iac", a, b, c)
  <2>1. Byte(t, 255) = Goto(t, "iac") /\ "iac" \in Between
    BY <1>5 DEF Byte, NUL, IAC, Between
  <2> QED BY <1>3, <2>1
<1>6. \A ch : ch # 0 /\ t.driver.state # "normal" => Byte(t, ch) = Negotiation(t, ch)
  BY DEF Byte, NUL, Plain
<1>7. ASSUME t.driver.state = "iac"
      PROVE  /\ Turned(t, Byte(t, 250), "sb", a, b, c)
             /\ Turned(t, Byte(t, 251), "will", a, b, c)
             /\ Turned(t, Byte(t, 253), "do", a, b, c)
  <2>1. \A ch \in {250, 251, 253} : ch # 0 /\ Byte(t, ch) = Negotiation(t, ch)
    BY <1>6, <1>7
  <2>2. \A ch : Negotiation(t, ch) = IF ch \in DOMAIN Verb THEN Goto(t, Verb[ch]) ELSE t
    BY <1>7 DEF Negotiation
  <2>3. /\ DOMAIN Verb = {250, 251, 252, 253, 254}
        /\ Verb[250] = "sb" /\ Verb[251] = "will" /\ Verb[253] = "do"
    BY DEF Verb, SB, WILL, WONT, DO, DONT
  <2>4. /\ Byte(t, 250) = Goto(t, "sb") /\ Byte(t, 251) = Goto(t, "will")
        /\ Byte(t, 253) = Goto(t, "do")
    BY <2>1, <2>2, <2>3
  <2>5. "sb" \in Between /\ "will" \in Between /\ "do" \in Between
    BY DEF Between
  <2> QED BY <1>3, <2>4, <2>5
<1>9. ASSUME t.driver.state = "will"
      PROVE  \A ch \in {31, 24} : Turned(t, Byte(t, ch), "normal", a, b, c)
  <2>1. "normal" \in Between
    BY DEF Between
  <2>2. \A ch \in {31, 24} : Byte(t, ch) = Goto(t, "normal")
    BY <1>6, <1>9 DEF Negotiation
  <2> QED BY <1>3, <2>1, <2>2
<1>10. ASSUME t.driver.state = "sb" PROVE Turned(t, Byte(t, 31), "width", 0, 0, c)
  <2>1. PICK d : d = [state |-> "width", width |-> 0, height |-> 0]
    OBVIOUS
  <2>2. Byte(t, 31) = [t EXCEPT !.driver = d]
    BY <1>6, <1>10, <2>1 DEF Negotiation, NAWS
  <2>3. d \in Driver /\ d.state = "width" /\ d.width = 0 /\ d.height = 0
    BY <2>1 DEF Driver
  <2>4. Turned(t, Byte(t, 31), d.state, d.width, d.height, t.echo)
    BY <2>2, <2>3, Drove
  <2> QED BY <2>3, <2>4
<1>11. ASSUME t.driver.state = "width"
       PROVE  \A ch \in Nat \ {0} : Turned(t, Byte(t, ch), "height", a + ch, b, c)
  <2>1. \A ch \in Nat \ {0} :
           Byte(t, ch) = [t EXCEPT !.driver.width = @ + ch, !.driver.state = "height"]
    BY <1>6, <1>11 DEF Negotiation
  <2>2. "height" \in Between
    BY DEF Between
  <2>3. \A y \in Nat :
          Turned(t, [t EXCEPT !.driver.width = @ + y, !.driver.state = "height"], "height",
                 a + y, b, c)
    BY <2>2, WentTo
  <2>4. ASSUME NEW ch \in Nat \ {0} PROVE Turned(t, Byte(t, ch), "height", a + ch, b, c)
    <3>1. Byte(t, ch) = [t EXCEPT !.driver.width = @ + ch, !.driver.state = "height"]
      BY <2>1
    <3>2. Turned(t, [t EXCEPT !.driver.width = @ + ch, !.driver.state = "height"], "height",
                 a + ch, b, c)
      BY <2>3
    <3> QED BY <3>1, <3>2
  <2> QED BY <2>4
<1>12. ASSUME t.driver.state = "height"
       PROVE  \A ch \in Nat \ {0} : Turned(t, Byte(t, ch), "till_se", a, b + ch, c)
  <2>1. \A ch \in Nat \ {0} :
           Byte(t, ch) = [t EXCEPT !.driver.height = @ + ch, !.driver.state = "till_se"]
    BY <1>6, <1>12 DEF Negotiation
  <2>2. "till_se" \in Between
    BY DEF Between
  <2>3. \A y \in Nat :
          Turned(t, [t EXCEPT !.driver.height = @ + y, !.driver.state = "till_se"], "till_se",
                 a, b + y, c)
    BY <2>2, WentTo
  <2>4. ASSUME NEW ch \in Nat \ {0} PROVE Turned(t, Byte(t, ch), "till_se", a, b + ch, c)
    <3>1. Byte(t, ch) = [t EXCEPT !.driver.height = @ + ch, !.driver.state = "till_se"]
      BY <2>1
    <3>2. Turned(t, [t EXCEPT !.driver.height = @ + ch, !.driver.state = "till_se"], "till_se",
                 a, b + ch, c)
      BY <2>3
    <3> QED BY <3>1, <3>2
  <2> QED BY <2>4
<1>13. ASSUME t.driver.state = "till_se"
       PROVE  Byte(t, 255) = t /\ Turned(t, Byte(t, 240), "normal", a, b, c)
  <2>1. Byte(t, 255) = t /\ Byte(t, 240) = Goto(t, "normal")
    BY <1>6, <1>13 DEF Negotiation, SE
  <2>2. "normal" \in Between
    BY DEF Between
  <2> QED BY <1>3, <2>1, <2>2
<1> QED BY <1>4, <1>5, <1>7, <1>9, <1>10, <1>11, <1>12, <1>13

\* A line buffer after a key.
EditOf(l, p, c) == [line |-> l, pos |-> p, commands |-> c]

WithLetter(e, ch) ==
    EditOf(SubSeq(e.line, 1, e.pos) \o <<ch>> \o SubSeq(e.line, e.pos + 1, Len(e.line)),
           e.pos + 1, e.commands)

WithoutLetter(e) ==
    IF e.pos = 0 THEN e
    ELSE EditOf(SubSeq(e.line, 1, e.pos - 1) \o SubSeq(e.line, e.pos + 1, Len(e.line)),
                e.pos - 1, e.commands)

Entered(e) == EditOf(<<>>, 0, Append(e.commands, e.line))

\* The characters that are typed.
Typable == 32..126

\* A letter is read.
LEMMA LetterRead ==
    ASSUME NEW s, NEW w, NEW n \in Nat, NEW t, Leads(s, w, n, t), Ready(t), NEW k, k = n + 1,
           NEW ch \in Typable, w[k] = ch
    PROVE  \E u : /\ Leads(s, w, k, u) /\ Ready(u) /\ u.driver = t.driver
                  /\ u.edit = WithLetter(t.edit, ch)
<1>1. Plain(t) /\ Sound(t) /\ t.driver.state = "normal" /\ t.echo = TRUE
  BY DEF Ready, Plain
<1>2. PICK u : u = Character(t, ch)
  OBVIOUS
<1>3. Byte(t, w[k]) = u
  <2>1. ch \in Nat /\ ch >= 32 /\ ch <= 126
    BY DEF Typable
  <2>2. Byte(t, ch) = Key(t, ch)
    BY <1>1, <2>1 DEF Byte, NUL, IAC, ESC
  <2>3. ch # 13 /\ ch # 127 /\ ch \in 32..255 \ {127}
    BY <2>1
  <2>4. Key(t, ch) = Character(t, ch)
    BY <2>3 DEF Key, CR, DEL
  <2> QED BY <1>2, <2>2, <2>4
<1>4. /\ Sound(u) /\ u.driver = t.driver /\ u.echo = t.echo /\ u.esc = t.esc
      /\ u.code = t.code
      /\ u.edit = [line |-> SubSeq(t.edit.line, 1, t.edit.pos) \o <<ch>>
                            \o SubSeq(t.edit.line, t.edit.pos + 1, Len(t.edit.line)),
                   pos |-> t.edit.pos + 1, commands |-> t.edit.commands]
  <2>1. ch \in Char
    BY DEF Char, Typable
  <2> QED BY ONLY <1>1, <1>2, <2>1, CharacterShown
<1>5. Plain(u) /\ Ready(u)
  BY <1>1, <1>4 DEF Plain, Ready
<1>6. Leads(s, w, k, u)
  BY <1>1, <1>3, <1>5, PlainOn
<1> QED BY <1>4, <1>5, <1>6 DEF WithLetter, EditOf

\* A backspace is read.
LEMMA BackspaceRead ==
    ASSUME NEW s, NEW w, NEW n \in Nat, NEW t, Leads(s, w, n, t), Ready(t), NEW k, k = n + 1,
           w[k] = 127
    PROVE  \E u : /\ Leads(s, w, k, u) /\ Ready(u) /\ u.driver = t.driver
                  /\ u.edit = WithoutLetter(t.edit)
<1>1. Plain(t) /\ Sound(t) /\ t.driver.state = "normal" /\ t.echo = TRUE
  BY DEF Ready, Plain
<1>2. PICK u : u = Backspace(t)
  OBVIOUS
<1>3. Byte(t, w[k]) = u
  <2>1. Byte(t, 127) = Key(t, 127)
    BY <1>1 DEF Byte, NUL, IAC, ESC
  <2>2. Key(t, 127) = Backspace(t)
    BY DEF Key, CR, DEL
  <2> QED BY <1>2, <2>1, <2>2
<1>4. /\ Sound(u) /\ u.driver = t.driver /\ u.echo = t.echo /\ u.esc = t.esc
      /\ u.code = t.code
      /\ u.edit = IF t.edit.pos = 0 THEN t.edit
                  ELSE [line |-> SubSeq(t.edit.line, 1, t.edit.pos - 1)
                                 \o SubSeq(t.edit.line, t.edit.pos + 1, Len(t.edit.line)),
                        pos |-> t.edit.pos - 1, commands |-> t.edit.commands]
  BY ONLY <1>1, <1>2, BackspaceShown
<1>5. Plain(u) /\ Ready(u)
  BY <1>1, <1>4 DEF Plain, Ready
<1>6. Leads(s, w, k, u)
  BY <1>1, <1>3, <1>5, PlainOn
<1> QED BY <1>4, <1>5, <1>6 DEF WithoutLetter, EditOf

\* An Enter is read, with the zero byte behind it.
LEMMA EnterRead ==
    ASSUME NEW s, NEW w, NEW n \in Nat, NEW t, Leads(s, w, n, t), Ready(t), NEW k, k = n + 1,
           NEW z, z = k + 1, w[k] = 13, w[z] = 0
    PROVE  \E u : /\ Leads(s, w, z, u) /\ Ready(u) /\ u.driver = t.driver
                  /\ u.edit = Entered(t.edit)
<1>1. Plain(t) /\ Sound(t) /\ t.driver.state = "normal" /\ t.echo = TRUE
  BY DEF Ready, Plain
<1>2. PICK u : u = Command(t)
  OBVIOUS
<1>3. Byte(t, w[k]) = u
  <2>1. Byte(t, 13) = Key(t, 13)
    BY <1>1 DEF Byte, NUL, IAC, ESC
  <2>2. Key(t, 13) = Command(t)
    BY DEF Key, CR, DEL
  <2> QED BY <1>2, <2>1, <2>2
<1>4. /\ Sound(u) /\ u.driver = t.driver /\ u.echo = t.echo /\ u.esc = t.esc
      /\ u.code = t.code
      /\ u.edit = [line |-> <<>>, pos |-> 0,
                   commands |-> Append(t.edit.commands, t.edit.line)]
  BY ONLY <1>1, <1>2, CommandShown
<1>5. Plain(u) /\ Ready(u)
  BY <1>1, <1>4 DEF Plain, Ready
<1>6. Leads(s, w, k, u)
  BY <1>1, <1>3, <1>5, PlainOn
<1>7. Byte(u, w[z]) = u
  BY DEF Byte, NUL
<1>8. k \in Nat
  OBVIOUS
<1>9. Leads(s, w, z, u)
  BY <1>5, <1>6, <1>7, <1>8, PlainOn
<1> QED BY <1>4, <1>5, <1>9 DEF Entered, EditOf

\* An arrow is read.
LEMMA ArrowRead ==
    ASSUME NEW s, NEW w, NEW n \in Nat, NEW t, Leads(s, w, n, t), Ready(t), NEW k, k = n + 1,
           NEW y, y = k + 1, NEW z, z = y + 1, w[k] = 27, w[y] = 91, w[z] \in {67, 68},
           NEW o \in {1, -1}, (w[z] = 67) <=> (o = 1)
    PROVE  \E u : /\ Leads(s, w, z, u) /\ Ready(u) /\ u.driver = t.driver
                  /\ u.edit = Seek(t.edit, o)
<1>1. Plain(t) /\ Sound(t) /\ t.driver.state = "normal" /\ t.echo = TRUE /\ t \in Reading
      /\ t.driver \in Driver
  BY DEF Ready, Plain, Sound, Reading, Driver
<1>0. k \in Nat /\ y \in Nat /\ z \in Nat /\ k >= 1 /\ y - 1 = k /\ y >= 2
  OBVIOUS
\* The escape begins.
<1>2. PICK d : d = [t.driver EXCEPT !.state = "esc"]
  OBVIOUS
<1>3. d \in Driver /\ d.state = "esc" /\ d.width = t.driver.width /\ d.height = t.driver.height
  BY <1>1, <1>2 DEF Driver
<1>4. PICK a : a = Byte(t, 27)
  OBVIOUS
<1>5. a = [[t EXCEPT !.driver = d] EXCEPT !.esc = "code", !.code = 0]
  <2>1. a = [Goto(t, "esc") EXCEPT !.esc = "code", !.code = 0]
    BY <1>1, <1>4 DEF Byte, NUL, IAC, ESC
  <2>2. Goto(t, "esc") = [t EXCEPT !.driver = d]
    BY <1>1, <1>2 DEF Goto, Reading
  <2> QED BY <2>1, <2>2
<1>6. /\ a \in Reading /\ a.driver = d /\ a.edit = t.edit /\ a.screen = t.screen
      /\ a.echo = TRUE /\ a.esc = "code" /\ a.code = 0
  <2>1. PICK v : v = [t EXCEPT !.driver = d]
    OBVIOUS
  <2>2. /\ v \in Reading /\ v.driver = d /\ v.edit = t.edit /\ v.screen = t.screen
        /\ v.echo = TRUE
    BY <1>1, <1>3, <2>1 DEF Reading, Driver
  <2>3. a = [v EXCEPT !.esc = "code", !.code = 0]
    BY <1>5, <2>1
  <2> QED BY <2>2, <2>3 DEF Reading
<1>7. Sound(a)
  BY <1>1, <1>6 DEF Sound
<1>8. Leads(s, w, k, a)
  <2>1. a = Step(t, w[k])
    BY <1>1, <1>4 DEF Step
  <2>2. Place(a, w, k) /\ Follows(t, w[k])
    BY <1>0, <1>1, <1>3, <1>6, <1>7 DEF Place, Follows, ESC
  <2> QED BY <2>1, <2>2, LeadsOn
\* The bracket.
<1>9. PICK b : b = [a EXCEPT !.esc = "param1"]
  OBVIOUS
<1>10. /\ b \in Reading /\ b.driver = d /\ b.edit = t.edit /\ b.screen = t.screen
       /\ b.echo = TRUE /\ b.esc = "param1" /\ b.code = 0
  BY <1>6, <1>9 DEF Reading
<1>11. Sound(b)
  BY <1>1, <1>10 DEF Sound
<1>12. Leads(s, w, y, b)
  <2>1. Byte(a, 91) = b
    BY <1>3, <1>6, <1>9 DEF Byte, NUL, InEscape, BRACKET
  <2>2. b = Step(a, w[y])
    BY <1>6, <2>1 DEF Step
  <2>3. Place(b, w, y) /\ Follows(a, w[y])
    BY <1>0, <1>3, <1>6, <1>10, <1>11 DEF Place, Follows, ESC
  <2> QED BY <1>0, <1>8, <2>2, <2>3, LeadsOn
\* The code.
<1>13. PICK c : c = [b EXCEPT !.code = w[z]]
  OBVIOUS
<1>14. /\ c \in Reading /\ c.driver = d /\ c.edit = t.edit /\ c.screen = t.screen
       /\ c.echo = TRUE
  BY <1>10, <1>13 DEF Reading
<1>15. Sound(c)
  BY <1>1, <1>14 DEF Sound
<1>16. PICK v : v = Move(c, o)
  OBVIOUS
<1>17. Byte(b, w[z]) = v
  <2>1. Byte(b, w[z]) = InEscape(b, w[z])
    BY <1>3, <1>10 DEF Byte, NUL
  <2>2. InEscape(b, w[z]) = Escape(c, w[z])
    BY <1>10, <1>13 DEF InEscape
  <2>3. Escape(c, w[z]) = Move(c, o)
    <3>1. CASE w[z] = 67
      <4>1. o = 1
        BY <3>1
      <4>2. Escape(c, 67) = Move(c, 1)
        BY ONLY DEF Escape, Right, Left
      <4> QED BY ONLY <3>1, <4>1, <4>2, Zenon
    <3>2. CASE w[z] = 68
      BY ONLY (w[z] = 67) <=> (o = 1), o \in {1, -1}, <3>2 DEF Escape, Right, Left
    <3> QED BY <3>1, <3>2
  <2> QED BY <1>16, <2>1, <2>2, <2>3
<1>18. /\ Sound(v) /\ v.driver = d /\ v.echo = TRUE
       /\ v.edit = Seek(t.edit, o)
  <2>1. Sound(v) /\ v.driver = c.driver /\ v.echo = c.echo
    BY ONLY <1>15, <1>16, o \in {1, -1}, MoveShown
  <2>2. v.edit = Seek(c.edit, o)
    BY ONLY <1>15, <1>16, o \in {1, -1}, MoveShown
  <2> QED BY <1>14, <2>1, <2>2
<1>19. PICK u : u = [BurstEnds(v) EXCEPT !.esc = "code", !.code = 0]
  OBVIOUS
<1>20. /\ u \in Reading /\ u.driver = t.driver /\ u.edit = v.edit /\ u.screen = v.screen
       /\ u.echo = TRUE /\ u.esc = "code" /\ u.code = 0
  <2>1. v \in Reading
    BY <1>18 DEF Sound
  <2>2. BurstEnds(v) = [v EXCEPT !.driver.state = "normal"]
    BY <1>3, <1>18 DEF BurstEnds, Goto
  <2>3. [d EXCEPT !.state = "normal"] = t.driver
    BY <1>1, <1>2 DEF Driver
  <2>4. PICK e : e = [v EXCEPT !.driver = t.driver]
    OBVIOUS
  <2>5. BurstEnds(v) = e
    BY <1>18, <2>1, <2>2, <2>3, <2>4 DEF Reading
  <2>6. /\ e \in Reading /\ e.driver = t.driver /\ e.edit = v.edit /\ e.screen = v.screen
        /\ e.echo = TRUE
    BY <1>1, <1>18, <2>1, <2>4 DEF Reading, Driver
  <2> QED BY <1>19, <2>5, <2>6 DEF Reading
<1>21. Plain(u) /\ Ready(u)
  <2>1. Sound(u)
    BY <1>18, <1>20 DEF Sound
  <2> QED BY <1>1, <1>20, <2>1 DEF Plain, Ready
<1>22. Leads(s, w, z, u)
  <2>1. u = Step(b, w[z])
    BY <1>3, <1>10, <1>17, <1>19 DEF Step
  <2>2. Place(u, w, z) /\ Follows(b, w[z])
    BY <1>10, <1>21 DEF Place, Follows
  <2> QED BY <1>0, <1>12, <2>1, <2>2, LeadsOn
<1> QED BY <1>18, <1>20, <1>21, <1>22

\* What a byte does in a state of the negotiation.
Turns(x, a, b, c, ch, y, p, q, r) ==
    \A t : /\ Plain(t) /\ t.driver.state = x /\ t.driver.width = a /\ t.driver.height = b
           /\ t.echo = c
           => \/ Turned(t, Byte(t, ch), y, p, q, r)
              \/ Byte(t, ch) = t /\ y = x /\ p = a /\ q = b /\ r = c

\* The bytes of a negotiation, one by one.
LEMMA TurnsTable ==
    ASSUME NEW a, NEW b, NEW c
    PROVE  /\ \A x : Turns(x, a, b, c, 0, x, a, b, c)
           /\ Turns("normal", a, b, c, 255, "iac", a, b, c)
           /\ Turns("iac", a, b, c, 250, "sb", a, b, c)
           /\ Turns("iac", a, b, c, 251, "will", a, b, c)
           /\ Turns("iac", a, b, c, 253, "do", a, b, c)
           /\ Turns("do", a, b, c, 1, "normal", a, b, TRUE)
           /\ \A ch \in {31, 24} : Turns("will", a, b, c, ch, "normal", a, b, c)
           /\ Turns("sb", a, b, c, 31, "width", 0, 0, c)
           /\ \A ch \in Nat \ {0} : Turns("width", a, b, c, ch, "height", a + ch, b, c)
           /\ \A ch \in Nat \ {0} : Turns("height", a, b, c, ch, "till_se", a, b + ch, c)
           /\ Turns("till_se", a, b, c, 255, "till_se", a, b, c)
           /\ Turns("till_se", a, b, c, 240, "normal", a, b, c)
<1>0. ASSUME NEW x PROVE Turns(x, a, b, c, 0, x, a, b, c)
  BY Negotiated DEF Turns
<1>1. Turns("normal", a, b, c, 255, "iac", a, b, c)
  <2>1. ASSUME NEW t, Plain(t), t.driver.state = "normal", t.driver.width = a, t.driver.height = b,
               t.echo = c
        PROVE  Turned(t, Byte(t, 255), "iac", a, b, c)
    BY <2>1, Negotiated
  <2> QED BY <2>1 DEF Turns
<1>2. Turns("iac", a, b, c, 250, "sb", a, b, c)
  <2>1. ASSUME NEW t, Plain(t), t.driver.state = "iac", t.driver.width = a, t.driver.height = b,
               t.echo = c
        PROVE  Turned(t, Byte(t, 250), "sb", a, b, c)
    BY <2>1, Negotiated
  <2> QED BY <2>1 DEF Turns
<1>3. Turns("iac", a, b, c, 251, "will", a, b, c)
  <2>1. ASSUME NEW t, Plain(t), t.driver.state = "iac", t.driver.width = a, t.driver.height = b,
               t.echo = c
        PROVE  Turned(t, Byte(t, 251), "will", a, b, c)
    BY <2>1, Negotiated
  <2> QED BY <2>1 DEF Turns
<1>4. Turns("iac", a, b, c, 253, "do", a, b, c)
  <2>1. ASSUME NEW t, Plain(t), t.driver.state = "iac", t.driver.width = a, t.driver.height = b,
               t.echo = c
        PROVE  Turned(t, Byte(t, 253), "do", a, b, c)
    BY <2>1, Negotiated
  <2> QED BY <2>1 DEF Turns
<1>5. Turns("do", a, b, c, 1, "normal", a, b, TRUE)
  <2>1. ASSUME NEW t, Plain(t), t.driver.state = "do", t.driver.width = a, t.driver.height = b,
               t.echo = c
        PROVE  Turned(t, Byte(t, 1), "normal", a, b, TRUE)
    BY <2>1, Consented
  <2> QED BY <2>1 DEF Turns
<1>6. ASSUME NEW ch \in {31, 24} PROVE Turns("will", a, b, c, ch, "normal", a, b, c)
  <2>1. ASSUME NEW t, Plain(t), t.driver.state = "will", t.driver.width = a, t.driver.height = b,
               t.echo = c
        PROVE  Turned(t, Byte(t, ch), "normal", a, b, c)
    BY <2>1, Negotiated
  <2> QED BY <2>1 DEF Turns
<1>7. Turns("sb", a, b, c, 31, "width", 0, 0, c)
  <2>1. ASSUME NEW t, Plain(t), t.driver.state = "sb", t.driver.width = a, t.driver.height = b,
               t.echo = c
        PROVE  Turned(t, Byte(t, 31), "width", 0, 0, c)
    BY <2>1, Negotiated
  <2> QED BY <2>1 DEF Turns
<1>8. ASSUME NEW ch \in Nat \ {0} PROVE Turns("width", a, b, c, ch, "height", a + ch, b, c)
  <2>1. ASSUME NEW t, Plain(t), t.driver.state = "width", t.driver.width = a, t.driver.height = b,
               t.echo = c
        PROVE  Turned(t, Byte(t, ch), "height", a + ch, b, c)
    BY <2>1, Negotiated
  <2> QED BY <2>1 DEF Turns
<1>9. ASSUME NEW ch \in Nat \ {0} PROVE Turns("height", a, b, c, ch, "till_se", a, b + ch, c)
  <2>1. ASSUME NEW t, Plain(t), t.driver.state = "height", t.driver.width = a, t.driver.height = b,
               t.echo = c
        PROVE  Turned(t, Byte(t, ch), "till_se", a, b + ch, c)
    BY <2>1, Negotiated
  <2> QED BY <2>1 DEF Turns
<1>10. Turns("till_se", a, b, c, 240, "normal", a, b, c)
  <2>1. ASSUME NEW t, Plain(t), t.driver.state = "till_se", t.driver.width = a, t.driver.height = b,
               t.echo = c
        PROVE  Turned(t, Byte(t, 240), "normal", a, b, c)
    BY <2>1, Negotiated
  <2> QED BY <2>1 DEF Turns
<1>11. Turns("till_se", a, b, c, 255, "till_se", a, b, c)
  <2>1. ASSUME NEW t, Plain(t), t.driver.state = "till_se" PROVE Byte(t, 255) = t
    BY <2>1, Negotiated
  <2> QED BY <2>1 DEF Turns
<1> QED BY <1>0, <1>1, <1>2, <1>3, <1>4, <1>5, <1>6, <1>7, <1>8, <1>9, <1>10, <1>11

\* The first n bytes of w lead from s to this state of the negotiation.
Reaches(s, w, n, x, a, b, c, e) ==
    \E t : /\ Leads(s, w, n, t) /\ Plain(t) /\ t.edit = e /\ t.echo = c
           /\ t.driver.state = x /\ t.driver.width = a /\ t.driver.height = b

\* One byte more of a negotiation.
LEMMA NegotiationOn ==
    ASSUME NEW s, NEW w, NEW n \in Nat, NEW x, NEW a, NEW b, NEW c, NEW e,
           Reaches(s, w, n, x, a, b, c, e), NEW k, k = n + 1, NEW ch, w[k] = ch,
           NEW y, NEW p, NEW q, NEW r, Turns(x, a, b, c, ch, y, p, q, r)
    PROVE  Reaches(s, w, k, y, p, q, r, e)
<1>1. PICK t : /\ Leads(s, w, n, t) /\ Plain(t) /\ t.edit = e /\ t.echo = c
               /\ t.driver.state = x /\ t.driver.width = a /\ t.driver.height = b
  BY DEF Reaches
<1>2. PICK u : u = Byte(t, ch)
  OBVIOUS
<1>3. \/ Turned(t, u, y, p, q, r)
      \/ u = t /\ y = x /\ p = a /\ q = b /\ r = c
  BY <1>1, <1>2 DEF Turns
<1>4. /\ Plain(u) /\ u.edit = e /\ u.echo = r
      /\ u.driver.state = y /\ u.driver.width = p /\ u.driver.height = q
  BY <1>1, <1>3 DEF Turned
<1>5. u = Byte(t, w[k])
  BY <1>2
<1>6. Leads(s, w, k, u)
  BY ONLY n \in Nat, k = n + 1, <1>1, <1>4, <1>5, PlainOn
<1> QED BY <1>4, <1>6 DEF Reaches


\* An answer that offers an option is read.
LEMMA OfferRead ==
    ASSUME NEW s, NEW w, NEW n \in Nat, NEW a, NEW b, NEW c, NEW e,
           Reaches(s, w, n, "normal", a, b, c, e), NEW option \in {31, 24},
           w[n + 1] = 255, w[n + 2] = 251, w[n + 3] = option
    PROVE  Reaches(s, w, n + 3, "normal", a, b, c, e)
<1>1. PICK k1 : k1 = n + 1
  OBVIOUS
<1>2. PICK k2 : k2 = n + 2
  OBVIOUS
<1>3. PICK k3 : k3 = n + 3
  OBVIOUS
<1>4. k1 \in Nat /\ k2 \in Nat /\ k3 \in Nat
  BY <1>1, <1>2, <1>3
<1>5. k1 = n + 1 /\ k2 = k1 + 1 /\ k3 = k2 + 1
  BY <1>1, <1>2, <1>3
<1>6. w[k1] = 255 /\ w[k2] = 251 /\ w[k3] = option
  BY <1>1, <1>2, <1>3
<1>7. Reaches(s, w, k1, "iac", a, b, c, e)
  <2>1. Turns("normal", a, b, c, 255, "iac", a, b, c)
    BY ONLY TurnsTable
  <2> QED BY ONLY Reaches(s, w, n, "normal", a, b, c, e), n \in Nat, <1>4, <1>5, <1>6, <2>1, NegotiationOn
<1>8. Reaches(s, w, k2, "will", a, b, c, e)
  <2>1. Turns("iac", a, b, c, 251, "will", a, b, c)
    BY ONLY TurnsTable
  <2> QED BY ONLY <1>7, <1>4, <1>5, <1>6, <2>1, NegotiationOn
<1>9. Reaches(s, w, k3, "normal", a, b, c, e)
  <2>1. Turns("will", a, b, c, option, "normal", a, b, c)
    BY ONLY option \in {31, 24}, TurnsTable
  <2> QED BY ONLY <1>8, <1>4, <1>5, <1>6, <2>1, NegotiationOn
<1> QED BY <1>3, <1>9

\* The client's consent to an echo is read.
LEMMA ConsentRead ==
    ASSUME NEW s, NEW w, NEW n \in Nat, NEW a, NEW b, NEW c, NEW e,
           Reaches(s, w, n, "normal", a, b, c, e), NEW d, d = TRUE,
           w[n + 1] = 255, w[n + 2] = 253, w[n + 3] = 1
    PROVE  Reaches(s, w, n + 3, "normal", a, b, d, e)
<1>1. PICK k1 : k1 = n + 1
  OBVIOUS
<1>2. PICK k2 : k2 = n + 2
  OBVIOUS
<1>3. PICK k3 : k3 = n + 3
  OBVIOUS
<1>4. k1 \in Nat /\ k2 \in Nat /\ k3 \in Nat
  BY <1>1, <1>2, <1>3
<1>5. k1 = n + 1 /\ k2 = k1 + 1 /\ k3 = k2 + 1
  BY <1>1, <1>2, <1>3
<1>6. w[k1] = 255 /\ w[k2] = 253 /\ w[k3] = 1
  BY <1>1, <1>2, <1>3
<1>7. Reaches(s, w, k1, "iac", a, b, c, e)
  <2>1. Turns("normal", a, b, c, 255, "iac", a, b, c)
    BY ONLY TurnsTable
  <2> QED BY ONLY Reaches(s, w, n, "normal", a, b, c, e), n \in Nat, <1>4, <1>5, <1>6, <2>1, NegotiationOn
<1>8. Reaches(s, w, k2, "do", a, b, c, e)
  <2>1. Turns("iac", a, b, c, 253, "do", a, b, c)
    BY ONLY TurnsTable
  <2> QED BY ONLY <1>7, <1>4, <1>5, <1>6, <2>1, NegotiationOn
<1>9. Reaches(s, w, k3, "normal", a, b, d, e)
  <2>1. Turns("do", a, b, c, 1, "normal", a, b, d)
    BY ONLY d = TRUE, TurnsTable
  <2> QED BY ONLY <1>8, <1>4, <1>5, <1>6, <2>1, NegotiationOn
<1> QED BY <1>3, <1>9

\* The nine bytes with the size of a window.
WindowAt(w, n, width, height) ==
    /\ w[n + 1] = 255 /\ w[n + 2] = 250 /\ w[n + 3] = 31 /\ w[n + 4] = 0
    /\ w[n + 5] = width /\ w[n + 6] = 0 /\ w[n + 7] = height /\ w[n + 8] = 255
    /\ w[n + 9] = 240

\* The size of a window is read.
LEMMA WindowRead ==
    ASSUME NEW s, NEW w, NEW n \in Nat, NEW a, NEW b, NEW c, NEW e,
           Reaches(s, w, n, "normal", a, b, c, e),
           NEW width \in Nat \ {0}, NEW height \in Nat \ {0},
           WindowAt(w, n, width, height)
    PROVE  Reaches(s, w, n + 9, "normal", width, height, c, e)
<1>1. PICK k1 : k1 = n + 1
  OBVIOUS
<1>2. PICK k2 : k2 = n + 2
  OBVIOUS
<1>3. PICK k3 : k3 = n + 3
  OBVIOUS
<1>4. PICK k4 : k4 = n + 4
  OBVIOUS
<1>5. PICK k5 : k5 = n + 5
  OBVIOUS
<1>6. PICK k6 : k6 = n + 6
  OBVIOUS
<1>7. PICK k7 : k7 = n + 7
  OBVIOUS
<1>8. PICK k8 : k8 = n + 8
  OBVIOUS
<1>9. PICK k9 : k9 = n + 9
  OBVIOUS
<1>10. k1 \in Nat /\ k2 \in Nat /\ k3 \in Nat /\ k4 \in Nat /\ k5 \in Nat /\ k6 \in Nat /\ k7 \in Nat /\ k8 \in Nat /\ k9 \in Nat
  BY <1>1, <1>2, <1>3, <1>4, <1>5, <1>6, <1>7, <1>8, <1>9
<1>11. k1 = n + 1 /\ k2 = k1 + 1 /\ k3 = k2 + 1 /\ k4 = k3 + 1 /\ k5 = k4 + 1 /\ k6 = k5 + 1 /\ k7 = k6 + 1 /\ k8 = k7 + 1 /\ k9 = k8 + 1
  BY <1>1, <1>2, <1>3, <1>4, <1>5, <1>6, <1>7, <1>8, <1>9
<1>12. w[k1] = 255 /\ w[k2] = 250 /\ w[k3] = 31 /\ w[k4] = 0 /\ w[k5] = width /\ w[k6] = 0 /\ w[k7] = height /\ w[k8] = 255 /\ w[k9] = 240
  BY <1>1, <1>2, <1>3, <1>4, <1>5, <1>6, <1>7, <1>8, <1>9 DEF WindowAt
<1>13. Reaches(s, w, k1, "iac", a, b, c, e)
  <2>1. Turns("normal", a, b, c, 255, "iac", a, b, c)
    BY ONLY TurnsTable
  <2> QED BY ONLY Reaches(s, w, n, "normal", a, b, c, e), n \in Nat, <1>10, <1>11, <1>12, <2>1, NegotiationOn
<1>14. Reaches(s, w, k2, "sb", a, b, c, e)
  <2>1. Turns("iac", a, b, c, 250, "sb", a, b, c)
    BY ONLY TurnsTable
  <2> QED BY ONLY <1>13, <1>10, <1>11, <1>12, <2>1, NegotiationOn
<1>15. Reaches(s, w, k3, "width", 0, 0, c, e)
  <2>1. Turns("sb", a, b, c, 31, "width", 0, 0, c)
    BY ONLY TurnsTable
  <2> QED BY ONLY <1>14, <1>10, <1>11, <1>12, <2>1, NegotiationOn
<1>16. Reaches(s, w, k4, "width", 0, 0, c, e)
  <2>1. Turns("width", 0, 0, c, 0, "width", 0, 0, c)
    BY ONLY TurnsTable
  <2> QED BY ONLY <1>15, <1>10, <1>11, <1>12, <2>1, NegotiationOn
<1>17. Reaches(s, w, k5, "height", width, 0, c, e)
  <2>1. Turns("width", 0, 0, c, width, "height", width, 0, c)
    <3>1. Turns("width", 0, 0, c, width, "height", 0 + width, 0, c)
      BY ONLY width \in Nat \ {0}, TurnsTable
    <3> QED BY ONLY width \in Nat \ {0}, <3>1
  <2> QED BY ONLY <1>16, <1>10, <1>11, <1>12, <2>1, NegotiationOn
<1>18. Reaches(s, w, k6, "height", width, 0, c, e)
  <2>1. Turns("height", width, 0, c, 0, "height", width, 0, c)
    BY ONLY TurnsTable
  <2> QED BY ONLY <1>17, <1>10, <1>11, <1>12, <2>1, NegotiationOn
<1>19. Reaches(s, w, k7, "till_se", width, height, c, e)
  <2>1. Turns("height", width, 0, c, height, "till_se", width, height, c)
    <3>1. Turns("height", width, 0, c, height, "till_se", width, 0 + height, c)
      BY ONLY height \in Nat \ {0}, TurnsTable
    <3> QED BY ONLY height \in Nat \ {0}, <3>1
  <2> QED BY ONLY <1>18, <1>10, <1>11, <1>12, <2>1, NegotiationOn
<1>20. Reaches(s, w, k8, "till_se", width, height, c, e)
  <2>1. Turns("till_se", width, height, c, 255, "till_se", width, height, c)
    BY ONLY TurnsTable
  <2> QED BY ONLY <1>19, <1>10, <1>11, <1>12, <2>1, NegotiationOn
<1>21. Reaches(s, w, k9, "normal", width, height, c, e)
  <2>1. Turns("till_se", width, height, c, 240, "normal", width, height, c)
    BY ONLY TurnsTable
  <2> QED BY ONLY <1>20, <1>10, <1>11, <1>12, <2>1, NegotiationOn
<1> QED BY <1>9, <1>21

-----------------------------------------------------------------------------
(* What has been meant, and what the bytes on their way lead to.           *)

Meaning == [line : Seq(Char), pos : Nat, commands : Seq(Seq(Char)), width : Nat, height : Nat]

MeantEdit(m) == EditOf(m.line, m.pos, m.commands)

\* The record between two keys is what is meant.
IsMeant(t, m) ==
    /\ Ready(t) /\ t.edit = MeantEdit(m)
    /\ t.driver.width = m.width /\ t.driver.height = m.height

\* The first n bytes of w lead from s to what is meant.
Heads(s, w, n, m) == \E t : Leads(s, w, n, t) /\ IsMeant(t, m)

\* All bytes of w lead from s to what is meant.
Fed(s, w, m) == w \in Seq(Nat) /\ m \in Meaning /\ Heads(s, w, Len(w), m)

\* A meaning with another line.
MeantOf(m, l, p, c) == [m EXCEPT !.line = l, !.pos = p, !.commands = c]

\* A record between two keys stands for a meaning.
LEMMA MeantSet ==
    ASSUME NEW m \in Meaning, NEW s, NEW v, NEW n, NEW u, Leads(s, v, n, u), Ready(u),
           NEW l, NEW p, NEW c, u.edit = EditOf(l, p, c),
           u.driver.width = m.width, u.driver.height = m.height,
           NEW r, r = MeantOf(m, l, p, c)
    PROVE  r \in Meaning /\ Heads(s, v, n, r)
<1>1. Sound(u)
  BY DEF Ready, Plain
<1>2. /\ u.edit.line \in Seq(Char) /\ u.edit.pos \in Nat
      /\ u.edit.commands \in Seq(Seq(Char))
  BY <1>1, SoundParts
<1>3. l \in Seq(Char) /\ p \in Nat /\ c \in Seq(Seq(Char))
  BY <1>2 DEF EditOf
<1>4. r = [m EXCEPT !.line = l, !.pos = p, !.commands = c]
  BY DEF MeantOf
<1>5. /\ r \in Meaning /\ r.line = l /\ r.pos = p /\ r.commands = c
      /\ r.width = m.width /\ r.height = m.height
  BY <1>3, <1>4 DEF Meaning
<1>6. u.edit = MeantEdit(r)
  BY <1>5 DEF MeantEdit, EditOf
<1> QED BY <1>5, <1>6 DEF Heads, IsMeant

\* The bytes of a key go behind those on their way.
LEMMA Behind ==
    ASSUME NEW s, NEW w \in Seq(Nat), NEW m, Heads(s, w, Len(w), m), NEW b \in Seq(Nat),
           NEW v, v = w \o b
    PROVE  /\ v \in Seq(Nat) /\ Len(w) \in Nat /\ Len(v) = Len(w) + Len(b)
           /\ \A i \in 1..Len(b) : v[Len(w) + i] = b[i]
           /\ Heads(s, v, Len(w), m)
<1>1. /\ v \in Seq(Nat) /\ Len(v) = Len(w) + Len(b)
      /\ \A i \in 1..Len(w) : v[i] = w[i]
      /\ \A i \in 1..Len(b) : v[Len(w) + i] = b[i]
  BY ONLY w \in Seq(Nat), b \in Seq(Nat), v = w \o b, ConcatProperties
<1>2. Len(w) \in Nat
  BY LenProperties
<1>3. PICK t : Leads(s, w, Len(w), t) /\ IsMeant(t, m)
  BY DEF Heads
<1>4. Leads(s, v, Len(w), t)
  BY <1>1, <1>2, <1>3, SameBytes
<1> QED BY <1>1, <1>2, <1>3, <1>4 DEF Heads

\* The keys are different from each other.
LEMMA KeysDiffer ==
        /\ <<CR, NUL>> \notin {<<ch>> : ch \in Letter}
           /\ <<DEL>> \notin {<<ch>> : ch \in Letter}
           /\ Arrow(Left) \notin {<<ch>> : ch \in Letter}
           /\ Arrow(Right) \notin {<<ch>> : ch \in Letter}
           /\ <<CR, NUL>> # <<DEL>> /\ <<CR, NUL>> # Arrow(Left)
           /\ <<CR, NUL>> # Arrow(Right) /\ <<DEL>> # Arrow(Left)
           /\ <<DEL>> # Arrow(Right) /\ Arrow(Left) # Arrow(Right)
<1>1. /\ Len(<<13, 0>>) = 2 /\ Len(<<127>>) = 1 /\ Len(<<27, 91, 68>>) = 3
      /\ Len(<<27, 91, 67>>) = 3 /\ \A ch : Len(<<ch>>) = 1
  OBVIOUS
<1>2. <<127>> \notin {<<ch>> : ch \in Letter}
  <2>1. ASSUME NEW ch \in Letter PROVE <<127>> # <<ch>>
    <3>1. ch \in 32..126
      BY TerminalAssumption DEF TerminalAssumption
    <3>2. <<ch>>[1] = ch /\ <<127>>[1] = 127
      OBVIOUS
    <3> QED BY <3>1, <3>2
  <2> QED BY <2>1
<1>3. <<27, 91, 68>> # <<27, 91, 67>>
  <2>1. <<27, 91, 68>>[3] = 68 /\ <<27, 91, 67>>[3] = 67
    OBVIOUS
  <2> QED BY <2>1
<1>4. /\ <<CR, NUL>> = <<13, 0>> /\ <<DEL>> = <<127>>
      /\ Arrow(Left) = <<27, 91, 68>> /\ Arrow(Right) = <<27, 91, 67>>
  BY DEF CR, NUL, DEL, Arrow, Left, Right, ESC, BRACKET
<1>5. /\ <<13, 0>> \notin {<<ch>> : ch \in Letter}
      /\ <<27, 91, 68>> \notin {<<ch>> : ch \in Letter}
      /\ <<27, 91, 67>> \notin {<<ch>> : ch \in Letter}
  BY <1>1
<1>6. /\ <<13, 0>> # <<127>> /\ <<13, 0>> # <<27, 91, 68>> /\ <<13, 0>> # <<27, 91, 67>>
      /\ <<127>> # <<27, 91, 68>> /\ <<127>> # <<27, 91, 67>>
  BY <1>1
<1> QED BY ONLY <1>2, <1>3, <1>4, <1>5, <1>6

\* What is meant by each key.
LEMMA MeantKeys ==
    ASSUME NEW m \in Meaning
    PROVE  /\ \A ch \in Letter : Meant(m, <<ch>>) =
                [m EXCEPT !.line = SubSeq(@, 1, m.pos) \o <<ch>> \o SubSeq(@, m.pos + 1, Len(@)),
                          !.pos = @ + 1]
           /\ Meant(m, <<CR, NUL>>) =
                [m EXCEPT !.commands = Append(@, m.line), !.line = <<>>, !.pos = 0]
           /\ Meant(m, <<DEL>>) =
                IF m.pos > 0
                THEN [m EXCEPT !.line = SubSeq(@, 1, m.pos - 1) \o SubSeq(@, m.pos + 1, Len(@)),
                               !.pos = @ - 1]
                ELSE m
           /\ Meant(m, Arrow(Left)) = IF m.pos > 0 THEN [m EXCEPT !.pos = @ - 1] ELSE m
           /\ Meant(m, Arrow(Right)) =
                IF m.pos < Len(m.line) THEN [m EXCEPT !.pos = @ + 1] ELSE m
<1>1. \A ch \in Letter :
         /\ <<ch>> \in {<<x>> : x \in Letter} /\ <<ch>> # <<CR, NUL>> /\ <<ch>> # <<DEL>>
         /\ <<ch>> # Arrow(Left) /\ <<ch>> # Arrow(Right)
  BY KeysDiffer
<1>2. ASSUME NEW ch \in Letter
      PROVE  Meant(m, <<ch>>) =
                [m EXCEPT !.line = SubSeq(@, 1, m.pos) \o <<ch>> \o SubSeq(@, m.pos + 1, Len(@)),
                          !.pos = @ + 1]
  BY <1>1 DEF Meant
<1>3. Meant(m, <<CR, NUL>>) =
                [m EXCEPT !.commands = Append(@, m.line), !.line = <<>>, !.pos = 0]
  BY KeysDiffer DEF Meant
<1>4. Meant(m, <<DEL>>) =
                IF m.pos > 0
                THEN [m EXCEPT !.line = SubSeq(@, 1, m.pos - 1) \o SubSeq(@, m.pos + 1, Len(@)),
                               !.pos = @ - 1]
                ELSE m
  BY KeysDiffer DEF Meant
<1>5. Meant(m, Arrow(Left)) = IF m.pos > 0 THEN [m EXCEPT !.pos = @ - 1] ELSE m
  BY KeysDiffer DEF Meant
<1>6. Meant(m, Arrow(Right)) =
                IF m.pos < Len(m.line) THEN [m EXCEPT !.pos = @ + 1] ELSE m
  BY KeysDiffer DEF Meant
<1> QED BY <1>2, <1>3, <1>4, <1>5, <1>6

\* A letter that is typed.
LEMMA LetterTyped ==
    ASSUME NEW s, NEW w, NEW m, Fed(s, w, m),
           NEW ch \in Letter, NEW v, v = w \o <<ch>>, NEW r, r = Meant(m, <<ch>>)
    PROVE  Fed(s, v, r)
<1> SUFFICES ASSUME w \in Seq(Nat), m \in Meaning, Heads(s, w, Len(w), m)
             PROVE  Fed(s, v, r)
  BY DEF Fed
<1>0. ch \in Typable /\ ch \in Nat
  BY TerminalAssumption DEF TerminalAssumption, Typable
<1>1. PICK n : n = Len(w)
  OBVIOUS
<1>2. <<ch>> \in Seq(Nat) /\ Len(<<ch>>) = 1 /\ <<ch>>[1] = ch
  BY <1>0
<1>3. PICK b : b = <<ch>>
  OBVIOUS
<1>4. /\ v \in Seq(Nat) /\ Len(w) \in Nat /\ Len(v) = Len(w) + Len(b)
      /\ \A i \in 1..Len(b) : v[Len(w) + i] = b[i]
      /\ Heads(s, v, Len(w), m)
  <2>1. b \in Seq(Nat) /\ v = w \o b
    BY <1>2, <1>3
  <2>2. Heads(s, v, Len(w), m)
    BY ONLY w \in Seq(Nat), Heads(s, w, Len(w), m), <2>1, Behind
  <2>3. v \in Seq(Nat) /\ Len(w) \in Nat
    BY ONLY w \in Seq(Nat), Heads(s, w, Len(w), m), <2>1, Behind
  <2>4. Len(v) = Len(w) + Len(b)
    BY ONLY w \in Seq(Nat), Heads(s, w, Len(w), m), <2>1, Behind
  <2>5. \A i \in 1..Len(b) : v[Len(w) + i] = b[i]
    BY ONLY w \in Seq(Nat), Heads(s, w, Len(w), m), <2>1, Behind
  <2> QED BY <2>2, <2>3, <2>4, <2>5
<1>5. PICK t : /\ Leads(s, v, n, t) /\ Ready(t) /\ t.edit = MeantEdit(m)
               /\ t.driver.width = m.width /\ t.driver.height = m.height
  BY <1>1, <1>4 DEF Heads, IsMeant
<1>6. PICK k : k = n + 1
  OBVIOUS
<1>7. n \in Nat /\ Len(v) = k /\ v[k] = ch
  <2>1. 1 \in 1..Len(b)
    BY <1>2, <1>3
  <2> QED BY <1>1, <1>2, <1>3, <1>4, <1>6, <2>1
<1>8. PICK u : /\ Leads(s, v, k, u) /\ Ready(u) /\ u.driver = t.driver
               /\ u.edit = WithLetter(t.edit, ch)
  BY ONLY <1>0, <1>5, <1>6, <1>7, LetterRead
<1>9. t.edit.line = m.line /\ t.edit.pos = m.pos /\ t.edit.commands = m.commands
  BY <1>5 DEF MeantEdit, EditOf
<1>10. PICK l : l = SubSeq(m.line, 1, m.pos) \o <<ch>> \o SubSeq(m.line, m.pos + 1, Len(m.line))
  OBVIOUS
<1>11. PICK p : p = m.pos + 1
  OBVIOUS
<1>12. PICK c : c = m.commands
  OBVIOUS
<1>13. u.edit = EditOf(l, p, c)
  BY <1>8, <1>9, <1>10, <1>11, <1>12 DEF WithLetter
<1>14. r = MeantOf(m, l, p, c)
  <2>1. r = [m EXCEPT !.line = SubSeq(@, 1, m.pos) \o <<ch>> \o SubSeq(@, m.pos + 1, Len(@)),
                      !.pos = @ + 1]
    BY MeantKeys
  <2>2. r = [m EXCEPT !.line = l, !.pos = p]
    BY <1>10, <1>11, <2>1 DEF Meaning
  <2>3. [m EXCEPT !.line = l, !.pos = p] = [m EXCEPT !.line = l, !.pos = p, !.commands = c]
    BY <1>12 DEF Meaning
  <2> QED BY <2>2, <2>3 DEF MeantOf
<1>15. Leads(s, v, Len(v), u) /\ u.driver.width = m.width /\ u.driver.height = m.height
  BY <1>5, <1>7, <1>8
<1>16. r \in Meaning /\ Heads(s, v, Len(v), r)
  BY ONLY m \in Meaning, <1>8, <1>13, <1>14, <1>15, MeantSet
<1> QED BY <1>4, <1>16 DEF Fed

\* An Enter that is typed.
LEMMA EnterTyped ==
    ASSUME NEW s, NEW w, NEW m, Fed(s, w, m),
           NEW v, v = w \o <<13, 0>>, NEW r, r = Meant(m, <<13, 0>>)
    PROVE  Fed(s, v, r)
<1> SUFFICES ASSUME w \in Seq(Nat), m \in Meaning, Heads(s, w, Len(w), m)
             PROVE  Fed(s, v, r)
  BY DEF Fed
<1>1. PICK n : n = Len(w)
  OBVIOUS
<1>2. <<13, 0>> \in Seq(Nat) /\ Len(<<13, 0>>) = 2 /\ <<13, 0>>[1] = 13 /\ <<13, 0>>[2] = 0
  OBVIOUS
<1>3. PICK b : b = <<13, 0>>
  OBVIOUS
<1>4. /\ v \in Seq(Nat) /\ Len(w) \in Nat /\ Len(v) = Len(w) + Len(b)
      /\ \A i \in 1..Len(b) : v[Len(w) + i] = b[i]
      /\ Heads(s, v, Len(w), m)
  <2>1. b \in Seq(Nat) /\ v = w \o b
    BY <1>2, <1>3
  <2>2. Heads(s, v, Len(w), m)
    BY ONLY w \in Seq(Nat), Heads(s, w, Len(w), m), <2>1, Behind
  <2>3. v \in Seq(Nat) /\ Len(w) \in Nat
    BY ONLY w \in Seq(Nat), Heads(s, w, Len(w), m), <2>1, Behind
  <2>4. Len(v) = Len(w) + Len(b)
    BY ONLY w \in Seq(Nat), Heads(s, w, Len(w), m), <2>1, Behind
  <2>5. \A i \in 1..Len(b) : v[Len(w) + i] = b[i]
    BY ONLY w \in Seq(Nat), Heads(s, w, Len(w), m), <2>1, Behind
  <2> QED BY <2>2, <2>3, <2>4, <2>5
<1>5. PICK t : /\ Leads(s, v, n, t) /\ Ready(t) /\ t.edit = MeantEdit(m)
               /\ t.driver.width = m.width /\ t.driver.height = m.height
  BY <1>1, <1>4 DEF Heads, IsMeant
<1>6. PICK k : k = n + 1
  OBVIOUS
<1>60. PICK z : z = k + 1
  OBVIOUS
<1>7. n \in Nat /\ Len(v) = z /\ v[k] = 13 /\ v[z] = 0
  <2>1. 1 \in 1..Len(b) /\ 2 \in 1..Len(b) /\ n \in Nat
    BY <1>1, <1>2, <1>3, <1>4
  <2>2. k = n + 1 /\ z = n + 2
    BY <1>6, <1>60, <2>1
  <2> QED BY <1>1, <1>2, <1>3, <1>4, <2>1, <2>2
<1>8. PICK u : /\ Leads(s, v, z, u) /\ Ready(u) /\ u.driver = t.driver
               /\ u.edit = Entered(t.edit)
  BY ONLY <1>5, <1>6, <1>60, <1>7, EnterRead
<1>9. t.edit.line = m.line /\ t.edit.commands = m.commands
  BY <1>5 DEF MeantEdit, EditOf
<1>10. PICK l : l = <<>>
  OBVIOUS
<1>11. PICK p : p = 0
  OBVIOUS
<1>12. PICK c : c = Append(m.commands, m.line)
  OBVIOUS
<1>13. u.edit = EditOf(l, p, c)
  BY <1>8, <1>9, <1>10, <1>11, <1>12 DEF Entered
<1>14. r = MeantOf(m, l, p, c)
  <2>1. r = [m EXCEPT !.commands = Append(@, m.line), !.line = <<>>, !.pos = 0]
    <3>1. r = Meant(m, <<CR, NUL>>)
      BY DEF CR, NUL
    <3> QED BY <3>1, MeantKeys
  <2>2. r = [m EXCEPT !.commands = c, !.line = l, !.pos = p]
    BY <1>10, <1>11, <1>12, <2>1 DEF Meaning
  <2> QED BY <2>2 DEF Meaning, MeantOf
<1>15. Leads(s, v, Len(v), u) /\ u.driver.width = m.width /\ u.driver.height = m.height
  BY <1>5, <1>7, <1>8
<1>16. r \in Meaning /\ Heads(s, v, Len(v), r)
  BY ONLY m \in Meaning, <1>8, <1>13, <1>14, <1>15, MeantSet
<1> QED BY <1>4, <1>16 DEF Fed

\* A backspace that is typed.
LEMMA BackspaceTyped ==
    ASSUME NEW s, NEW w, NEW m, Fed(s, w, m),
           NEW v, v = w \o << 127 >>, NEW r, r = Meant(m, << 127 >>)
    PROVE  Fed(s, v, r)
<1> SUFFICES ASSUME w \in Seq(Nat), m \in Meaning, Heads(s, w, Len(w), m)
             PROVE  Fed(s, v, r)
  BY DEF Fed
<1>1. PICK n : n = Len(w)
  OBVIOUS
<1>2. <<127>> \in Seq(Nat) /\ Len(<<127>>) = 1 /\ <<127>>[1] = 127
  OBVIOUS
<1>3. PICK b : b = <<127>>
  OBVIOUS
<1>4. /\ v \in Seq(Nat) /\ Len(w) \in Nat /\ Len(v) = Len(w) + Len(b)
      /\ \A i \in 1..Len(b) : v[Len(w) + i] = b[i]
      /\ Heads(s, v, Len(w), m)
  <2>1. b \in Seq(Nat) /\ v = w \o b
    BY <1>2, <1>3
  <2>2. Heads(s, v, Len(w), m)
    BY ONLY w \in Seq(Nat), Heads(s, w, Len(w), m), <2>1, Behind
  <2>3. v \in Seq(Nat) /\ Len(w) \in Nat
    BY ONLY w \in Seq(Nat), Heads(s, w, Len(w), m), <2>1, Behind
  <2>4. Len(v) = Len(w) + Len(b)
    BY ONLY w \in Seq(Nat), Heads(s, w, Len(w), m), <2>1, Behind
  <2>5. \A i \in 1..Len(b) : v[Len(w) + i] = b[i]
    BY ONLY w \in Seq(Nat), Heads(s, w, Len(w), m), <2>1, Behind
  <2> QED BY <2>2, <2>3, <2>4, <2>5
<1>5. PICK t : /\ Leads(s, v, n, t) /\ Ready(t) /\ t.edit = MeantEdit(m)
               /\ t.driver.width = m.width /\ t.driver.height = m.height
  BY <1>1, <1>4 DEF Heads, IsMeant
<1>6. PICK k : k = n + 1
  OBVIOUS
<1>7. n \in Nat /\ Len(v) = k /\ v[k] = 127
  <2>1. 1 \in 1..Len(b)
    BY <1>2, <1>3
  <2> QED BY <1>1, <1>2, <1>3, <1>4, <1>6, <2>1
<1>8. PICK u : /\ Leads(s, v, k, u) /\ Ready(u) /\ u.driver = t.driver
               /\ u.edit = WithoutLetter(t.edit)
  BY ONLY <1>5, <1>6, <1>7, BackspaceRead
<1>9. t.edit.line = m.line /\ t.edit.pos = m.pos /\ t.edit.commands = m.commands
  BY <1>5 DEF MeantEdit, EditOf
<1>10. PICK l : l = IF m.pos = 0 THEN m.line
                    ELSE SubSeq(m.line, 1, m.pos - 1) \o SubSeq(m.line, m.pos + 1, Len(m.line))
  OBVIOUS
<1>11. PICK p : p = IF m.pos = 0 THEN m.pos ELSE m.pos - 1
  OBVIOUS
<1>12. PICK c : c = m.commands
  OBVIOUS
<1>13. u.edit = EditOf(l, p, c)
  <2>1. CASE m.pos = 0
    BY <1>5, <1>8, <1>9, <1>10, <1>11, <1>12, <2>1 DEF WithoutLetter, MeantEdit
  <2>2. CASE m.pos # 0
    BY <1>8, <1>9, <1>10, <1>11, <1>12, <2>2 DEF WithoutLetter
  <2> QED BY <2>1, <2>2
<1>14. r = MeantOf(m, l, p, c)
  <2>1. m.pos \in Nat
    BY DEF Meaning
  <2>2. r = Meant(m, <<DEL>>)
    BY DEF DEL
  <2>3. CASE m.pos = 0
    <3>0. ~(m.pos > 0)
      BY <2>3
    <3>1. r = m
      BY <2>2, <3>0, MeantKeys
    <3>2. l = m.line /\ p = m.pos /\ c = m.commands
      BY <1>10, <1>11, <1>12, <2>3
    <3> QED BY <3>1, <3>2 DEF Meaning, MeantOf
  <2>4. CASE m.pos # 0
    <3>1. m.pos > 0
      BY <2>1, <2>4
    <3>2. r = [m EXCEPT !.line = SubSeq(@, 1, m.pos - 1) \o SubSeq(@, m.pos + 1, Len(@)),
                        !.pos = @ - 1]
      BY <2>2, <3>1, MeantKeys
    <3>3. r = [m EXCEPT !.line = l, !.pos = p]
      BY <1>10, <1>11, <2>4, <3>2 DEF Meaning
    <3>4. [m EXCEPT !.line = l, !.pos = p] = [m EXCEPT !.line = l, !.pos = p, !.commands = c]
      BY <1>12 DEF Meaning
    <3> QED BY <3>3, <3>4 DEF MeantOf
  <2> QED BY <2>3, <2>4
<1>15. Leads(s, v, Len(v), u) /\ u.driver.width = m.width /\ u.driver.height = m.height
  BY <1>5, <1>7, <1>8
<1>16. r \in Meaning /\ Heads(s, v, Len(v), r)
  BY ONLY m \in Meaning, <1>8, <1>13, <1>14, <1>15, MeantSet
<1> QED BY <1>4, <1>16 DEF Fed

\* The code of an arrow key.
IsArrow(code) == code \in {67, 68}

\* An arrow that is typed.
LEMMA ArrowTyped ==
    ASSUME NEW s, NEW w, NEW m, Fed(s, w, m),
           NEW code, IsArrow(code), NEW v, v = w \o Arrow(code),
           NEW r, r = Meant(m, Arrow(code))
    PROVE  Fed(s, v, r)
<1>0. Arrow(code) = <<27, 91, code>>
  BY DEF Arrow, ESC, BRACKET
<1> SUFFICES ASSUME w \in Seq(Nat), m \in Meaning, Heads(s, w, Len(w), m)
             PROVE  Fed(s, v, r)
  BY DEF Fed
<1>00. code \in {67, 68}
  BY DEF IsArrow
<1>1. PICK n : n = Len(w)
  OBVIOUS
<1>2. /\ <<27, 91, code>> \in Seq(Nat) /\ Len(<<27, 91, code>>) = 3
      /\ <<27, 91, code>>[1] = 27 /\ <<27, 91, code>>[2] = 91 /\ <<27, 91, code>>[3] = code
  BY <1>00
<1>3. PICK b : b = <<27, 91, code>>
  OBVIOUS
<1>4. /\ v \in Seq(Nat) /\ Len(w) \in Nat /\ Len(v) = Len(w) + Len(b)
      /\ \A i \in 1..Len(b) : v[Len(w) + i] = b[i]
      /\ Heads(s, v, Len(w), m)
  <2>1. b \in Seq(Nat) /\ v = w \o b
    BY <1>0, <1>2, <1>3
  <2>2. Heads(s, v, Len(w), m)
    BY ONLY w \in Seq(Nat), Heads(s, w, Len(w), m), <2>1, Behind
  <2>3. v \in Seq(Nat) /\ Len(w) \in Nat
    BY ONLY w \in Seq(Nat), Heads(s, w, Len(w), m), <2>1, Behind
  <2>4. Len(v) = Len(w) + Len(b)
    BY ONLY w \in Seq(Nat), Heads(s, w, Len(w), m), <2>1, Behind
  <2>5. \A i \in 1..Len(b) : v[Len(w) + i] = b[i]
    BY ONLY w \in Seq(Nat), Heads(s, w, Len(w), m), <2>1, Behind
  <2> QED BY <2>2, <2>3, <2>4, <2>5
<1>5. PICK t : /\ Leads(s, v, n, t) /\ Ready(t) /\ t.edit = MeantEdit(m)
               /\ t.driver.width = m.width /\ t.driver.height = m.height
  BY <1>1, <1>4 DEF Heads, IsMeant
<1>6. PICK k : k = n + 1
  OBVIOUS
<1>61. PICK y : y = k + 1
  OBVIOUS
<1>62. PICK z : z = y + 1
  OBVIOUS
<1>7. n \in Nat /\ Len(v) = z /\ v[k] = 27 /\ v[y] = 91 /\ v[z] = code
  <2>1. 1 \in 1..Len(b) /\ 2 \in 1..Len(b) /\ 3 \in 1..Len(b) /\ n \in Nat
    BY <1>1, <1>2, <1>3, <1>4
  <2>2. k = n + 1 /\ y = n + 2 /\ z = n + 3
    BY <1>6, <1>61, <1>62, <2>1
  <2> QED BY <1>1, <1>2, <1>3, <1>4, <2>1, <2>2
<1>70. PICK o \in {1, -1} : (v[z] = 67) <=> (o = 1)
  BY <1>7
<1>8. PICK u : /\ Leads(s, v, z, u) /\ Ready(u) /\ u.driver = t.driver
               /\ u.edit = Seek(t.edit, o)
  <2>1. v[z] \in {67, 68}
    BY <1>00, <1>7
  <2>2. Leads(s, v, n, t) /\ Ready(t) /\ n \in Nat /\ v[k] = 27 /\ v[y] = 91
    BY <1>5, <1>7
  <2> QED BY ONLY <1>6, <1>61, <1>62, <1>70, <2>1, <2>2, ArrowRead
<1>9. t.edit.line = m.line /\ t.edit.pos = m.pos /\ t.edit.commands = m.commands
      /\ t.edit \in Edit
  BY <1>5, SoundParts DEF MeantEdit, EditOf, Ready, Plain
<1>90. m.pos \in Nat /\ Len(m.line) \in Nat /\ m.pos <= Len(m.line)
  <2>1. Sound(t)
    BY <1>5 DEF Ready, Plain
  <2> QED BY <1>9, <2>1, SoundParts
<1>10. PICK l : l = m.line
  OBVIOUS
<1>11. PICK p : p = IF m.pos + o \in 0..Len(m.line) THEN m.pos + o ELSE m.pos
  OBVIOUS
<1>12. PICK c : c = m.commands
  OBVIOUS
<1>13. u.edit = EditOf(l, p, c)
  <2>1. CASE m.pos + o \in 0..Len(m.line)
    <3>1. u.edit = [t.edit EXCEPT !.pos = p]
      BY <1>8, <1>9, <1>11, <2>1 DEF Seek
    <3> QED BY <1>9, <1>10, <1>12, <3>1 DEF Edit, EditOf
  <2>2. CASE m.pos + o \notin 0..Len(m.line)
    <3>1. u.edit = t.edit /\ p = m.pos
      BY <1>8, <1>9, <1>11, <2>2 DEF Seek
    <3> QED BY <1>5, <1>10, <1>12, <3>1 DEF MeantEdit
  <2> QED BY <2>1, <2>2
<1>14. r = MeantOf(m, l, p, c)
  <2>1. r = [m EXCEPT !.pos = p]
    <3>1. CASE code = 68
      <4>1. o = -1
        BY <1>7, <1>70, <3>1
      <4>2. r = Meant(m, Arrow(Left))
        BY <3>1 DEF Arrow, Left, ESC, BRACKET
      <4>3. r = IF m.pos > 0 THEN [m EXCEPT !.pos = @ - 1] ELSE m
        BY <4>2, MeantKeys
      <4>4. p = IF m.pos > 0 THEN m.pos - 1 ELSE m.pos
        BY <1>11, <1>90, <4>1
      <4>5. m = [m EXCEPT !.pos = m.pos]
        BY DEF Meaning
      <4> QED BY ONLY <4>3, <4>4, <4>5
    <3>2. CASE code = 67
      <4>1. o = 1
        BY <1>7, <1>70, <3>2
      <4>2. r = Meant(m, Arrow(Right))
        BY <3>2 DEF Arrow, Right, ESC, BRACKET
      <4>3. r = IF m.pos < Len(m.line) THEN [m EXCEPT !.pos = @ + 1] ELSE m
        BY <4>2, MeantKeys
      <4>4. p = IF m.pos < Len(m.line) THEN m.pos + 1 ELSE m.pos
        BY <1>11, <1>90, <4>1
      <4>5. m = [m EXCEPT !.pos = m.pos]
        BY DEF Meaning
      <4> QED BY ONLY <4>3, <4>4, <4>5
    <3> QED BY ONLY <1>00, <3>1, <3>2
  <2> QED BY <1>10, <1>12, <2>1 DEF Meaning, MeantOf
<1>15. Leads(s, v, Len(v), u) /\ u.driver.width = m.width /\ u.driver.height = m.height
  BY <1>5, <1>7, <1>8
<1>16. r \in Meaning /\ Heads(s, v, Len(v), r)
  BY ONLY m \in Meaning, <1>8, <1>13, <1>14, <1>15, MeantSet
<1> QED BY <1>4, <1>16 DEF Fed

\* The bytes that agree to an option.
OfferBytes(option) == <<255, 251, option>>

\* An answer to the handshake that offers an option.
LEMMA OfferSent ==
    ASSUME NEW s, NEW w, NEW m, Fed(s, w, m),
           NEW option \in {31, 24}, NEW v, v = w \o OfferBytes(option)
    PROVE  Fed(s, v, m)
<1> SUFFICES ASSUME w \in Seq(Nat), m \in Meaning, Heads(s, w, Len(w), m)
             PROVE  Fed(s, v, m)
  BY DEF Fed
<1>1. PICK n : n = Len(w)
  OBVIOUS
<1>2. PICK b : b = <<255, 251, option>>
  OBVIOUS
<1>3. b \in Seq(Nat) /\ Len(b) = 3 /\ b[1] = 255 /\ b[2] = 251 /\ b[3] = option
  BY <1>2
<1>4. b \in Seq(Nat) /\ v = w \o b
  BY <1>2, <1>3 DEF OfferBytes
<1>5. Heads(s, v, Len(w), m)
  BY ONLY w \in Seq(Nat), Heads(s, w, Len(w), m), <1>4, Behind
<1>6. v \in Seq(Nat) /\ Len(w) \in Nat
  BY ONLY w \in Seq(Nat), Heads(s, w, Len(w), m), <1>4, Behind
<1>7. Len(v) = Len(w) + Len(b)
  BY ONLY w \in Seq(Nat), Heads(s, w, Len(w), m), <1>4, Behind
<1>8. \A i \in 1..Len(b) : v[Len(w) + i] = b[i]
  BY ONLY w \in Seq(Nat), Heads(s, w, Len(w), m), <1>4, Behind
<1>9. n \in Nat /\ v[n + 1] = 255 /\ v[n + 2] = 251 /\ v[n + 3] = option
  <2>1. 1 \in 1..Len(b) /\ 2 \in 1..Len(b) /\ 3 \in 1..Len(b)
    BY ONLY <1>3
  <2>2. \A i \in 1..Len(b) : v[n + i] = b[i]
    BY ONLY <1>1, <1>8
  <2>3. v[n + 1] = b[1] /\ v[n + 2] = b[2] /\ v[n + 3] = b[3]
    BY ONLY <2>1, <2>2
  <2>4. n \in Nat
    BY ONLY <1>1, <1>6
  <2> QED BY ONLY <1>3, <2>3, <2>4
<1>10. PICK t : Leads(s, v, n, t) /\ IsMeant(t, m)
  BY <1>1, <1>5 DEF Heads
<1>11. PICK a : a = m.width
  OBVIOUS
<1>12. PICK h : h = m.height
  OBVIOUS
<1>13. PICK c : c = t.echo
  OBVIOUS
<1>14. PICK e : e = MeantEdit(m)
  OBVIOUS
<1>15. Reaches(s, v, n, "normal", a, h, c, e)
  BY <1>10, <1>11, <1>12, <1>13, <1>14 DEF IsMeant, Ready, Reaches
<1>16. Reaches(s, v, n + 3, "normal", a, h, c, e)
  BY ONLY <1>9, <1>15, option \in {31, 24}, OfferRead
<1>17. PICK u : /\ Leads(s, v, n + 3, u) /\ Plain(u) /\ u.edit = e /\ u.echo = c
                /\ u.driver.state = "normal" /\ u.driver.width = a /\ u.driver.height = h
  BY <1>16 DEF Reaches
<1>18. c = TRUE
  BY <1>10, <1>13 DEF IsMeant, Ready
<1>19. IsMeant(u, m)
  BY <1>11, <1>12, <1>14, <1>17, <1>18 DEF IsMeant, Ready
<1>20. Len(v) = n + 3
  BY <1>1, <1>3, <1>7
<1>21. Heads(s, v, Len(v), m)
  BY <1>17, <1>19, <1>20 DEF Heads
<1> QED BY <1>6, <1>21 DEF Fed

\* The answer with the size of the window.
WindowBytes(width, height) == <<255, 250, 31, 0, width, 0, height, 255, 240>>

\* A meaning with another window.
Resized(m, width, height) == [m EXCEPT !.width = width, !.height = height]

\* An answer with the size of the window.
LEMMA WindowSent ==
    ASSUME NEW s, NEW w, NEW m, Fed(s, w, m),
           NEW width \in Nat \ {0}, NEW height \in Nat \ {0},
           NEW v, v = w \o WindowBytes(width, height),
           NEW r, r = Resized(m, width, height)
    PROVE  Fed(s, v, r)
<1> SUFFICES ASSUME w \in Seq(Nat), m \in Meaning, Heads(s, w, Len(w), m)
             PROVE  Fed(s, v, r)
  BY DEF Fed
<1>1. PICK n : n = Len(w)
  OBVIOUS
<1>2. PICK b : b = <<255, 250, 31, 0, width, 0, height, 255, 240>>
  OBVIOUS
<1>3. /\ b \in Seq(Nat) /\ Len(b) = 9 /\ b[1] = 255 /\ b[2] = 250 /\ b[3] = 31 /\ b[4] = 0
      /\ b[5] = width /\ b[6] = 0 /\ b[7] = height /\ b[8] = 255 /\ b[9] = 240
  BY <1>2
<1>4. b \in Seq(Nat) /\ v = w \o b
  BY <1>2, <1>3 DEF WindowBytes
<1>5. Heads(s, v, Len(w), m)
  BY ONLY w \in Seq(Nat), Heads(s, w, Len(w), m), <1>4, Behind
<1>6. v \in Seq(Nat) /\ Len(w) \in Nat
  BY ONLY w \in Seq(Nat), Heads(s, w, Len(w), m), <1>4, Behind
<1>7. Len(v) = Len(w) + Len(b)
  BY ONLY w \in Seq(Nat), Heads(s, w, Len(w), m), <1>4, Behind
<1>8. \A i \in 1..Len(b) : v[Len(w) + i] = b[i]
  BY ONLY w \in Seq(Nat), Heads(s, w, Len(w), m), <1>4, Behind
<1>9. /\ n \in Nat /\ v[n + 1] = 255 /\ v[n + 2] = 250 /\ v[n + 3] = 31 /\ v[n + 4] = 0
      /\ v[n + 5] = width /\ v[n + 6] = 0 /\ v[n + 7] = height /\ v[n + 8] = 255
      /\ v[n + 9] = 240
  <2>0. Len(b) = 9
    BY <1>3
  <2>1. \A i \in 1..9 : v[n + i] = b[i]
    BY ONLY <1>1, <1>8, <2>0
  <2>2. /\ v[n + 1] = b[1] /\ v[n + 2] = b[2] /\ v[n + 3] = b[3] /\ v[n + 4] = b[4]
        /\ v[n + 5] = b[5] /\ v[n + 6] = b[6] /\ v[n + 7] = b[7] /\ v[n + 8] = b[8]
        /\ v[n + 9] = b[9]
    BY ONLY <2>1
  <2>3. n \in Nat
    BY <1>1, <1>6
  <2> QED BY ONLY <1>3, <2>2, <2>3
<1>10. PICK t : Leads(s, v, n, t) /\ IsMeant(t, m)
  BY <1>1, <1>5 DEF Heads
<1>11. PICK a : a = m.width
  OBVIOUS
<1>12. PICK h : h = m.height
  OBVIOUS
<1>13. PICK c : c = t.echo
  OBVIOUS
<1>14. PICK e : e = MeantEdit(m)
  OBVIOUS
<1>15. Reaches(s, v, n, "normal", a, h, c, e)
  BY <1>10, <1>11, <1>12, <1>13, <1>14 DEF IsMeant, Ready, Reaches
<1>16. Reaches(s, v, n + 9, "normal", width, height, c, e)
  <2>1. WindowAt(v, n, width, height) /\ n \in Nat
    BY ONLY <1>9 DEF WindowAt
  <2> QED BY ONLY <1>15, <2>1, width \in Nat \ {0}, height \in Nat \ {0}, WindowRead
<1>17. PICK u : /\ Leads(s, v, n + 9, u) /\ Plain(u) /\ u.edit = e /\ u.echo = c
                /\ u.driver.state = "normal" /\ u.driver.width = width
                /\ u.driver.height = height
  BY <1>16 DEF Reaches
<1>18. c = TRUE
  BY <1>10, <1>13 DEF IsMeant, Ready
<1>19. /\ r \in Meaning /\ r.line = m.line /\ r.pos = m.pos /\ r.commands = m.commands
       /\ r.width = width /\ r.height = height
  BY DEF Meaning, Resized
<1>20. e = MeantEdit(r)
  BY <1>14, <1>19 DEF MeantEdit
<1>21. IsMeant(u, r)
  BY <1>17, <1>18, <1>19, <1>20 DEF IsMeant, Ready
<1>22. Len(v) = n + 9
  BY <1>1, <1>3, <1>7
<1>23. Heads(s, v, Len(v), r)
  BY <1>17, <1>21, <1>22 DEF Heads
<1> QED BY <1>6, <1>19, <1>23 DEF Fed

\* In the first n bytes of w an arrow key is whole, and another one is behind it if
\* anything is.
Uncut(w, n) == \A i \in 1..n : w[i] = 27 => i + 2 <= n /\ (i + 2 < n => w[i + 3] = 27)

\* Inside a burst the automaton does not see that an arrow key has ended: x is the
\* record of the code where y is the one with the key at its end.
Trails(x, y) ==
    /\ x \in Reading /\ y \in Reading /\ x.driver.state = "esc" /\ x.esc = "param1"
    /\ x.edit = y.edit /\ x.screen = y.screen /\ x.echo = y.echo
    /\ x.driver.width = y.driver.width /\ x.driver.height = y.driver.height

\* The record of the code after i bytes of w, and the one with its keys at their ends.
Matches(x, y, w, i) ==
    \/ x = y
    \/ /\ Trails(x, y) /\ y.driver.state \in {"normal", "esc"}
       /\ y.driver.state = "normal" => i >= 3 /\ w[i - 2] = 27

\* The first two bytes of an arrow key behind another one are taken for codes that mean
\* nothing.
LEMMA TrailsOn ==
    ASSUME NEW x, NEW y, Trails(x, y), NEW ch \in {27, 91}, NEW u \in Reading,
           u.edit = y.edit, u.screen = y.screen, u.echo = y.echo,
           u.driver.width = y.driver.width, u.driver.height = y.driver.height
    PROVE  Trails(Byte(x, ch), u)
<1>1. PICK a : a = [x EXCEPT !.code = ch]
  OBVIOUS
<1>2. Byte(x, ch) = a
  <2>1. Byte(x, ch) = InEscape(x, ch)
    BY DEF Byte, NUL, Trails
  <2>2. InEscape(x, ch) = Escape([x EXCEPT !.code = ch], ch)
    BY DEF InEscape, Trails
  <2>3. \A t : Escape(t, ch) = t
    BY DEF Escape, Right, Left
  <2> QED BY <1>1, <2>1, <2>2, <2>3
<1>3. x \in Reading /\ ch \in Nat
  BY DEF Trails
<1>4. /\ a \in Reading /\ a.driver = x.driver /\ a.edit = x.edit /\ a.screen = x.screen
      /\ a.echo = x.echo /\ a.esc = x.esc
  BY <1>1, <1>3 DEF Reading
<1> QED BY <1>2, <1>4 DEF Trails

\* The code of an arrow key moves the position alike in both records.
LEMMA TrailsArrow ==
    ASSUME NEW x, NEW y, Trails(x, y), Sound(y), y.driver.state = "esc", y.esc = "param1",
           NEW ch \in {67, 68}, NEW u, u = Step(y, ch), Sound(u)
    PROVE  Trails(Byte(x, ch), u) /\ u.driver.state = "normal"
<1>1. PICK o \in {1, -1} : (ch = 67) <=> (o = 1)
  BY ch \in {67, 68}
<1>2. \A t : Escape(t, ch) = Move(t, o)
  <2>1. CASE ch = 67
    <3>1. o = 1
      BY <1>1, <2>1
    <3>2. \A t : Escape(t, 67) = Move(t, 1)
      BY ONLY DEF Escape, Right, Left
    <3> QED BY ONLY <2>1, <3>1, <3>2, Zenon
  <2>2. CASE ch = 68
    <3>1. o = -1
      BY <1>1, <2>2
    <3>2. \A t : Escape(t, 68) = Move(t, -1)
      BY ONLY DEF Escape, Right, Left
    <3> QED BY ONLY <2>2, <3>1, <3>2, Zenon
  <2> QED BY <2>1, <2>2
<1>3. ASSUME NEW t, t \in Reading, Sound(t), t.driver.state = "esc", t.esc = "param1"
      PROVE  /\ Sound(Byte(t, ch)) /\ Byte(t, ch).driver = t.driver
             /\ Byte(t, ch).echo = t.echo /\ Byte(t, ch).esc = "param1"
             /\ Byte(t, ch).edit = Seek(t.edit, o)
             /\ Byte(t, ch).screen =
                    LET e == Seek(t.edit, o)
                    IN  ShowAll(t.screen, IF e.pos < t.edit.pos THEN Back(1)
                                          ELSE SubSeq(e.line, t.edit.pos + 1, e.pos))
  <2>1. PICK c : c = [t EXCEPT !.code = ch]
    OBVIOUS
  <2>2. ch \in Nat
    OBVIOUS
  <2>3. /\ c \in Reading /\ c.driver = t.driver /\ c.edit = t.edit /\ c.screen = t.screen
        /\ c.echo = t.echo /\ c.esc = "param1"
    BY <1>3, <2>1, <2>2 DEF Reading
  <2>4. Sound(c)
    BY <1>3, <2>3 DEF Sound
  <2>5. PICK v : v = Move(c, o)
    OBVIOUS
  <2>6. Byte(t, ch) = v
    <3>1. Byte(t, ch) = InEscape(t, ch)
      BY <1>3 DEF Byte, NUL
    <3>2. InEscape(t, ch) = Escape(c, ch)
      BY <1>3, <2>1 DEF InEscape
    <3> QED BY <1>2, <2>5, <3>1, <3>2
  <2>7. Sound(v) /\ v.driver = c.driver /\ v.echo = c.echo /\ v.esc = c.esc
    BY ONLY <2>4, <2>5, o \in {1, -1}, MoveShown
  <2>8. v.edit = Seek(c.edit, o)
    BY ONLY <2>4, <2>5, o \in {1, -1}, MoveShown
  <2>9. v.screen = LET e == Seek(c.edit, o)
                   IN  ShowAll(c.screen, IF e.pos < c.edit.pos THEN Back(1)
                                         ELSE SubSeq(e.line, c.edit.pos + 1, e.pos))
    BY <2>3, <2>5 DEF Move, Reading
  <2> QED BY <2>3, <2>6, <2>7, <2>8, <2>9
<1>4. x \in Reading /\ y \in Reading /\ Sound(x)
  BY DEF Trails, Sound
<1>5. PICK p : p = Byte(x, ch)
  OBVIOUS
<1>6. PICK q : q = Byte(y, ch)
  OBVIOUS
<1>7. /\ Sound(p) /\ p.driver = x.driver /\ p.echo = x.echo /\ p.esc = "param1"
      /\ Sound(q) /\ q.driver = y.driver /\ q.echo = y.echo
      /\ p.edit = q.edit /\ p.screen = q.screen
  <2>1. /\ Sound(p) /\ p.driver = x.driver /\ p.echo = x.echo /\ p.esc = "param1"
        /\ p.edit = Seek(x.edit, o)
        /\ p.screen = LET e == Seek(x.edit, o)
                      IN  ShowAll(x.screen, IF e.pos < x.edit.pos THEN Back(1)
                                            ELSE SubSeq(e.line, x.edit.pos + 1, e.pos))
    BY <1>3, <1>4, <1>5 DEF Trails
  <2>2. /\ Sound(q) /\ q.driver = y.driver /\ q.echo = y.echo
        /\ q.edit = Seek(y.edit, o)
        /\ q.screen = LET e == Seek(y.edit, o)
                      IN  ShowAll(y.screen, IF e.pos < y.edit.pos THEN Back(1)
                                            ELSE SubSeq(e.line, y.edit.pos + 1, e.pos))
    BY <1>3, <1>4, <1>6
  <2>3. x.edit = y.edit /\ x.screen = y.screen
    BY DEF Trails
  <2> QED BY <2>1, <2>2, <2>3
<1>8. u = [Goto(q, "normal") EXCEPT !.esc = "code", !.code = 0]
  BY <1>6, <1>7 DEF Step, BurstEnds
<1>9. /\ u \in Reading /\ u.edit = q.edit /\ u.screen = q.screen /\ u.echo = q.echo
      /\ u.driver.state = "normal" /\ u.driver.width = q.driver.width
      /\ u.driver.height = q.driver.height
  <2>1. q \in Reading /\ u \in Reading
    BY <1>7 DEF Sound
  <2>2. PICK d : d = [q.driver EXCEPT !.state = "normal"]
    OBVIOUS
  <2>3. /\ d.state = "normal" /\ d.width = q.driver.width /\ d.height = q.driver.height
    BY <2>1, <2>2 DEF Reading
  <2>4. PICK z : z = [q EXCEPT !.driver = d]
    OBVIOUS
  <2>5. /\ z.driver = d /\ z.edit = q.edit /\ z.screen = q.screen /\ z.echo = q.echo
        /\ u = [z EXCEPT !.esc = "code", !.code = 0]
    BY <1>8, <2>1, <2>2, <2>4 DEF Goto, Reading
  <2>6. u.driver = d /\ u.edit = z.edit /\ u.screen = z.screen /\ u.echo = z.echo
    BY <2>1, <2>4, <2>5 DEF Reading
  <2> QED BY <2>1, <2>3, <2>5, <2>6
<1> QED BY <1>4, <1>5, <1>7, <1>9 DEF Trails, Sound

\* An arrow key begins.
LEMMA ArrowBegins ==
    ASSUME NEW y \in Reading, y.driver.state = "normal", NEW u, u = Step(y, 27)
    PROVE  /\ u \in Reading /\ u.driver.state = "esc" /\ u.edit = y.edit /\ u.screen = y.screen
           /\ u.echo = y.echo /\ u.driver.width = y.driver.width
           /\ u.driver.height = y.driver.height
<1>1. u = [Goto(y, "esc") EXCEPT !.esc = "code", !.code = 0]
  BY DEF Step, Byte, NUL, IAC, ESC
<1>2. PICK d : d = [y.driver EXCEPT !.state = "esc"]
  OBVIOUS
<1>3. /\ d \in Driver /\ d.state = "esc" /\ d.width = y.driver.width
      /\ d.height = y.driver.height
  BY <1>2 DEF Reading, Driver
<1>4. PICK z : z = [y EXCEPT !.driver = d]
  OBVIOUS
<1>5. /\ z \in Reading /\ z.driver = d /\ z.edit = y.edit /\ z.screen = y.screen
      /\ z.echo = y.echo
  BY <1>3, <1>4 DEF Reading, Driver
<1>6. u = [z EXCEPT !.esc = "code", !.code = 0]
  BY <1>1, <1>2, <1>4 DEF Goto, Reading
<1>7. /\ u \in Reading /\ u.driver = d /\ u.edit = z.edit /\ u.screen = z.screen
      /\ u.echo = z.echo
  <2>1. PICK a : a = [z EXCEPT !.esc = "code"]
    OBVIOUS
  <2>2. /\ a \in Reading /\ a.driver = d /\ a.edit = z.edit /\ a.screen = z.screen
        /\ a.echo = z.echo
    BY <1>5, <2>1 DEF Reading
  <2>3. u = [a EXCEPT !.code = 0]
    BY <1>6, <2>1
  <2> QED BY <2>2, <2>3 DEF Reading
<1> QED BY <1>3, <1>5, <1>7

\* One byte more of a burst.
LEMMA MatchesOn ==
    ASSUME NEW w, NEW n \in Nat, Uncut(w, n), NEW i \in 1..n, NEW x, NEW y,
           Matches(x, y, w, i - 1), Place(y, w, i - 1), Follows(y, w[i]),
           NEW u, u = Step(y, w[i]), Place(u, w, i)
    PROVE  Matches(Byte(x, w[i]), u, w, i)
<1>1. Sound(y) /\ y \in Reading /\ Sound(u) /\ u \in Reading
  BY DEF Place, Plain, Sound
\* The last byte of an arrow key.
<1>2. CASE y.driver.state = "esc" /\ y.esc = "param1"
  <2>1. w[i] \in {67, 68} /\ i - 1 >= 2 /\ w[(i - 1) - 1] = 27
    BY <1>2 DEF Follows, Place, Plain, ESC
  <2>2. i >= 3 /\ (i - 1) - 1 = i - 2
    BY <2>1
  <2>3. Trails(x, y)
    BY <1>1, <1>2 DEF Matches, Trails
  <2>4. PICK ch \in {67, 68} : ch = w[i]
    BY <2>1
  <2>5. Trails(Byte(x, ch), u) /\ u.driver.state = "normal"
    <3>1. u = Step(y, ch)
      BY <2>4
    <3> QED BY ONLY <1>1, <1>2, <2>3, ch \in {67, 68}, <3>1, TrailsArrow
  <2> QED BY <2>1, <2>2, <2>4, <2>5 DEF Matches
<1>3. CASE ~(y.driver.state = "esc" /\ y.esc = "param1")
  <2>1. u = Byte(y, w[i])
    BY <1>3 DEF Step
  <2>2. CASE x = y
    BY <2>1, <2>2 DEF Matches
  <2>3. CASE x # y /\ y.driver.state = "normal"
    <3>1. Trails(x, y) /\ i - 1 >= 3 /\ w[(i - 1) - 2] = 27
      BY <2>3 DEF Matches
    <3>2. w[i] = 27
      <4>1. PICK j : j = i - 3
        OBVIOUS
      <4>2. j \in 1..n /\ j + 2 < n /\ j + 3 = i /\ (i - 1) - 2 = j
        BY <3>1, <4>1
      <4>3. w[j] = 27
        BY <3>1, <4>2
      <4> QED BY <4>2, <4>3 DEF Uncut
    <3>3. /\ u.driver.state = "esc" /\ u.edit = y.edit /\ u.screen = y.screen
          /\ u.echo = y.echo /\ u.driver.width = y.driver.width
          /\ u.driver.height = y.driver.height
      BY <1>1, <2>3, <3>2, ArrowBegins
    <3>4. PICK ch \in {27, 91} : ch = w[i]
      BY <3>2
    <3>5. Trails(Byte(x, ch), u)
      BY ONLY <1>1, <3>1, <3>3, ch \in {27, 91}, TrailsOn
    <3> QED BY <3>3, <3>4, <3>5 DEF Matches
  <2>4. CASE x # y /\ y.driver.state # "normal"
    <3>1. Trails(x, y) /\ y.driver.state = "esc"
      BY <2>4 DEF Matches
    <3>2. y.esc = "code" /\ w[i] = 91
      BY <1>3, <3>1 DEF Place, Plain, Follows
    <3>3. u = [y EXCEPT !.esc = "param1"]
      BY <2>1, <3>1, <3>2 DEF Byte, NUL, InEscape, BRACKET
    <3>4. /\ u.driver = y.driver /\ u.edit = y.edit /\ u.screen = y.screen
          /\ u.echo = y.echo
      BY <1>1, <3>3 DEF Reading
    <3>5. PICK ch \in {27, 91} : ch = w[i]
      BY <3>2
    <3>6. Trails(Byte(x, ch), u)
      BY ONLY <1>1, <3>1, <3>4, ch \in {27, 91}, TrailsOn
    <3> QED BY <3>1, <3>4, <3>5, <3>6 DEF Matches
  <2> QED BY <2>2, <2>3, <2>4
<1> QED BY <1>2, <1>3

\* The record behind the first n bytes of w, and at the end of a burst of them.
ReadTo(s, w, n) == FoldLeft(Byte, s, SubSeq(w, 1, n))
EndOf(s, w, n) == BurstEnds(ReadTo(s, w, n))

\* The records that a burst goes through.
Passes(g, s, w, n, z) == g[0] = s /\ g[n] = z /\ \A i \in 1..n : g[i] = Byte(g[i - 1], w[i])

\* A burst goes through its bytes one by one.
LEMMA BurstRuns ==
    ASSUME NEW s, NEW w \in Seq(Nat), NEW n \in 1..Len(w), NEW z,
           z = ReadTo(s, w, n)
    PROVE  \E g : Passes(g, s, w, n, z)
<1>0. PICK k : k = Len(w)
  OBVIOUS
<1>1. k \in Nat /\ n \in Nat /\ 1 <= n /\ n <= k
  BY <1>0, LenProperties
<1>4. PICK list : list = SubSeq(w, 1, n)
  OBVIOUS
<1>5. DOMAIN list = 1..n /\ \A i \in 1..n : list[i] = w[i]
  <2>1. \A i \in 1..k : w[i] \in Nat
    BY <1>0, ElementOfSeq
  <2>2. \A i \in 1..n : w[i] \in Nat
    BY <1>1, <2>1
  <2>3. PICK one : one = 1
    OBVIOUS
  <2>4. one \in Int /\ n \in Int /\ list = SubSeq(w, one, n) /\ \A i \in one..n : w[i] \in Nat
    BY <1>1, <1>4, <2>2, <2>3
  <2>5. /\ list \in Seq(Nat) /\ Len(list) = IF one <= n THEN n - one + 1 ELSE 0
        /\ \A i \in 1..(n - one + 1) : list[i] = w[one + i - 1]
    BY ONLY <2>4, SubSeqProperties
  <2>6. n - one + 1 = n /\ one <= n /\ \A i \in 1..n : one + i - 1 = i
    BY <1>1, <2>3
  <2>7. Len(list) = n /\ \A i \in 1..n : list[i] = w[i]
    BY <2>5, <2>6
  <2> QED BY <2>5, <2>7, LenProperties
<1>6. z = FoldLeft(Byte, s, list)
  BY <1>4 DEF ReadTo
<1>7. PICK g : Runs(4, s, list, n, g, z)
  <2>1. 4 \in 3..4 /\ z = IF 4 = 3 THEN ShowAll(s, list) ELSE FoldLeft(Byte, s, list)
    BY <1>6
  <2> QED BY <1>1, <1>5, <2>1, BytesRun
<1>8. g[0] = s /\ g[n] = z /\ \A i \in 1..n : g[i] = Byte(g[i - 1], w[i])
  <2>1. g[0] = s /\ g[n] = z /\ \A i \in 1..n : g[i] = Byte(g[i - 1], list[i])
    BY <1>7 DEF Runs, Turn
  <2> QED BY <1>5, <2>1
<1> QED BY <1>8 DEF Passes

\* The bytes behind a burst.
LEMMA BurstRest ==
    ASSUME NEW w \in Seq(Nat), NEW n \in 1..Len(w), NEW v, v = SubSeq(w, n + 1, Len(w))
    PROVE  v \in Seq(Nat) /\ Len(v) = Len(w) - n /\ \A i \in 1..Len(w) - n : v[i] = w[n + i]
<1>0. PICK k : k = Len(w)
  OBVIOUS
<1>1. k \in Nat /\ n \in Nat /\ 1 <= n /\ n <= k
  BY <1>0, LenProperties
<1>2. PICK l : l = k - n
  OBVIOUS
<1>3. l \in Nat
  BY <1>1, <1>2
<1>4. v \in Seq(Nat) /\ Len(v) = l /\ \A i \in 1..l : v[i] = w[n + i]
  <2>0. PICK c : c = n + 1
    OBVIOUS
  <2>1. \A i \in 1..k : w[i] \in Nat
    BY <1>0, ElementOfSeq
  <2>2. \A i \in c..k : w[i] \in Nat
    BY <1>1, <2>0, <2>1
  <2>3. c \in Int /\ k \in Int /\ v = SubSeq(w, c, k)
    BY <1>0, <1>1, <2>0
  <2>4. /\ v \in Seq(Nat) /\ Len(v) = IF c <= k THEN k - c + 1 ELSE 0
        /\ \A i \in 1..(k - c + 1) : v[i] = w[c + i - 1]
    BY ONLY <2>2, <2>3, SubSeqProperties
  <2>5. k - c + 1 = l /\ (~(c <= k) => l = 0) /\ \A i \in 1..l : c + i - 1 = n + i
    BY <1>1, <1>2, <1>3, <2>0
  <2>6. Len(v) = l
    BY <2>4, <2>5
  <2> QED BY <2>4, <2>5, <2>6
<1> QED BY <1>0, <1>2, <1>4

\* The next burst begins with a record like b, and v leads from there to what is meant.
Goes(v, b, m) ==
    /\ v \in Seq(Nat)
    /\ \E r : /\ Plain(r) /\ r.driver = b.driver /\ r.edit = b.edit
              /\ r.screen = b.screen /\ r.echo = b.echo /\ Heads(r, v, Len(v), m)

\* A burst leads to where its bytes lead to, and the rest from there on.
LEMMA BurstRead ==
    ASSUME NEW s, NEW w, NEW m, Fed(s, w, m), NEW n \in 1..Len(w), Uncut(w, n),
           NEW b, b = EndOf(s, w, n), NEW v, v = SubSeq(w, n + 1, Len(w))
    PROVE  Goes(v, b, m)
<1> SUFFICES ASSUME w \in Seq(Nat), Heads(s, w, Len(w), m),
                    Uncut(w, n), b = BurstEnds(ReadTo(s, w, n))
             PROVE  Goes(v, b, m)
  BY DEF Fed, EndOf
<1>0. PICK k : k = Len(w)
  OBVIOUS
<1>1. k \in Nat /\ n \in Nat /\ 1 <= n /\ n <= k
  BY <1>0, LenProperties
<1>2. PICK t, f : Reads(f, s, w, k, t) /\ IsMeant(t, m)
  BY <1>0 DEF Heads, Leads
<1>3. /\ f[0] = s /\ f[k] = t
      /\ \A i \in 1..k : f[i] = Step(f[i - 1], w[i]) /\ Follows(f[i - 1], w[i])
      /\ \A i \in 0..k : Place(f[i], w, i)
  BY <1>2 DEF Reads
<1>6. PICK z : z = ReadTo(s, w, n)
  OBVIOUS
<1>7. PICK g : Passes(g, s, w, n, z)
  BY ONLY w \in Seq(Nat), n \in 1..Len(w), <1>6, BurstRuns
<1>8. g[0] = s /\ g[n] = z /\ \A i \in 1..n : g[i] = Byte(g[i - 1], w[i])
  BY <1>7 DEF Passes
<1>9. \A i \in 0..n : Matches(g[i], f[i], w, i)
  <2> DEFINE Bad == {i \in 0..n : ~Matches(g[i], f[i], w, i)}
  <2>1. SUFFICES ASSUME Bad # {} PROVE FALSE
    OBVIOUS
  <2>2. PICK i \in Bad : \A x \in Bad : i <= x
    <3>1. Bad \in SUBSET Nat
      BY <1>1
    <3> HIDE DEF Bad
    <3> QED BY <2>1, <3>1, LeastPosition
  <2>3. i # 0
    BY <1>3, <1>8 DEF Matches
  <2>4. i \in 1..n /\ i \in 1..k /\ i \in 0..k /\ i - 1 \in 0..n /\ i - 1 \in 0..k
        /\ i - 1 \notin Bad
    BY <1>1, <2>2, <2>3
  <2>5. PICK x : x = g[i - 1]
    OBVIOUS
  <2>6. PICK y : y = f[i - 1]
    OBVIOUS
  <2>7. PICK u : u = f[i]
    OBVIOUS
  <2>8. Matches(x, y, w, i - 1)
    BY <2>4, <2>5, <2>6
  <2>9. Place(y, w, i - 1) /\ Follows(y, w[i]) /\ u = Step(y, w[i]) /\ Place(u, w, i)
    BY <1>3, <2>4, <2>6, <2>7
  <2>10. Matches(Byte(x, w[i]), u, w, i)
    BY ONLY <1>1, Uncut(w, n), <2>4, <2>8, <2>9, MatchesOn
  <2>11. g[i] = Byte(x, w[i])
    BY <1>8, <2>4, <2>5
  <2> QED BY <2>2, <2>7, <2>10, <2>11
<1>10. PICK r : r = f[n]
  OBVIOUS
<1>11. n \in 1..k /\ n \in 1..n /\ n \in 0..k /\ n \in 0..n
  BY <1>1
<1>110. \A i \in 1..n : w[i] = 27 => i + 2 <= n
  BY DEF Uncut
<1>12. Plain(r)
  <2>1. SUFFICES ASSUME ~Plain(r) PROVE FALSE
    OBVIOUS
  <2>2. Place(r, w, n)
    BY <1>3, <1>10, <1>11
  <2>3. \/ w[n] = 27
        \/ n >= 2 /\ w[n - 1] = 27
    BY <2>1, <2>2 DEF Place, ESC
  <2>4. CASE w[n] = 27
    BY <1>1, <1>11, <1>110, <2>4
  <2>5. CASE n >= 2 /\ w[n - 1] = 27
    <3>1. n - 1 \in 1..n
      BY <1>1, <2>5
    <3>2. (n - 1) + 2 <= n
      BY <1>110, <2>5, <3>1
    <3> QED BY <1>1, <3>2
  <2> QED BY <2>3, <2>4, <2>5
<1>13. Matches(z, r, w, n)
  BY <1>8, <1>9, <1>10, <1>11
<1>15. b = BurstEnds(z)
  BY <1>6
<1>16. r.driver = b.driver /\ r.edit = b.edit /\ r.screen = b.screen /\ r.echo = b.echo
  <2>1. CASE z = r
    BY <1>12, <1>15, <2>1 DEF BurstEnds, Plain
  <2>2. CASE z # r
    <3>1. Trails(z, r) /\ r.driver.state = "normal"
      BY <1>12, <1>13, <2>2 DEF Matches, Plain
    <3>2. /\ z \in Reading /\ r \in Reading /\ r.driver \in Driver /\ z.driver \in Driver
          /\ z.driver.state = "esc" /\ z.driver.width = r.driver.width
          /\ z.driver.height = r.driver.height
          /\ z.edit = r.edit /\ z.screen = r.screen /\ z.echo = r.echo
      BY <3>1 DEF Trails, Reading, Driver
    <3>3. PICK d : d = [z.driver EXCEPT !.state = "normal"]
      OBVIOUS
    <3>4. d = r.driver
      BY <3>1, <3>2, <3>3 DEF Driver
    <3>5. b = [z EXCEPT !.driver = d]
      BY <1>15, <3>2, <3>3 DEF BurstEnds, Goto, Reading
    <3>6. b.driver = d /\ b.edit = z.edit /\ b.screen = z.screen /\ b.echo = z.echo
      BY <3>2, <3>5 DEF Reading
    <3> QED BY <3>2, <3>4, <3>6
  <2> QED BY <2>1, <2>2
\* The rest.
<1>17. PICK l : l = k - n
  OBVIOUS
<1>18. l \in Nat
  BY <1>1, <1>17
<1>19. v \in Seq(Nat) /\ Len(v) = l /\ \A i \in 1..l : v[i] = w[n + i]
  <2>1. k - n = l /\ k = Len(w)
    BY <1>0, <1>17
  <2>2. v \in Seq(Nat) /\ Len(v) = Len(w) - n /\ \A i \in 1..Len(w) - n : v[i] = w[n + i]
    BY ONLY w \in Seq(Nat), n \in 1..Len(w), v = SubSeq(w, n + 1, Len(w)), BurstRest
  <2> QED BY <2>1, <2>2
<1>20. PICK h : h = [i \in 0..l |-> f[n + i]]
  OBVIOUS
<1>21. \A i \in 0..l : h[i] = f[n + i]
  BY <1>20
<1>22. h[0] = r /\ h[l] = t
  <2>1. 0 \in 0..l /\ l \in 0..l /\ n + 0 = n /\ n + l = k
    BY <1>1, <1>17, <1>18
  <2>2. h[0] = f[n + 0] /\ h[l] = f[n + l]
    BY <1>21, <2>1
  <2> QED BY <1>3, <1>10, <2>1, <2>2
<1>23. ASSUME NEW i \in 1..l PROVE h[i] = Step(h[i - 1], v[i]) /\ Follows(h[i - 1], v[i])
  <2>1. i \in 0..l /\ i - 1 \in 0..l /\ n + i \in 1..k /\ (n + i) - 1 = n + (i - 1)
    BY <1>1, <1>17, <1>18
  <2>2. f[n + i] = Step(f[(n + i) - 1], w[n + i]) /\ Follows(f[(n + i) - 1], w[n + i])
    BY <1>3, <2>1
  <2>3. h[i] = f[n + i] /\ h[i - 1] = f[n + (i - 1)] /\ v[i] = w[n + i]
    BY <1>19, <1>21, <2>1
  <2> QED BY <2>1, <2>2, <2>3
<1>24. ASSUME NEW i \in 0..l PROVE Place(h[i], v, i)
  <2>1. CASE i = 0
    BY <1>12, <1>22, <2>1 DEF Place
  <2>2. CASE i # 0
    <3>1. PICK y : y = n + i
      OBVIOUS
    <3>2. y \in 0..k /\ i \in 1..l
      BY <1>1, <1>17, <1>18, <2>2, <3>1
    <3>3. h[i] = f[y] /\ v[i] = w[y]
      BY <1>19, <1>21, <3>1, <3>2
    <3>4. Place(h[i], w, y)
      BY <1>3, <3>2, <3>3
    <3>5. i = 1 => ~(w[y - 1] = 27)
      <4>1. SUFFICES ASSUME i = 1, w[y - 1] = 27 PROVE FALSE
        OBVIOUS
      <4>2. y - 1 = n
        BY <1>1, <3>1, <4>1
      <4>3. n + 2 <= n
        BY <1>11, <1>110, <4>1, <4>2
      <4> QED BY <1>1, <4>3
    <3>6. i >= 2 => v[i - 1] = w[y - 1]
      <4>1. SUFFICES ASSUME i >= 2 PROVE v[i - 1] = w[y - 1]
        OBVIOUS
      <4>2. i - 1 \in 1..l /\ n + (i - 1) = y - 1
        BY <1>1, <1>18, <3>1, <4>1
      <4>3. v[i - 1] = w[n + (i - 1)]
        BY <1>19, <4>2
      <4> QED BY <4>2, <4>3
    <3>7. i >= 1 /\ (i >= 2 \/ i = 1)
      BY <3>2
    <3>8. \/ Plain(h[i])
          \/ /\ Sound(h[i]) /\ h[i].driver.state = "esc"
             /\ \/ h[i].esc = "code" /\ w[y] = 27
                \/ h[i].esc = "param1" /\ w[y - 1] = 27
      BY <3>4 DEF Place, ESC
    <3> QED BY <3>3, <3>5, <3>6, <3>7, <3>8 DEF Place, ESC
  <2> QED BY <2>1, <2>2
<1>25. Reads(h, r, v, l, t)
  BY <1>22, <1>23, <1>24 DEF Reads
<1>26. Heads(r, v, Len(v), m)
  BY <1>2, <1>19, <1>25 DEF Heads, Leads
<1> QED BY <1>12, <1>16, <1>19, <1>26 DEF Goes

-----------------------------------------------------------------------------
(* The invariant of the terminal.                                          *)

\* The record with which a burst begins.
Now == [driver |-> driver, edit |-> edit, screen |-> screen, echo |-> echo,
        esc |-> "code", code |-> 0]

\* The bytes on their way lead to what is meant, unless something has been misread.
TInv == misread \/ Fed(Now, wire, meant)

\* A trace begins between two keys or inside a negotiation.
LEMMA HeadsPlain ==
    ASSUME NEW s, NEW w, NEW n \in Nat, NEW m, Heads(s, w, n, m)
    PROVE  Plain(s)
<1>1. PICK t, f : Reads(f, s, w, n, t)
  BY DEF Heads, Leads
<1>2. 0 \in 0..n
  OBVIOUS
<1>3. f[0] = s /\ Place(f[0], w, 0)
  BY <1>1, <1>2 DEF Reads
<1>4. Place(s, w, 0)
  BY <1>3
<1>5. ~(0 >= 1) /\ ~(0 >= 2)
  OBVIOUS
<1> QED BY <1>4, <1>5 DEF Place

\* The record with which a burst begins is the one with which the last one ended.
LEMMA NowIs ==
    ASSUME NEW r, Plain(r), NEW q,
           q = [driver |-> r.driver, edit |-> r.edit, screen |-> r.screen, echo |-> r.echo,
                esc |-> "code", code |-> 0]
    PROVE  q = r
<1>1. r \in Reading /\ r.esc = "code" /\ r.code = 0
  BY DEF Plain, Sound
<1> QED BY <1>1 DEF Reading

\* The consent is on its way, and nothing is meant yet.
LEMMA TerminalStart == TerminalInit => TInv
<1> SUFFICES ASSUME TerminalInit PROVE TInv
  OBVIOUS
<1>1. wire = <<255, 253, 1>>
  BY DEF TerminalInit, IAC, DO, ECHO
<1>2. wire \in Seq(Nat) /\ Len(wire) = 3 /\ wire[1] = 255 /\ wire[2] = 253 /\ wire[3] = 1
  BY <1>1
<1>3. PICK empty : empty = [line |-> <<>>, pos |-> 0, commands |-> <<>>]
  OBVIOUS
<1>4. edit = empty /\ empty \in Edit
  <2>1. <<>> \in Seq(Char) /\ <<>> \in Seq(Seq(Char))
    OBVIOUS
  <2> QED BY <1>3, <2>1 DEF TerminalInit, Edit
<1>5. meant \in Meaning /\ empty = MeantEdit(meant) /\ meant.width = 0 /\ meant.height = 0
  <2>1. meant = [line |-> <<>>, pos |-> 0, commands |-> <<>>, width |-> 0, height |-> 0]
    BY DEF TerminalInit
  <2>2. <<>> \in Seq(Char) /\ <<>> \in Seq(Seq(Char))
    OBVIOUS
  <2> QED BY <1>3, <2>1, <2>2 DEF Meaning, MeantEdit, EditOf
<1>6. PICK d : d = [state |-> "normal", width |-> 0, height |-> 0]
  OBVIOUS
<1>7. driver = d /\ d \in Driver /\ d.state = "normal" /\ d.width = 0 /\ d.height = 0
  BY <1>6 DEF TerminalInit, Driver
<1>8. PICK b : b = [row |-> <<>>, cursor |-> 0]
  OBVIOUS
<1>9. screen = b /\ b \in Screen /\ b.row = <<>> /\ b.cursor = 0
  <2>1. <<>> \in Seq(Char)
    OBVIOUS
  <2> QED BY <1>8, <2>1 DEF TerminalInit, Blank, Screen
<1>10. PICK q : q = Now
  OBVIOUS
<1>11. /\ q \in Reading /\ q.driver = d /\ q.edit = empty /\ q.screen = b /\ q.echo = FALSE
       /\ q.esc = "code" /\ q.code = 0
  <2>1. echo = FALSE
    BY DEF TerminalInit
  <2>2. q = [driver |-> d, edit |-> empty, screen |-> b, echo |-> FALSE, esc |-> "code", code |-> 0]
    BY <1>4, <1>7, <1>9, <1>10, <2>1 DEF Now
  <2> QED BY <1>4, <1>7, <1>9, <2>2 DEF Reading, Driver
<1>12. Plain(q)
  <2>1. empty.line = <<>> /\ empty.pos = 0 /\ Len(<<>>) = 0
    BY <1>3
  <2>2. Displays(b, <<>>, 0)
    BY <1>9, <2>1 DEF Displays
  <2>3. Sound(q)
    BY <1>11, <2>1, <2>2 DEF Sound
  <2> QED BY <1>7, <1>11, <2>3 DEF Plain
<1>13. Leads(q, wire, 0, q)
  BY <1>12, LeadsNowhere
<1>14. PICK c : c = q.echo
  OBVIOUS
<1>15. PICK w : w = wire
  OBVIOUS
<1>16. PICK n : n = 0
  OBVIOUS
<1>17. PICK a : a = 0
  OBVIOUS
<1>18. Reaches(q, w, n, "normal", a, a, c, empty)
  BY <1>7, <1>11, <1>12, <1>13, <1>14, <1>15, <1>16, <1>17 DEF Reaches
<1>19. PICK tt : tt = TRUE
  OBVIOUS
<1>20. n \in Nat /\ w[n + 1] = 255 /\ w[n + 2] = 253 /\ w[n + 3] = 1
  BY <1>2, <1>15, <1>16
<1>21. Reaches(q, w, n + 3, "normal", a, a, tt, empty)
  BY ONLY <1>18, <1>19, <1>20, ConsentRead
<1>22. PICK t : /\ Leads(q, w, n + 3, t) /\ Plain(t) /\ t.edit = empty /\ t.echo = tt
                /\ t.driver.state = "normal" /\ t.driver.width = a /\ t.driver.height = a
  BY <1>21 DEF Reaches
<1>23. IsMeant(t, meant)
  BY <1>5, <1>17, <1>19, <1>22 DEF IsMeant, Ready
<1>24. n + 3 = Len(wire)
  BY <1>2, <1>16
<1>25. Heads(q, wire, Len(wire), meant)
  BY <1>15, <1>22, <1>23, <1>24 DEF Heads
<1> QED BY <1>2, <1>5, <1>10, <1>25 DEF TInv, Fed

\* Every step keeps the invariant.
LEMMA TerminalStep == TInv /\ [TerminalNext]_terminalVars => TInv'
<1> SUFFICES ASSUME TInv, [TerminalNext]_terminalVars, ~misread' PROVE TInv'
  BY DEF TInv
<1>00. ~misread
  BY DEF TerminalNext, terminalVars, Type, Answer, AnswerOption, ReceiveBytes
<1>0. Fed(Now, wire, meant)
  BY <1>00 DEF TInv
<1>1. ASSUME NEW key \in Keys, Type(key) PROVE TInv'
  <2>1. wire' = wire \o key /\ meant' = Meant(meant, key)
    BY <1>1 DEF Type, Sent
  <2>2. Now' = Now
    BY <1>1 DEF Type, Now
  <2>3. PICK w : w = wire'
    OBVIOUS
  <2>4. PICK m : m = meant'
    OBVIOUS
  <2>5. Fed(Now, w, m)
    <3>1. CASE \E ch \in Letter : key = <<ch>>
      <4>1. PICK ch \in Letter : key = <<ch>>
        BY <3>1
      <4>2. w = wire \o <<ch>> /\ m = Meant(meant, <<ch>>)
        BY <2>1, <2>3, <2>4, <4>1
      <4> QED BY ONLY <1>0, <4>2, LetterTyped
    <3>2. CASE key = <<13, 0>>
      <4>1. w = wire \o <<13, 0>> /\ m = Meant(meant, <<13, 0>>)
        BY <2>1, <2>3, <2>4, <3>2
      <4> QED BY ONLY <1>0, <4>1, EnterTyped
    <3>3. CASE key = <<127>>
      <4>1. w = wire \o <<127>> /\ m = Meant(meant, <<127>>)
        BY <2>1, <2>3, <2>4, <3>3
      <4> QED BY ONLY <1>0, <4>1, BackspaceTyped
    <3>4. CASE \E code \in {67, 68} : key = <<27, 91, code>>
      <4>1. PICK code \in {67, 68} : key = <<27, 91, code>>
        BY <3>4
      <4>2. w = wire \o Arrow(code) /\ m = Meant(meant, Arrow(code))
        BY <2>1, <2>3, <2>4, <4>1 DEF Arrow, ESC, BRACKET
      <4>3. IsArrow(code)
        BY <4>1 DEF IsArrow
      <4> QED BY ONLY <1>0, <4>2, <4>3, ArrowTyped
    <3> QED BY <3>1, <3>2, <3>3, <3>4
            DEF Keys, CR, NUL, DEL, Arrow, ESC, BRACKET, Left, Right
  <2> QED BY <2>2, <2>3, <2>4, <2>5 DEF TInv, Fed
<1>2. ASSUME NEW w \in Size, NEW h \in Size, Answer(w, h) PROVE TInv'
  <2>1. /\ wire' = wire \o <<255, 250, 31, 0, w, 0, h, 255, 240>>
        /\ meant' = [meant EXCEPT !.width = w, !.height = h]
    BY <1>2 DEF Answer, Sent, Window, IAC, SB, NAWS, NUL, SE
  <2>2. Now' = Now
    BY <1>2 DEF Answer, Now
  <2>3. w \in Nat \ {0} /\ h \in Nat \ {0}
    BY TerminalAssumption DEF TerminalAssumption
  <2>4. PICK v : v = wire'
    OBVIOUS
  <2>5. PICK m : m = meant'
    OBVIOUS
  <2>6. v = wire \o WindowBytes(w, h)
    BY <2>1, <2>4 DEF WindowBytes
  <2>61. m = Resized(meant, w, h)
    BY <2>1, <2>5 DEF Resized
  <2>7. Fed(Now, v, m)
    BY ONLY <1>0, <2>3, <2>6, <2>61, WindowSent
  <2> QED BY <2>2, <2>4, <2>5, <2>7 DEF TInv, Fed
<1>3. ASSUME AnswerOption PROVE TInv'
  <2>1. PICK option \in {31, 24} : wire' = wire \o <<255, 251, option>>
    BY <1>3 DEF AnswerOption, Sent, IAC, WILL, NAWS, TERMTYPE
  <2>2. Now' = Now /\ meant' = meant
    BY <1>3 DEF AnswerOption, Now
  <2>3. PICK v : v = wire'
    OBVIOUS
  <2>4. v = wire \o OfferBytes(option)
    BY <2>1, <2>3 DEF OfferBytes
  <2>5. PICK s : s = Now
    OBVIOUS
  <2>6. PICK w : w = wire
    OBVIOUS
  <2>7. PICK m : m = meant
    OBVIOUS
  <2>8. Fed(s, w, m) /\ v = w \o OfferBytes(option)
    BY <1>0, <2>4, <2>5, <2>6, <2>7
  <2>9. Fed(s, v, m)
    BY ONLY option \in {31, 24}, <2>8, OfferSent
  <2> QED BY <1>0, <2>2, <2>3, <2>5, <2>7, <2>9 DEF TInv, Fed
<1>4. ASSUME NEW n \in 1..Len(wire), ReceiveBytes(n) PROVE TInv'
  <2>1. Uncut(wire, n)
    <3>1. misread' = (misread \/ ~Whole(n))
      BY <1>4 DEF ReceiveBytes
    <3>2. Whole(n)
      BY <3>1
    <3> QED BY <3>2 DEF Whole, ESC, Uncut
  <2>2. PICK b : b = Burst(SubSeq(wire, 1, n))
    OBVIOUS
  <2>3. b = EndOf(Now, wire, n)
    BY <2>2 DEF Burst, Now, EndOf, ReadTo
  <2>4. /\ driver' = b.driver /\ edit' = b.edit /\ screen' = b.screen /\ echo' = b.echo
        /\ meant' = meant /\ wire' = SubSeq(wire, n + 1, Len(wire))
    BY <1>4, <2>2 DEF ReceiveBytes
  <2>5. PICK v : v = SubSeq(wire, n + 1, Len(wire))
    OBVIOUS
  <2>13. meant \in Meaning
    BY <1>0 DEF Fed
  <2>14. n \in 1..Len(wire)
    OBVIOUS
  <2>6. Goes(v, b, meant)
    BY ONLY <1>0, <2>14, <2>1, <2>3, <2>5, BurstRead
  <2>8. PICK r : /\ Plain(r) /\ r.driver = b.driver /\ r.edit = b.edit
                 /\ r.screen = b.screen /\ r.echo = b.echo /\ Heads(r, v, Len(v), meant)
    BY <2>6 DEF Goes
  <2>9. PICK q : q = Now'
    OBVIOUS
  <2>10. q = [driver |-> r.driver, edit |-> r.edit, screen |-> r.screen, echo |-> r.echo,
              esc |-> "code", code |-> 0]
    BY <2>4, <2>8, <2>9 DEF Now
  <2>11. q = r
    BY ONLY <2>8, <2>10, NowIs
  <2>12. wire' = v /\ meant' = meant
    BY <2>4, <2>5
  <2> QED BY <2>13, <2>6, <2>8, <2>9, <2>11, <2>12 DEF TInv, Fed, Goes
<1>5. ASSUME UNCHANGED terminalVars PROVE TInv'
  BY <1>0, <1>5 DEF terminalVars, TInv, Now
<1> QED BY <1>1, <1>2, <1>3, <1>4, <1>5 DEF TerminalNext

\* The invariant holds in every reachable state of the terminal.
LEMMA TerminalAlways == TerminalSpec => []TInv
<1>1. TerminalInit => TInv
  BY TerminalStart
<1>2. TInv /\ [TerminalNext]_terminalVars => TInv'
  BY TerminalStep
<1> QED BY <1>1, <1>2, PTL DEF TerminalSpec

\* What telnet_socket_client_receive and telnet_receiveWithEcho have made of the
\* bytes of a client is what it has typed, for any bursts in which they came, as long
\* as no arrow key has been cut in two or followed by another key in one of them.
THEOREM TelnetUnderstood == TerminalSpec => []Understood
<1>1. TInv => Understood
  <2> SUFFICES ASSUME TInv, wire = <<>>, ~misread PROVE
        /\ <<edit.line, edit.pos, edit.commands>> = <<meant.line, meant.pos, meant.commands>>
        /\ <<driver.width, driver.height>> = <<meant.width, meant.height>>
    BY DEF Understood
  <2>1. Len(wire) = 0
    OBVIOUS
  <2>2. Heads(Now, wire, 0, meant)
    BY <2>1 DEF TInv, Fed
  <2>3. PICK t, f : Reads(f, Now, wire, 0, t) /\ IsMeant(t, meant)
    BY <2>2 DEF Heads, Leads
  <2>4. t = Now
    BY <2>3 DEF Reads
  <2>5. Now.edit = edit /\ Now.driver = driver
    BY DEF Now
  <2>6. edit = MeantEdit(meant) /\ driver.width = meant.width /\ driver.height = meant.height
    BY <2>3, <2>4, <2>5 DEF IsMeant
  <2> QED BY <2>6 DEF MeantEdit, EditOf
<1>2. TerminalSpec => []TInv
  BY TerminalAlways
<1> QED BY <1>1, <1>2, PTL

-----------------------------------------------------------------------------
(* The screen after any bytes.                                             *)

\* The line and the screen are sound, and the echo is agreed upon.
Steady(t) == Sound(t) /\ t.echo = TRUE

\* A change that leaves the line and the screen alone.
LEMMA SoundStays ==
    ASSUME NEW t, Sound(t), NEW u \in Reading, u.edit = t.edit, u.screen = t.screen
    PROVE  Sound(u)
BY DEF Sound

\* Another state of the automaton.
LEMMA GotoKeeps ==
    ASSUME NEW t, Sound(t), NEW x \in Between
    PROVE  /\ Sound(Goto(t, x)) /\ Goto(t, x).echo = t.echo
           /\ Goto(t, x).driver.state = x
<1>1. t \in Reading /\ t.driver \in Driver
  BY DEF Sound, Reading, Driver
<1>2. PICK d : d = [t.driver EXCEPT !.state = x]
  OBVIOUS
<1>3. d \in Driver /\ d.state = x
  BY <1>1, <1>2 DEF Driver, Between
<1>4. PICK u : u = [t EXCEPT !.driver = d]
  OBVIOUS
<1>5. Goto(t, x) = u
  BY <1>1, <1>2, <1>4 DEF Goto, Reading
<1>6. /\ u \in Reading /\ u.edit = t.edit /\ u.screen = t.screen /\ u.echo = t.echo
      /\ u.driver = d
  BY <1>1, <1>3, <1>4 DEF Reading, Driver
<1> QED BY <1>3, <1>5, <1>6, SoundStays

\* A key that came as one byte.
LEMMA KeyKeeps ==
    ASSUME NEW t, Steady(t), NEW ch
    PROVE  Steady(Key(t, ch))
<1>0. Sound(t) /\ t.echo = TRUE
  BY DEF Steady
<1>1. CASE ch = 13
  <2>1. PICK u : u = Command(t)
    OBVIOUS
  <2>2. Sound(u) /\ u.echo = t.echo
    BY ONLY <1>0, <2>1, CommandShown
  <2>3. Key(t, ch) = u
    BY <1>1, <2>1 DEF Key, CR, DEL
  <2> QED BY <1>0, <2>2, <2>3 DEF Steady
<1>2. CASE ch = 127
  <2>1. PICK u : u = Backspace(t)
    OBVIOUS
  <2>2. Sound(u) /\ u.echo = t.echo
    BY ONLY <1>0, <2>1, BackspaceShown
  <2>3. Key(t, ch) = u
    BY <1>2, <2>1 DEF Key, CR, DEL
  <2> QED BY <1>0, <2>2, <2>3 DEF Steady
<1>3. CASE ch \in 32..255 \ {127}
  <2>1. PICK u : u = Character(t, ch)
    OBVIOUS
  <2>2. ch \in Char /\ ch # 13 /\ ch # 127
    BY <1>3 DEF Char
  <2>3. Sound(u) /\ u.echo = t.echo
    BY ONLY <1>0, <2>1, <2>2, CharacterShown
  <2>4. Key(t, ch) = u
    BY <1>3, <2>1, <2>2 DEF Key, CR, DEL
  <2> QED BY <1>0, <2>3, <2>4 DEF Steady
<1>4. CASE ch # 13 /\ ch # 127 /\ ch \notin 32..255 \ {127}
  <2>1. Key(t, ch) = t
    BY <1>4 DEF Key, CR, DEL
  <2> QED BY <1>0, <2>1 DEF Steady
<1> QED BY <1>1, <1>2, <1>3, <1>4

\* The end of an escape sequence.
LEMMA EscapeKeeps ==
    ASSUME NEW t, Steady(t), NEW code
    PROVE  Steady(Escape(t, code))
<1>0. Sound(t) /\ t.echo = TRUE
  BY DEF Steady
<1>1. ASSUME NEW o \in {1, -1} PROVE Steady(Move(t, o))
  <2>1. PICK u : u = Move(t, o)
    OBVIOUS
  <2>2. Sound(u) /\ u.echo = t.echo
    BY ONLY <1>0, <2>1, o \in {1, -1}, MoveShown
  <2> QED BY <1>0, <2>1, <2>2 DEF Steady
<1>2. CASE code = 67
  <2>1. Escape(t, code) = Move(t, 1)
    BY ONLY <1>2 DEF Escape, Right, Left
  <2> QED BY <1>1, <2>1
<1>3. CASE code = 68
  <2>1. Escape(t, code) = Move(t, -1)
    BY ONLY <1>3 DEF Escape, Right, Left
  <2> QED BY <1>1, <2>1
<1>4. CASE code # 67 /\ code # 68
  <2>1. Escape(t, code) = t
    BY <1>4 DEF Escape, Right, Left
  <2> QED BY <2>1
<1> QED BY <1>2, <1>3, <1>4

\* A byte inside an escape sequence.
LEMMA InEscapeKeeps ==
    ASSUME NEW t, Steady(t), NEW ch \in Nat
    PROVE  Steady(InEscape(t, ch))
<1>0. Sound(t) /\ t.echo = TRUE /\ t \in Reading
  BY DEF Steady, Sound
<1>1. ASSUME NEW x \in {"param1", "param2"} PROVE Steady([t EXCEPT !.esc = x])
  <2>1. PICK u : u = [t EXCEPT !.esc = x]
    OBVIOUS
  <2>2. u \in Reading /\ u.edit = t.edit /\ u.screen = t.screen /\ u.echo = t.echo
    BY <1>0, <2>1 DEF Reading
  <2> QED BY <1>0, <2>1, <2>2, SoundStays DEF Steady
<1>2. Steady([t EXCEPT !.code = ch])
  <2>1. PICK u : u = [t EXCEPT !.code = ch]
    OBVIOUS
  <2>2. u \in Reading /\ u.edit = t.edit /\ u.screen = t.screen /\ u.echo = t.echo
    BY <1>0, <2>1 DEF Reading
  <2> QED BY <1>0, <2>1, <2>2, SoundStays DEF Steady
<1>3. Steady(Key(Goto(t, "normal"), ch))
  <2>1. "normal" \in Between
    BY DEF Between
  <2>2. Steady(Goto(t, "normal"))
    BY <1>0, <2>1, GotoKeeps DEF Steady
  <2> QED BY <2>2, KeyKeeps
<1>4. /\ Steady(Escape(t, t.code)) /\ Steady(Escape([t EXCEPT !.esc = "param2"], t.code))
      /\ Steady(Escape([t EXCEPT !.code = ch], ch))
  BY <1>1, <1>2, EscapeKeeps
<1>5. \/ InEscape(t, ch) = [t EXCEPT !.esc = "param1"]
      \/ InEscape(t, ch) = Key(Goto(t, "normal"), ch)
      \/ InEscape(t, ch) = Escape(t, t.code)
      \/ InEscape(t, ch) = Escape([t EXCEPT !.esc = "param2"], t.code)
      \/ InEscape(t, ch) = Escape([t EXCEPT !.code = ch], ch)
  BY DEF InEscape
<1>6. Steady([t EXCEPT !.esc = "param1"])
  BY <1>1
<1> QED BY <1>3, <1>4, <1>5, <1>6

\* A byte inside a negotiation.
LEMMA NegotiationKeeps ==
    ASSUME NEW t, Steady(t), t.driver.state \notin {"normal", "esc"}, NEW ch \in Nat
    PROVE  Steady(Negotiation(t, ch))
<1>0. Sound(t) /\ t.echo = TRUE /\ t \in Reading /\ t.driver \in Driver
  BY DEF Steady, Sound, Reading, Driver
<1>1. ASSUME NEW x \in Between PROVE Steady(Goto(t, x))
  BY <1>0, GotoKeeps DEF Steady
<1>2. ASSUME NEW d \in Driver PROVE Steady([t EXCEPT !.driver = d])
  <2>1. PICK u : u = [t EXCEPT !.driver = d]
    OBVIOUS
  <2>2. u \in Reading /\ u.edit = t.edit /\ u.screen = t.screen /\ u.echo = t.echo
    BY <1>0, <2>1 DEF Reading, Driver
  <2> QED BY <1>0, <2>1, <2>2, SoundStays DEF Steady
<1>3. CASE t.driver.state = "iac"
  <2>1. Negotiation(t, ch) = IF ch \in DOMAIN Verb THEN Goto(t, Verb[ch]) ELSE t
    BY <1>3 DEF Negotiation
  <2>2. ch \in DOMAIN Verb => Verb[ch] \in Between
    BY DEF Verb, SB, WILL, WONT, DO, DONT, Between
  <2> QED BY <1>1, <2>1, <2>2
<1>4. CASE t.driver.state = "do"
  <2>1. PICK v : v = [t EXCEPT !.echo = TRUE]
    OBVIOUS
  <2>2. v \in Reading /\ v.edit = t.edit /\ v.screen = t.screen /\ v.echo = TRUE
    BY <1>0, <2>1 DEF Reading
  <2>3. Negotiation(t, ch) = Goto(v, "normal")
    <3>1. Negotiation(t, ch) = Goto([t EXCEPT !.echo = @ \/ ch = ECHO], "normal")
      BY <1>4 DEF Negotiation, DoOption
    <3>2. (t.echo \/ ch = ECHO) = TRUE
      BY <1>0
    <3>3. [t EXCEPT !.echo = @ \/ ch = ECHO] = v
      BY <1>0, <2>1, <3>2 DEF Reading
    <3> QED BY <3>1, <3>3
  <2>4. Sound(v) /\ "normal" \in Between
    BY <1>0, <2>2, SoundStays DEF Between
  <2> QED BY <2>2, <2>3, <2>4, GotoKeeps DEF Steady
<1>5. CASE t.driver.state \in {"dont", "will", "wont"}
  <2>1. Negotiation(t, ch) = Goto(t, "normal")
    BY <1>5 DEF Negotiation
  <2>2. "normal" \in Between
    BY DEF Between
  <2> QED BY <1>1, <2>1, <2>2
<1>6. CASE t.driver.state = "sb"
  <2>1. PICK d : d = [state |-> "width", width |-> 0, height |-> 0]
    OBVIOUS
  <2>2. d \in Driver /\ "till_se" \in Between
    BY <2>1 DEF Driver, Between
  <2>3. Negotiation(t, ch) = IF ch # NAWS THEN Goto(t, "till_se") ELSE [t EXCEPT !.driver = d]
    BY <1>6, <2>1 DEF Negotiation
  <2> QED BY <1>1, <1>2, <2>2, <2>3
<1>7. CASE t.driver.state = "width"
  <2>1. PICK d : d = [[t.driver EXCEPT !.width = @ + ch] EXCEPT !.state = "height"]
    OBVIOUS
  <2>2. d \in Driver
    <3>1. PICK c : c = [t.driver EXCEPT !.width = @ + ch]
      OBVIOUS
    <3>2. c \in Driver
      BY <1>0, <3>1 DEF Driver
    <3>3. d = [c EXCEPT !.state = "height"]
      BY <2>1, <3>1
    <3> QED BY <3>2, <3>3 DEF Driver
  <2>3. Negotiation(t, ch) = [t EXCEPT !.driver = d]
    <3>1. Negotiation(t, ch) = [t EXCEPT !.driver.width = @ + ch, !.driver.state = "height"]
      BY <1>7 DEF Negotiation
    <3> QED BY <1>0, <2>1, <3>1 DEF Reading
  <2> QED BY <1>2, <2>2, <2>3
<1>8. CASE t.driver.state = "height"
  <2>1. PICK d : d = [[t.driver EXCEPT !.height = @ + ch] EXCEPT !.state = "till_se"]
    OBVIOUS
  <2>2. d \in Driver
    <3>1. PICK c : c = [t.driver EXCEPT !.height = @ + ch]
      OBVIOUS
    <3>2. c \in Driver
      BY <1>0, <3>1 DEF Driver
    <3>3. d = [c EXCEPT !.state = "till_se"]
      BY <2>1, <3>1
    <3> QED BY <3>2, <3>3 DEF Driver
  <2>3. Negotiation(t, ch) = [t EXCEPT !.driver = d]
    <3>1. Negotiation(t, ch) = [t EXCEPT !.driver.height = @ + ch, !.driver.state = "till_se"]
      BY <1>8 DEF Negotiation
    <3> QED BY <1>0, <2>1, <3>1 DEF Reading
  <2> QED BY <1>2, <2>2, <2>3
<1>9. CASE t.driver.state = "till_se"
  <2>1. Negotiation(t, ch) = IF ch = SE THEN Goto(t, "normal") ELSE t
    BY <1>9 DEF Negotiation
  <2>2. "normal" \in Between
    BY DEF Between
  <2> QED BY <1>1, <2>1, <2>2
<1> QED BY <1>0, <1>3, <1>4, <1>5, <1>6, <1>7, <1>8, <1>9 DEF Driver

\* Any byte, once the echo is agreed upon.
LEMMA ByteKeeps ==
    ASSUME NEW t, Steady(t), NEW ch \in Nat
    PROVE  Steady(Byte(t, ch))
<1>0. Sound(t) /\ t.echo = TRUE /\ t \in Reading /\ t.driver \in Driver
  BY DEF Steady, Sound, Reading, Driver
<1>1. CASE ch = 0
  <2>1. Byte(t, ch) = t
    BY <1>1 DEF Byte, NUL
  <2> QED BY <2>1
<1>2. CASE ch # 0 /\ t.driver.state = "normal"
  <2>1. Byte(t, ch) = IF ch = IAC THEN Goto(t, "iac")
                      ELSE IF ch = ESC THEN [Goto(t, "esc") EXCEPT !.esc = "code", !.code = 0]
                      ELSE Key(t, ch)
    BY <1>2 DEF Byte, NUL
  <2>2. Steady(Goto(t, "iac"))
    <3>1. "iac" \in Between
      BY DEF Between
    <3> QED BY <1>0, <3>1, GotoKeeps DEF Steady
  <2>3. Steady([Goto(t, "esc") EXCEPT !.esc = "code", !.code = 0])
    <3>1. PICK u : u = Step(t, 27)
      OBVIOUS
    <3>2. u = [Goto(t, "esc") EXCEPT !.esc = "code", !.code = 0]
      BY <1>2, <3>1 DEF Step, Byte, NUL, IAC, ESC
    <3>3. u \in Reading /\ u.edit = t.edit /\ u.screen = t.screen /\ u.echo = t.echo
      BY ONLY <1>0, <1>2, <3>1, ArrowBegins
    <3> QED BY <1>0, <3>2, <3>3, SoundStays DEF Steady
  <2>4. Steady(Key(t, ch))
    BY KeyKeeps
  <2> QED BY <2>1, <2>2, <2>3, <2>4
<1>3. CASE ch # 0 /\ t.driver.state = "esc"
  <2>1. Byte(t, ch) = InEscape(t, ch)
    BY <1>3 DEF Byte, NUL
  <2> QED BY <2>1, InEscapeKeeps
<1>4. CASE ch # 0 /\ t.driver.state \notin {"normal", "esc"}
  <2>1. Byte(t, ch) = Negotiation(t, ch)
    BY <1>4 DEF Byte, NUL
  <2> QED BY <1>4, <2>1, NegotiationKeeps
<1> QED BY <1>1, <1>2, <1>3, <1>4

\* Behind the first i bytes of w, in state x of the automaton, the client's consent
\* to an echo is still to be read.
Pending(x, w, i) ==
    \/ /\ x = "normal" /\ i + 3 <= Len(w)
       /\ w[i + 1] = 255 /\ w[i + 2] = 253 /\ w[i + 3] = 1
    \/ x = "iac" /\ i + 2 <= Len(w) /\ w[i + 1] = 253 /\ w[i + 2] = 1
    \/ x = "do" /\ i + 1 <= Len(w) /\ w[i + 1] = 1

\* The line and the screen are sound, and will be.
Agreed(t, w, i) == Sound(t) /\ (t.echo = TRUE \/ Pending(t.driver.state, w, i))

\* One byte more.
LEMMA AgreedOn ==
    ASSUME NEW w \in Seq(Nat), NEW i \in 1..Len(w), NEW t, Agreed(t, w, i - 1)
    PROVE  Agreed(Byte(t, w[i]), w, i)
<1>0. w[i] \in Nat /\ Len(w) \in Nat /\ Sound(t)
  BY ElementOfSeq, LenProperties DEF Agreed
<1>1. CASE t.echo = TRUE
  BY <1>0, <1>1, ByteKeeps DEF Agreed, Steady
<1>2. CASE t.echo # TRUE /\ t.driver.state = "normal"
  <2>1. Pending("normal", w, i - 1)
    BY <1>2 DEF Agreed
  <2>2. w[i] = 255 /\ w[i + 1] = 253 /\ w[i + 2] = 1 /\ i + 2 <= Len(w)
    BY <1>0, <2>1 DEF Pending
  <2>3. Byte(t, w[i]) = Goto(t, "iac") /\ "iac" \in Between
    BY <1>2, <2>2 DEF Byte, NUL, IAC, Between
  <2> QED BY <1>0, <2>2, <2>3, GotoKeeps DEF Agreed, Pending
<1>3. CASE t.echo # TRUE /\ t.driver.state = "iac"
  <2>1. Pending("iac", w, i - 1)
    BY <1>3 DEF Agreed
  <2>2. w[i] = 253 /\ w[i + 1] = 1 /\ i + 1 <= Len(w)
    BY <1>0, <2>1 DEF Pending
  <2>3. Byte(t, 253) = Negotiation(t, 253)
    BY <1>3 DEF Byte, NUL
  <2>4. Negotiation(t, 253) = IF 253 \in DOMAIN Verb THEN Goto(t, Verb[253]) ELSE t
    BY <1>3 DEF Negotiation
  <2>5. 253 \in DOMAIN Verb /\ Verb[253] = "do" /\ "do" \in Between
    BY DEF Verb, SB, WILL, WONT, DO, DONT, Between
  <2>6. Byte(t, w[i]) = Goto(t, "do")
    BY <2>2, <2>3, <2>4, <2>5
  <2> QED BY <1>0, <2>2, <2>5, <2>6, GotoKeeps DEF Agreed, Pending
<1>4. CASE t.echo # TRUE /\ t.driver.state = "do"
  <2>1. Pending("do", w, i - 1)
    BY <1>4 DEF Agreed
  <2>2. w[i] = 1
    BY <1>0, <2>1 DEF Pending
  <2>3. PICK v : v = [t EXCEPT !.echo = TRUE]
    OBVIOUS
  <2>4. v \in Reading /\ v.edit = t.edit /\ v.screen = t.screen /\ v.echo = TRUE /\ t \in Reading
    BY <1>0, <2>3 DEF Reading, Sound
  <2>5. Byte(t, 1) = Goto(v, "normal")
    <3>1. Byte(t, 1) = Goto([t EXCEPT !.echo = @ \/ 1 = ECHO], "normal")
      BY <1>4 DEF Byte, NUL, Negotiation, DoOption
    <3>2. [t EXCEPT !.echo = @ \/ 1 = ECHO] = v
      BY <2>3, <2>4 DEF ECHO, Reading
    <3> QED BY <3>1, <3>2
  <2>6. Sound(v) /\ "normal" \in Between
    BY <1>0, <2>4, SoundStays DEF Between
  <2> QED BY <2>2, <2>4, <2>5, <2>6, GotoKeeps DEF Agreed
<1> QED BY <1>1, <1>2, <1>3, <1>4 DEF Agreed, Pending

\* More bytes behind those on their way.
LEMMA AgreedBehind ==
    ASSUME NEW w \in Seq(Nat), NEW b \in Seq(Nat), NEW v, v = w \o b, NEW t, Agreed(t, w, 0)
    PROVE  v \in Seq(Nat) /\ Agreed(t, v, 0)
<1>1. v \in Seq(Nat) /\ Len(v) = Len(w) + Len(b) /\ \A i \in 1..Len(w) : v[i] = w[i]
  BY ONLY w \in Seq(Nat), b \in Seq(Nat), v = w \o b, ConcatProperties
<1>2. Len(w) \in Nat /\ Len(b) \in Nat
  BY LenProperties
<1>3. /\ Len(w) <= Len(v)
      /\ 1 <= Len(w) => v[1] = w[1]
      /\ 2 <= Len(w) => v[2] = w[2]
      /\ 3 <= Len(w) => v[3] = w[3]
  BY <1>1, <1>2
<1>4. ASSUME NEW x, Pending(x, w, 0) PROVE Pending(x, v, 0)
  <2>1. Len(v) \in Nat
    BY <1>1, LenProperties
  <2> QED BY <1>2, <1>3, <1>4, <2>1 DEF Pending
<1> QED BY <1>1, <1>4 DEF Agreed

\* A burst, whatever its bytes are.
LEMMA AgreedBurst ==
    ASSUME NEW w \in Seq(Nat), NEW s, Agreed(s, w, 0), NEW n \in 1..Len(w),
           NEW b, b = EndOf(s, w, n), NEW v, v = SubSeq(w, n + 1, Len(w))
    PROVE  v \in Seq(Nat) /\ Agreed(b, v, 0)
<1>1. PICK z : z = ReadTo(s, w, n)
  OBVIOUS
<1>2. PICK g : Passes(g, s, w, n, z)
  BY ONLY w \in Seq(Nat), n \in 1..Len(w), <1>1, BurstRuns
<1>3. g[0] = s /\ g[n] = z /\ \A i \in 1..n : g[i] = Byte(g[i - 1], w[i])
  BY <1>2 DEF Passes
<1>4. n \in Nat /\ Len(w) \in Nat /\ n >= 1 /\ n <= Len(w)
  BY LenProperties
<1>5. \A i \in 0..n : Agreed(g[i], w, i)
  <2> DEFINE Bad == {i \in 0..n : ~Agreed(g[i], w, i)}
  <2>1. SUFFICES ASSUME Bad # {} PROVE FALSE
    OBVIOUS
  <2>2. PICK i \in Bad : \A x \in Bad : i <= x
    <3>1. Bad \in SUBSET Nat
      BY <1>4
    <3> HIDE DEF Bad
    <3> QED BY <2>1, <3>1, LeastPosition
  <2>3. i # 0
    BY <1>3
  <2>4. i \in 1..n /\ i \in 1..Len(w) /\ i - 1 \in 0..n /\ i - 1 \notin Bad
    BY <1>4, <2>2, <2>3
  <2>5. PICK x : x = g[i - 1]
    OBVIOUS
  <2>6. Agreed(x, w, i - 1)
    BY <2>4, <2>5
  <2>7. Agreed(Byte(x, w[i]), w, i)
    BY ONLY w \in Seq(Nat), <2>4, <2>6, AgreedOn
  <2>8. g[i] = Byte(x, w[i])
    BY <1>3, <2>4, <2>5
  <2> QED BY <2>2, <2>7, <2>8
<1>6. Agreed(z, w, n)
  BY <1>3, <1>4, <1>5
<1>7. v \in Seq(Nat) /\ Len(v) = Len(w) - n /\ \A i \in 1..Len(w) - n : v[i] = w[n + i]
  BY ONLY w \in Seq(Nat), n \in 1..Len(w), v = SubSeq(w, n + 1, Len(w)), BurstRest
<1>8. b = BurstEnds(z)
  BY <1>1 DEF EndOf
<1>9. CASE z.driver.state = "esc"
  <2>1. z.echo = TRUE /\ Sound(z)
    BY <1>6, <1>9 DEF Agreed, Pending
  <2>2. b = Goto(z, "normal") /\ "normal" \in Between
    BY <1>8, <1>9 DEF BurstEnds, Between
  <2> QED BY <1>7, <2>1, <2>2, GotoKeeps DEF Agreed
<1>10. CASE z.driver.state # "esc"
  <2>1. b = z
    BY <1>8, <1>10 DEF BurstEnds
  <2>2. PICK l : l = Len(w) - n
    OBVIOUS
  <2>3. /\ l \in Nat /\ Len(v) = l
        /\ l >= 1 => v[1] = w[n + 1]
        /\ l >= 2 => v[2] = w[n + 2]
        /\ l >= 3 => v[3] = w[n + 3]
    BY <1>4, <1>7, <2>2
  <2>4. \A c \in 1..3 : n + c <= Len(w) => c <= l
    BY <1>4, <2>2
  <2>5. ASSUME NEW x, Pending(x, w, n) PROVE Pending(x, v, 0)
    BY <2>3, <2>4, <2>5 DEF Pending
  <2> QED BY <1>6, <1>7, <2>1, <2>5 DEF Agreed
<1> QED BY <1>9, <1>10

\* The screen is sound when the next burst begins.
SInv == wire \in Seq(Nat) /\ Agreed(Now, wire, 0)

\* It is from the start, with the consent on its way.
LEMMA ScreenStart == TerminalInit => SInv
<1> SUFFICES ASSUME TerminalInit PROVE SInv
  OBVIOUS
<1>1. wire = <<255, 253, 1>>
  BY DEF TerminalInit, IAC, DO, ECHO
<1>2. wire \in Seq(Nat) /\ Len(wire) = 3 /\ wire[1] = 255 /\ wire[2] = 253 /\ wire[3] = 1
  BY <1>1
<1>3. ~misread
  BY DEF TerminalInit
<1>4. Fed(Now, wire, meant)
  BY <1>3, TerminalStart DEF TInv
<1>5. Plain(Now)
  <2>1. Heads(Now, wire, Len(wire), meant) /\ Len(wire) \in Nat
    BY <1>2, <1>4 DEF Fed
  <2> QED BY ONLY <2>1, HeadsPlain
<1>6. Sound(Now)
  BY <1>5 DEF Plain
<1>7. Now.driver.state = "normal"
  BY DEF Now, TerminalInit
<1> QED BY <1>2, <1>6, <1>7 DEF SInv, Agreed, Pending

\* Every step keeps it, whatever is in a burst.
LEMMA ScreenStep == SInv /\ [TerminalNext]_terminalVars => SInv'
<1> SUFFICES ASSUME SInv, [TerminalNext]_terminalVars PROVE SInv'
  OBVIOUS
<1>0. wire \in Seq(Nat) /\ Agreed(Now, wire, 0)
  BY DEF SInv
<1>1. ASSUME NEW bytes \in Seq(Nat), wire' = wire \o bytes, Now' = Now PROVE SInv'
  <2>1. PICK v : v = wire'
    OBVIOUS
  <2>2. PICK t : t = Now
    OBVIOUS
  <2>3. v = wire \o bytes /\ Agreed(t, wire, 0) /\ wire \in Seq(Nat)
    BY <1>0, <1>1, <2>1, <2>2
  <2>4. v \in Seq(Nat) /\ Agreed(t, v, 0)
    BY ONLY bytes \in Seq(Nat), <2>3, AgreedBehind
  <2> QED BY <1>1, <2>1, <2>2, <2>4 DEF SInv, Agreed, Pending
<1>2. ASSUME NEW key \in Keys, Type(key) PROVE SInv'
  <2>1. wire' = wire \o key /\ Now' = Now
    BY <1>2 DEF Type, Sent, Now
  <2>2. key \in Seq(Nat)
    <3>1. \A ch \in Letter : ch \in Nat
      BY TerminalAssumption DEF TerminalAssumption
    <3>2. \A ch \in Nat : <<ch>> \in Seq(Nat) /\ <<27, 91, ch>> \in Seq(Nat)
      OBVIOUS
    <3>3. <<13, 0>> \in Seq(Nat)
      OBVIOUS
    <3> QED BY <3>1, <3>2, <3>3 DEF Keys, CR, NUL, DEL, Arrow, ESC, BRACKET, Left, Right
  <2> QED BY <1>1, <2>1, <2>2
<1>3. ASSUME NEW w \in Size, NEW h \in Size, Answer(w, h) PROVE SInv'
  <2>1. wire' = wire \o <<255, 250, 31, 0, w, 0, h, 255, 240>> /\ Now' = Now
    BY <1>3 DEF Answer, Sent, Window, IAC, SB, NAWS, NUL, SE, Now
  <2>2. w \in Nat /\ h \in Nat
    BY TerminalAssumption DEF TerminalAssumption
  <2>3. <<255, 250, 31, 0, w, 0, h, 255, 240>> \in Seq(Nat)
    BY <2>2
  <2> QED BY <1>1, <2>1, <2>3
<1>4. ASSUME AnswerOption PROVE SInv'
  <2>1. PICK option \in {31, 24} : wire' = wire \o <<255, 251, option>>
    BY <1>4 DEF AnswerOption, Sent, IAC, WILL, NAWS, TERMTYPE
  <2>2. Now' = Now
    BY <1>4 DEF AnswerOption, Now
  <2>3. <<255, 251, option>> \in Seq(Nat)
    OBVIOUS
  <2> QED BY <1>1, <2>1, <2>2, <2>3
<1>5. ASSUME NEW n \in 1..Len(wire), ReceiveBytes(n) PROVE SInv'
  <2>1. PICK b : b = Burst(SubSeq(wire, 1, n))
    OBVIOUS
  <2>2. b = EndOf(Now, wire, n)
    BY <2>1 DEF Burst, Now, EndOf, ReadTo
  <2>3. /\ driver' = b.driver /\ edit' = b.edit /\ screen' = b.screen /\ echo' = b.echo
        /\ wire' = SubSeq(wire, n + 1, Len(wire))
    BY <1>5, <2>1 DEF ReceiveBytes
  <2>4. PICK v : v = SubSeq(wire, n + 1, Len(wire))
    OBVIOUS
  <2>5. v \in Seq(Nat) /\ Agreed(b, v, 0)
    BY ONLY <1>0, n \in 1..Len(wire), <2>2, <2>4, AgreedBurst
  <2>6. PICK q : q = Now'
    OBVIOUS
  <2>7. q = [driver |-> b.driver, edit |-> b.edit, screen |-> b.screen, echo |-> b.echo,
             esc |-> "code", code |-> 0]
    BY <2>3, <2>6 DEF Now
  <2>8. Sound(b) /\ b \in Reading /\ (b.echo = TRUE \/ Pending(b.driver.state, v, 0))
    BY <2>5 DEF Agreed, Sound
  <2>9. /\ q \in Reading /\ q.edit = b.edit /\ q.screen = b.screen /\ q.echo = b.echo
        /\ q.driver = b.driver
    BY <2>7, <2>8 DEF Reading
  <2>10. Agreed(q, v, 0)
    BY <2>8, <2>9, SoundStays DEF Agreed
  <2>11. wire' = v
    BY <2>3, <2>4
  <2> QED BY <2>5, <2>6, <2>10, <2>11 DEF SInv, Agreed, Pending
<1>6. ASSUME UNCHANGED terminalVars PROVE SInv'
  BY <1>0, <1>6 DEF terminalVars, SInv, Now, Agreed, Pending
<1> QED BY <1>2, <1>3, <1>4, <1>5, <1>6 DEF TerminalNext

\* The echo of telnet_receiveWithEcho keeps the terminal of the client showing the
\* line and the position in it, after bursts of any bytes, misread or not.
THEOREM TelnetScreen == TerminalSpec => []ScreenShowsLine
<1>1. SInv => ScreenShowsLine
  <2> SUFFICES ASSUME SInv PROVE ScreenShowsLine
    OBVIOUS
  <2>2. Now.edit = edit /\ Now.screen = screen
    BY DEF Now
  <2>3. Sound(Now)
    BY DEF SInv, Agreed
  <2>4. PICK l : l = edit.line
    OBVIOUS
  <2>5. PICK row : row = screen.row
    OBVIOUS
  <2>6. PICK n : n = Len(l)
    OBVIOUS
  <2>7. /\ l \in Seq(Char) /\ row \in Seq(Char) /\ n \in Nat /\ Len(row) \in Nat /\ n <= Len(row)
        /\ screen.cursor = edit.pos /\ \A x \in 1..Len(row) : row[x] = Want(l, x)
    BY <2>2, <2>3, <2>4, <2>5, <2>6, SoundParts
  <2>8. \A x \in n + 1..Len(row) : row[x] = 32
    <3>1. ASSUME NEW x \in n + 1..Len(row) PROVE row[x] = 32
      <4>1. x \in 1..Len(row) /\ ~(x <= n)
        BY <2>7
      <4> QED BY <2>6, <2>7, <4>1 DEF Want
    <3> QED BY <3>1
  <2>9. PICK one : one = 1
    OBVIOUS
  <2>10. PICK part : part = SubSeq(row, one, n)
    OBVIOUS
  <2>11. part = l
    <3>1. \A x \in 1..Len(row) : row[x] \in Char
      BY <2>7, ElementOfSeq
    <3>2. one \in Int /\ n \in Int /\ \A x \in one..n : row[x] \in Char
      BY <2>7, <2>9, <3>1
    <3>3. /\ part \in Seq(Char) /\ Len(part) = IF one <= n THEN n - one + 1 ELSE 0
          /\ \A x \in 1..(n - one + 1) : part[x] = row[one + x - 1]
      BY ONLY <2>10, <3>2, SubSeqProperties
    <3>4. n - one + 1 = n /\ (~(one <= n) => n = 0) /\ \A x \in 1..n : one + x - 1 = x
      BY <2>7, <2>9
    <3>5. Len(part) = n /\ \A x \in 1..n : part[x] = row[x]
      BY <3>3, <3>4
    <3>6. \A x \in 1..n : row[x] = l[x]
      <4>1. \A x \in 1..n : x \in 1..Len(row) /\ x <= Len(l)
        BY <2>6, <2>7
      <4> QED BY <2>7, <4>1 DEF Want
    <3>7. DOMAIN part = 1..n /\ DOMAIN l = 1..n
      BY <2>6, <2>7, <3>3, <3>5, LenProperties
    <3>8. part = [x \in 1..n |-> part[x]] /\ l = [x \in 1..n |-> l[x]]
      BY <2>7, <3>3, <3>7
    <3> QED BY <3>5, <3>6, <3>8
  <2> QED BY <2>4, <2>5, <2>6, <2>7, <2>8, <2>9, <2>10, <2>11 DEF ScreenShowsLine
<1>2. TerminalInit => SInv
  BY ScreenStart
<1>3. SInv /\ [TerminalNext]_terminalVars => SInv'
  BY ScreenStep
<1> QED BY <1>1, <1>2, <1>3, PTL DEF TerminalSpec
=============================================================================
