-------------------------- MODULE SocketPoolProofs --------------------------
(***************************************************************************)
(* Proofs about SocketPool, for any set of descriptors, any calls and any  *)
(* partial or failing writes, as long as receive handlers close no socket  *)
(* but their own at once: socketpool_pool never follows a pointer to a     *)
(* freed socket, nothing is lost in the queues, and the pool implements    *)
(* its streams (ByteStreams).                                              *)
(***************************************************************************)
EXTENDS SocketPool, Integers, SequenceTheorems, ListLemmas, TLAPS

-----------------------------------------------------------------------------
(* The types.                                                              *)

Socket == [fd : Fd, sendq : Seq(Seq(1..MaxBytes)), closing : BOOLEAN, gone : BOOLEAN]

Pool == [list : Seq(Socket), freed : SUBSET Fd,
         sent : [Fd -> 0..MaxBytes], wire : [Fd -> Seq(1..MaxBytes)]]

Phases == {"select", "recv", "send", "timers", "stopped", "crashed", "killed"}

LoopState == [phase : Phases, cur : Fd \cup {0}, next : Fd \cup {0}, has : BOOLEAN,
              read : SUBSET Fd, write : SUBSET Fd, calls : 0..MaxCalls,
              draining : BOOLEAN]

\* Each socket of the list has a descriptor of its own.
Distinct(list) == \A i, j \in DOMAIN list : list[i].fd = list[j].fd => i = j

Good(p) == p \in Pool /\ Distinct(p.list)

-----------------------------------------------------------------------------
(* Lists of sockets.                                                       *)

\* Induction over the natural numbers, for a set.
LEMMA SetInduction ==
    ASSUME NEW S \in SUBSET Nat, 0 \in S, \A n \in S : n + 1 \in S
    PROVE  S = Nat
<1>1. SUFFICES ASSUME Nat \ S # {} PROVE FALSE
  OBVIOUS
<1>2. PICK n \in Nat \ S : \A m \in Nat \ S : n <= m
  BY <1>1, LeastPosition
<1>3. n # 0 /\ n - 1 \in Nat /\ n - 1 \notin Nat \ S
  BY <1>2
<1> QED BY <1>2, <1>3

\* A function on the positions up to n is a list.
LEMMA FunctionIsList ==
    ASSUME NEW S, NEW n \in Nat, NEW f \in [1..n -> S]
    PROVE  f \in Seq(S)
OBVIOUS

\* What Talking does to the beginning of a list that is i sockets long.
Kept(list, f, n) ==
    f = [i \in 0..n |-> IF i = 0 THEN <<>>
                        ELSE IF list[i].sendq = <<>> THEN f[i - 1]
                        ELSE Append(f[i - 1], list[i])]

\* The recursion of Talking defines a function.
LEMMA KeptExists ==
    ASSUME NEW list, NEW N \in Nat
    PROVE  \E f : Kept(list, f, N)
<1> DEFINE S == {n \in Nat : \E f : Kept(list, f, n)}
<1>1. 0 \in S
  <2>1. Kept(list, [i \in 0..0 |-> <<>>], 0)
    BY DEF Kept
  <2> QED BY <2>1
<1>2. ASSUME NEW n \in S PROVE n + 1 \in S
  <2>1. PICK f : Kept(list, f, n)
    OBVIOUS
  <2> DEFINE last == IF list[n + 1].sendq = <<>> THEN f[n] ELSE Append(f[n], list[n + 1])
             g == [i \in 0..n + 1 |-> IF i = n + 1 THEN last ELSE f[i]]
  <2>2. n \in Nat /\ n + 1 # 0 /\ n + 1 - 1 = n /\ n \in 0..n + 1
    OBVIOUS
  <2>3. \A i \in 0..n : f[i] = IF i = 0 THEN <<>>
                               ELSE IF list[i].sendq = <<>> THEN f[i - 1]
                               ELSE Append(f[i - 1], list[i])
    BY <2>1 DEF Kept
  <2> HIDE DEF last
  <2>4. \A i \in 0..n : g[i] = f[i]
    BY <2>2
  <2>5. g[n + 1] = last
    BY <2>2
  <2>6. \A i \in 0..n + 1 : i = n + 1 \/ (i \in 0..n /\ (i = 0 \/ i - 1 \in 0..n))
    BY <2>2
  <2>7. ASSUME NEW i \in 0..n + 1
        PROVE  g[i] = IF i = 0 THEN <<>>
                      ELSE IF list[i].sendq = <<>> THEN g[i - 1]
                      ELSE Append(g[i - 1], list[i])
    <3>1. CASE i = n + 1
      BY <2>2, <2>4, <2>5, <3>1 DEF last
    <3>2. CASE i = 0
      BY <2>2, <2>3, <2>4, <3>2
    <3>3. CASE i \in 0..n /\ i - 1 \in 0..n /\ i # 0
      <4> HIDE DEF g
      <4> QED BY <2>3, <2>4, <3>3
    <3> QED BY <2>6, <3>1, <3>2, <3>3
  <2>8. Kept(list, g, n + 1)
    <3> DEFINE h == [i \in 0..n + 1 |-> IF i = 0 THEN <<>>
                        ELSE IF list[i].sendq = <<>> THEN g[i - 1]
                        ELSE Append(g[i - 1], list[i])]
    <3>1. g = h
      <4>1. \A i \in 0..n + 1 : g[i] = h[i]
        <5> HIDE DEF g
        <5> QED BY <2>7
      <4> QED BY <4>1
    <3> HIDE DEF g
    <3> QED BY <3>1 DEF Kept
  <2> QED BY <2>2, <2>8
<1> HIDE DEF S
<1>3. S = Nat
  <2>1. S \subseteq Nat
    BY DEF S
  <2> QED BY <1>1, <1>2, <2>1, SetInduction
<1> QED BY <1>3 DEF S

\* Talking is what that function gives for the whole list.
LEMMA TalkingKept ==
    ASSUME NEW list, Len(list) \in Nat
    PROVE  \E f : Kept(list, f, Len(list)) /\ Talking(list) = f[Len(list)]
<1> DEFINE f == CHOOSE f : Kept(list, f, Len(list))
<1>1. Kept(list, f, Len(list))
  BY KeptExists
<1>2. Talking(list) = f[Len(list)]
  BY Zenon DEF Talking, Kept
<1> QED BY <1>1, <1>2

\* What is left of a list are its sockets that have something to say.
LEMMA TalkingProperties ==
    ASSUME NEW list \in Seq(Socket), Distinct(list)
    PROVE  /\ Talking(list) \in Seq(Socket)
           /\ Distinct(Talking(list))
           /\ \A s : (\E i \in DOMAIN Talking(list) : s = Talking(list)[i])
                <=> (\E i \in DOMAIN list : s = list[i] /\ s.sendq # <<>>)
<1>0. Len(list) \in Nat /\ DOMAIN list = 1..Len(list)
  BY LenProperties
<1>1. PICK f : Kept(list, f, Len(list)) /\ Talking(list) = f[Len(list)]
  BY <1>0, TalkingKept
<1> DEFINE Inv(n) == /\ f[n] \in Seq(Socket)
                     /\ Distinct(f[n])
                     /\ \A s : (\E i \in DOMAIN f[n] : s = f[n][i])
                          <=> (\E i \in 1..n : s = list[i] /\ s.sendq # <<>>)
           S == {n \in Nat : n <= Len(list) => Inv(n)}
<1>2. \A i \in 0..Len(list) : f[i] = IF i = 0 THEN <<>>
                                     ELSE IF list[i].sendq = <<>> THEN f[i - 1]
                                     ELSE Append(f[i - 1], list[i])
  BY <1>1 DEF Kept
<1>3. Inv(0)
  <2>1. f[0] = <<>>
    BY <1>0, <1>2
  <2>2. <<>> \in Seq(Socket) /\ DOMAIN <<>> = {}
    OBVIOUS
  <2> QED BY <2>1, <2>2 DEF Distinct
<1>4. ASSUME NEW n \in Nat, n + 1 <= Len(list), Inv(n)
      PROVE  Inv(n + 1)
  <2> DEFINE s == list[n + 1]
  <2>1. n + 1 \in 1..Len(list) /\ n + 1 # 0 /\ n + 1 - 1 = n /\ n + 1 \in 0..Len(list)
    BY <1>0, <1>4
  <2>2. s \in Socket
    BY <1>0, <2>1, ElementOfSeq
  <2>3. f[n + 1] = IF s.sendq = <<>> THEN f[n] ELSE Append(f[n], s)
    BY <1>2, <2>1
  <2>4. \A i \in 1..n + 1 : i \in 1..n \/ i = n + 1
    BY <2>1
  <2>40. \A i \in 1..n : i \in 1..n + 1 /\ i # n + 1
    BY <2>1
  <2>41. n + 1 \in 1..n + 1
    BY <2>1
  <2> HIDE DEF s
  <2>5. CASE s.sendq = <<>>
    <3>1. f[n + 1] = f[n]
      BY <2>3, <2>5
    <3>2. ASSUME NEW t
          PROVE  (\E i \in 1..n + 1 : t = list[i] /\ t.sendq # <<>>)
                   <=> (\E i \in 1..n : t = list[i] /\ t.sendq # <<>>)
      BY <2>4, <2>40, <2>5 DEF s
    <3> QED BY <1>4, <3>1, <3>2
  <2>6. CASE s.sendq # <<>>
    <3>1. f[n + 1] = Append(f[n], s)
      BY <2>3, <2>6
    <3> DEFINE g == f[n]
               h == f[n + 1]
    <3>20. /\ g \in Seq(Socket) /\ Distinct(g)
           /\ \A t : (\E i \in DOMAIN g : t = g[i])
                   <=> (\E i \in 1..n : t = list[i] /\ t.sendq # <<>>)
           /\ h = Append(g, s)
      BY <1>4, <3>1
    <3> HIDE DEF g, h
    <3>2. Len(g) \in Nat /\ DOMAIN g = 1..Len(g)
      BY <3>20, LenProperties
    <3>3. /\ h \in Seq(Socket) /\ Len(h) = Len(g) + 1
          /\ \A i \in 1..Len(g) : h[i] = g[i]
          /\ h[Len(g) + 1] = s
      BY <3>20, <2>2, AppendProperties
    <3>4. DOMAIN h = 1..Len(g) + 1
      BY <3>3, LenProperties
    <3>5. \A i \in 1..Len(g) + 1 : i \in 1..Len(g) \/ i = Len(g) + 1
      BY <3>2
    <3>6. \A i \in 1..Len(g) : g[i].fd # s.fd
      <4> SUFFICES ASSUME NEW i \in 1..Len(g), g[i].fd = s.fd PROVE FALSE
        OBVIOUS
      <4>1. PICK j \in 1..n : g[i] = list[j]
        BY <3>2, <3>20
      <4>2. j \in DOMAIN list /\ n + 1 \in DOMAIN list /\ j # n + 1
        BY <1>0, <2>1
      <4> QED BY <4>1, <4>2 DEF Distinct, s
    <3>7. Distinct(h)
      BY <3>20, <3>2, <3>3, <3>4, <3>5, <3>6 DEF Distinct
    <3>8. ASSUME NEW t
          PROVE  (\E i \in DOMAIN h : t = h[i])
                   <=> (\E i \in DOMAIN g : t = g[i]) \/ t = s
      <4>1. \A i \in 1..Len(g) : i \in 1..Len(g) + 1
        BY <3>2
      <4>2. Len(g) + 1 \in 1..Len(g) + 1
        BY <3>2
      <4> QED BY <3>2, <3>3, <3>4, <3>5, <4>1, <4>2
    <3>9. ASSUME NEW t
          PROVE  (\E i \in 1..n + 1 : t = list[i] /\ t.sendq # <<>>)
                   <=> (\E i \in 1..n : t = list[i] /\ t.sendq # <<>>) \/ t = s
      BY <2>4, <2>40, <2>41, <2>6 DEF s
    <3>10. ASSUME NEW t
           PROVE  (\E i \in DOMAIN h : t = h[i])
                    <=> (\E i \in 1..n + 1 : t = list[i] /\ t.sendq # <<>>)
      <4>1. (\E i \in DOMAIN g : t = g[i])
              <=> (\E i \in 1..n : t = list[i] /\ t.sendq # <<>>)
        BY <3>20
      <4> QED BY <3>8, <3>9, <4>1
    <3> QED BY <3>3, <3>7, <3>10 DEF h
  <2> QED BY <2>5, <2>6
<1> HIDE DEF Inv
<1>5. S = Nat
  <2>1. 0 \in S
    BY <1>3
  <2>2. ASSUME NEW n \in S PROVE n + 1 \in S
    <3>1. n + 1 <= Len(list) => n <= Len(list)
      BY <1>0
    <3> QED BY <1>4, <3>1
  <2>3. S \subseteq Nat
    OBVIOUS
  <2> HIDE DEF S
  <2> QED BY <2>1, <2>2, <2>3, SetInduction
<1>6. Inv(Len(list))
  BY <1>0, <1>5
<1>7. Talking(list) = f[Len(list)]
  BY <1>1
<1>8. /\ Talking(list) \in Seq(Socket)
      /\ Distinct(Talking(list))
      /\ \A s : (\E i \in DOMAIN Talking(list) : s = Talking(list)[i])
           <=> (\E i \in 1..Len(list) : s = list[i] /\ s.sendq # <<>>)
  <2> DEFINE g == f[Len(list)]
  <2>1. /\ g \in Seq(Socket)
        /\ Distinct(g)
        /\ \A s : (\E i \in DOMAIN g : s = g[i])
             <=> (\E i \in 1..Len(list) : s = list[i] /\ s.sendq # <<>>)
    BY Zenon, <1>6 DEF Inv
  <2>2. Talking(list) = g
    BY <1>7
  <2> HIDE DEF g
  <2> QED BY <2>1, <2>2
<1> QED BY <1>0, <1>8

-----------------------------------------------------------------------------
(* The operations of the pool: what each does to its sockets, to those     *)
(* with a queue, and to those freed.                                       *)

\* What a socket opened by a closed handler may be.
NewSocket(p) == (Fd \ Fds(p)) \cup {0}

\* A socket of the pool is found, at its own position.
LEMMA IndexOf ==
    ASSUME NEW p, Good(p), NEW fd \in Fds(p)
    PROVE  /\ Index(p, fd) \in 1..Len(p.list)
           /\ Len(p.list) \in Nat /\ DOMAIN p.list = 1..Len(p.list)
           /\ p.list \in Seq(Socket)
           /\ p.list[Index(p, fd)] \in Socket
           /\ p.list[Index(p, fd)].fd = fd
           /\ fd \in Fd
           /\ \A i \in DOMAIN p.list : p.list[i].fd = fd => i = Index(p, fd)
<1>1. p.list \in Seq(Socket)
  BY DEF Good, Pool
<1>2. Len(p.list) \in Nat /\ DOMAIN p.list = 1..Len(p.list)
  BY <1>1, LenProperties
<1>3. \E i \in DOMAIN p.list : p.list[i].fd = fd
  BY DEF Fds
<1>4. Index(p, fd) \in DOMAIN p.list /\ p.list[Index(p, fd)].fd = fd
  BY <1>3, Zenon DEF Index
<1>5. p.list[Index(p, fd)] \in Socket
  BY <1>1, <1>2, <1>4, ElementOfSeq
<1>6. \A i \in DOMAIN p.list : p.list[i].fd = fd => i = Index(p, fd)
  BY <1>4 DEF Good, Distinct
<1>7. fd \in Fd
  BY <1>4, <1>5 DEF Socket
<1> QED BY <1>1, <1>2, <1>4, <1>5, <1>6, <1>7

\* Which sockets have a queue, said of the positions of the list.
LEMMA QueuedOf ==
    ASSUME NEW p, Good(p)
    PROVE  /\ Queued(p) \subseteq Fds(p)
           /\ \A i \in DOMAIN p.list :
                p.list[i].fd \in Queued(p) <=> p.list[i].sendq # <<>>
<1>1. Queued(p) \subseteq Fds(p)
  BY DEF Queued
<1>2. ASSUME NEW i \in DOMAIN p.list
      PROVE  p.list[i].fd \in Queued(p) <=> p.list[i].sendq # <<>>
  <2>1. p.list[i].fd \in Fds(p)
    BY DEF Fds
  <2>2. i = Index(p, p.list[i].fd)
    BY <2>1, IndexOf
  <2> QED BY <2>1, <2>2 DEF Queued, Sendq
<1> QED BY <1>1, <1>2

\* A socket of the list gets other fields.
LEMMA ChangeSocket ==
    ASSUME NEW p, Good(p), NEW fd \in Fds(p), NEW q \in Pool,
           NEW s \in Socket, s.fd = fd,
           q.list = [p.list EXCEPT ![Index(p, fd)] = s]
    PROVE  /\ Good(q) /\ Fds(q) = Fds(p)
           /\ Queued(q) = IF s.sendq = <<>> THEN Queued(p) \ {fd} ELSE Queued(p) \cup {fd}
<1> DEFINE k == Index(p, fd)
<1>1. /\ k \in DOMAIN p.list /\ p.list[k].fd = fd
      /\ \A i \in DOMAIN p.list : p.list[i].fd = fd => i = k
      /\ p.list \in Seq(Socket)
  BY IndexOf
<1>2. /\ DOMAIN q.list = DOMAIN p.list /\ q.list[k] = s
      /\ \A i \in DOMAIN p.list : i # k => q.list[i] = p.list[i]
  BY <1>1
<1> HIDE DEF k
<1>3. \A i \in DOMAIN p.list : q.list[i].fd = p.list[i].fd
  BY <1>1, <1>2
<1>4. Good(q)
  BY <1>2, <1>3 DEF Good, Distinct
<1>5. Fds(q) = Fds(p)
  BY <1>2, <1>3 DEF Fds
<1>6. ASSUME NEW i \in DOMAIN p.list
      PROVE  p.list[i].fd \in Queued(q) <=>
               IF p.list[i].fd = fd THEN s.sendq # <<>> ELSE p.list[i].fd \in Queued(p)
  BY <1>1, <1>2, <1>3, <1>4, QueuedOf
<1>7. ASSUME NEW x \in Fds(p)
      PROVE  x \in Queued(q) <=> IF x = fd THEN s.sendq # <<>> ELSE x \in Queued(p)
  <2>1. PICK i \in DOMAIN p.list : x = p.list[i].fd
    BY DEF Fds
  <2> QED BY <1>6, <2>1
<1>8. Queued(q) \subseteq Fds(p) /\ Queued(p) \subseteq Fds(p)
  BY <1>4, <1>5, QueuedOf
<1> QED BY <1>4, <1>5, <1>7, <1>8

\* socketpool_add keeps the list distinct, and puts the socket on it.
LEMMA Added ==
    ASSUME NEW p, Good(p), NEW fd \in Fd, NEW q, q = AddSocket(p, fd)
    PROVE  /\ Good(q) /\ Fds(q) = Fds(p) \cup {fd}
           /\ Queued(q) = Queued(p) /\ q.freed = p.freed
           /\ fd \notin Fds(p) => q.sent[fd] = 0
<1>1. CASE fd \in Fds(p)
  BY <1>1 DEF AddSocket
<1>2. CASE fd \notin Fds(p)
  <2> DEFINE s == [fd |-> fd, sendq |-> <<>>, closing |-> FALSE, gone |-> FALSE]
  <2>1. /\ p.list \in Seq(Socket) /\ Len(p.list) \in Nat
        /\ DOMAIN p.list = 1..Len(p.list)
    BY LenProperties DEF Good, Pool
  <2>2. s \in Socket
    BY DEF Socket
  <2>3. /\ q.list = Append(p.list, s) /\ q.freed = p.freed /\ q.sent[fd] = 0
        /\ q.sent \in [Fd -> 0..MaxBytes] /\ q.wire \in [Fd -> Seq(1..MaxBytes)]
        /\ q = [list |-> q.list, freed |-> q.freed, sent |-> q.sent, wire |-> q.wire]
    <3> DEFINE sent == [p.sent EXCEPT ![fd] = 0]
               wire == [p.wire EXCEPT ![fd] = <<>>]
    <3>1. q = [p EXCEPT !.list = Append(p.list, s), !.sent = sent, !.wire = wire]
      BY <1>2 DEF AddSocket
    <3>2. sent \in [Fd -> 0..MaxBytes] /\ sent[fd] = 0
      BY PoolAssumption DEF Good, Pool, PoolAssumption
    <3>3. wire \in [Fd -> Seq(1..MaxBytes)]
      <4>1. p.wire \in [Fd -> Seq(1..MaxBytes)] /\ <<>> \in Seq(1..MaxBytes)
        BY DEF Good, Pool
      <4> QED BY <4>1
    <3>4. p = [list |-> p.list, freed |-> p.freed, sent |-> p.sent, wire |-> p.wire]
      BY DEF Good, Pool
    <3> HIDE DEF sent, wire, s
    <3>5. q = [list |-> Append(p.list, s), freed |-> p.freed, sent |-> sent, wire |-> wire]
      BY <3>1, <3>4
    <3> QED BY <3>2, <3>3, <3>5
  <2>4. /\ q.list \in Seq(Socket) /\ Len(q.list) = Len(p.list) + 1
        /\ \A i \in 1..Len(p.list) : q.list[i] = p.list[i]
        /\ q.list[Len(p.list) + 1] = s
    BY <2>1, <2>2, <2>3, AppendProperties
  <2>5. DOMAIN q.list = 1..Len(p.list) + 1
    BY <2>4, LenProperties
  <2>6. \A i \in 1..Len(p.list) + 1 : i \in 1..Len(p.list) \/ i = Len(p.list) + 1
    BY <2>1
  <2>60. /\ \A i \in 1..Len(p.list) : i \in 1..Len(p.list) + 1
         /\ Len(p.list) + 1 \in 1..Len(p.list) + 1
    BY <2>1
  <2>7. q \in Pool
    <3>1. q.freed \in SUBSET Fd
      BY <2>3 DEF Good, Pool
    <3> QED BY <2>3, <2>4, <3>1 DEF Pool
  <2>70. s.fd = fd /\ s.sendq = <<>>
    OBVIOUS
  <2> HIDE DEF s
  <2>8. \A i \in 1..Len(p.list) : p.list[i].fd # fd
    BY <1>2, <2>1 DEF Fds
  <2>9. Good(q)
    <3> SUFFICES ASSUME NEW i \in DOMAIN q.list, NEW j \in DOMAIN q.list,
                        q.list[i].fd = q.list[j].fd
                 PROVE  i = j
      BY <2>7 DEF Good, Distinct
    <3>1. CASE i \in 1..Len(p.list) /\ j \in 1..Len(p.list)
      BY <2>1, <2>4, <3>1 DEF Good, Distinct
    <3>2. CASE i = Len(p.list) + 1 /\ j \in 1..Len(p.list)
      BY <2>4, <2>70, <2>8, <3>2
    <3>3. CASE i \in 1..Len(p.list) /\ j = Len(p.list) + 1
      BY <2>4, <2>70, <2>8, <3>3
    <3> QED BY <2>5, <2>6, <3>1, <3>2, <3>3
  <2>10. Fds(q) = Fds(p) \cup {fd}
    BY <2>1, <2>4, <2>5, <2>6, <2>60, <2>70 DEF Fds
  <2>11. fd \notin Queued(q)
    BY <2>4, <2>5, <2>60, <2>70, <2>9, QueuedOf
  <2>12. ASSUME NEW i \in 1..Len(p.list)
         PROVE  p.list[i].fd \in Queued(q) <=> p.list[i].fd \in Queued(p)
    BY <2>1, <2>4, <2>5, <2>60, <2>9, QueuedOf
  <2>13. \A x \in Fds(p) : x \in Queued(q) <=> x \in Queued(p)
    BY <2>1, <2>12 DEF Fds
  <2>14. Queued(q) \subseteq Fds(q) /\ Queued(p) \subseteq Fds(p)
    BY <2>9, QueuedOf
  <2>15. Queued(q) = Queued(p)
    BY <1>2, <2>10, <2>11, <2>13, <2>14
  <2> QED BY <2>3, <2>9, <2>10, <2>15
<1> QED BY <1>1, <1>2

\* socketpool_remove takes one socket off the list, and frees it.
LEMMA Removed ==
    ASSUME NEW p, Good(p), NEW fd \in Fds(p), NEW q, q = RemoveSocket(p, fd)
    PROVE  /\ Good(q) /\ Fds(q) = Fds(p) \ {fd}
           /\ Queued(q) = Queued(p) \ {fd} /\ q.freed = p.freed \cup {fd}
<1>1. PICK k \in 1..Len(p.list) :
      /\ k = Index(p, fd) /\ p.list[k].fd = fd /\ fd \in Fd
      /\ \A i \in DOMAIN p.list : p.list[i].fd = fd => i = k
      /\ p.list \in Seq(Socket) /\ Len(p.list) \in Nat
      /\ DOMAIN p.list = 1..Len(p.list)
  BY IndexOf
<1> DEFINE from(i) == IF i < k THEN i ELSE i + 1
<1>2. /\ q.list = RemoveAt(p.list, k) /\ q.freed = p.freed \cup {fd}
      /\ q.sent = p.sent /\ q.wire = p.wire
      /\ q = [list |-> q.list, freed |-> q.freed, sent |-> q.sent, wire |-> q.wire]
  BY <1>1 DEF RemoveSocket, Good, Pool
<1>3. /\ q.list \in Seq(Socket) /\ Len(q.list) = Len(p.list) - 1
      /\ \A i \in 1..Len(p.list) - 1 : q.list[i] = p.list[from(i)]
  BY <1>1, <1>2, RemoveAtPositions
<1>4. DOMAIN q.list = 1..Len(p.list) - 1
  BY <1>3, LenProperties
<1>5. \A i \in 1..Len(p.list) - 1 : from(i) \in 1..Len(p.list) /\ from(i) # k
  BY <1>1
<1>6. \A i, j \in 1..Len(p.list) - 1 : from(i) = from(j) => i = j
  BY <1>1
<1>7. \A m \in 1..Len(p.list) : m # k => \E i \in 1..Len(p.list) - 1 : from(i) = m
  <2> SUFFICES ASSUME NEW m \in 1..Len(p.list), m # k
               PROVE  \E i \in 1..Len(p.list) - 1 : from(i) = m
    OBVIOUS
  <2>1. CASE m < k
    BY <1>1, <2>1
  <2>2. CASE ~(m < k)
    <3>1. m - 1 \in 1..Len(p.list) - 1 /\ from(m - 1) = m
      BY <1>1, <2>2
    <3> QED BY <3>1
  <2> QED BY <2>1, <2>2
<1> HIDE DEF from
<1>8. q \in Pool
  BY <1>1, <1>2, <1>3 DEF Good, Pool
<1>9. Good(q)
  <2> SUFFICES ASSUME NEW i \in DOMAIN q.list, NEW j \in DOMAIN q.list,
                      q.list[i].fd = q.list[j].fd
               PROVE  i = j
    BY <1>8 DEF Good, Distinct
  <2>1. from(i) = from(j)
    <3>1. p.list[from(i)].fd = p.list[from(j)].fd
      BY <1>3, <1>4
    <3>2. from(i) \in DOMAIN p.list /\ from(j) \in DOMAIN p.list
      BY <1>1, <1>4, <1>5
    <3> QED BY <3>1, <3>2 DEF Good, Distinct
  <2> QED BY <1>4, <1>6, <2>1
<1>10. Fds(q) = Fds(p) \ {fd}
  <2>1. ASSUME NEW x \in Fds(q) PROVE x \in Fds(p) \ {fd}
    <3>1. PICK i \in DOMAIN q.list : x = q.list[i].fd
      BY DEF Fds
    <3>2. x = p.list[from(i)].fd /\ from(i) \in DOMAIN p.list /\ from(i) # k
      BY <1>1, <1>3, <1>4, <1>5, <3>1
    <3> QED BY <1>1, <3>2 DEF Fds
  <2>2. ASSUME NEW x \in Fds(p), x # fd PROVE x \in Fds(q)
    <3>1. PICK m \in DOMAIN p.list : x = p.list[m].fd
      BY DEF Fds
    <3>2. PICK i \in 1..Len(p.list) - 1 : from(i) = m
      BY <1>1, <1>7, <2>2, <3>1
    <3>3. q.list[i].fd = x
      BY <1>3, <3>1, <3>2
    <3> QED BY <1>4, <3>3 DEF Fds
  <2> QED BY <2>1, <2>2
<1>11. ASSUME NEW x \in Fds(q) PROVE x \in Queued(q) <=> x \in Queued(p)
  <2>1. PICK i \in DOMAIN q.list : x = q.list[i].fd
    BY DEF Fds
  <2>2. q.list[i] = p.list[from(i)] /\ from(i) \in DOMAIN p.list
    BY <1>1, <1>3, <1>4, <1>5
  <2>3. x \in Queued(q) <=> q.list[i].sendq # <<>>
    BY <1>9, <2>1, QueuedOf
  <2>4. x \in Queued(p) <=> q.list[i].sendq # <<>>
    BY <2>1, <2>2, QueuedOf
  <2> QED BY <2>3, <2>4
<1>12. Queued(q) \subseteq Fds(q) /\ Queued(p) \subseteq Fds(p)
  BY <1>9, QueuedOf
<1>13. Queued(q) = Queued(p) \ {fd}
  BY <1>10, <1>11, <1>12
<1> QED BY <1>2, <1>9, <1>10, <1>13

\* Only the list says which sockets the pool has, and which have a queue.
LEMMA SameList ==
    ASSUME NEW p, Good(p), NEW q \in Pool, q.list = p.list
    PROVE  Good(q) /\ Fds(q) = Fds(p) /\ Queued(q) = Queued(p)
<1>1. Good(q) /\ Fds(q) = Fds(p)
  BY DEF Good, Fds
<1>2. \A fd : Sendq(q, fd) = Sendq(p, fd)
  BY DEF Sendq, Index
<1>3. Queued(q) = Queued(p)
  BY <1>1, <1>2 DEF Queued
<1> QED BY <1>1, <1>3

\* What was freed is forgotten.
LEMMA Forgotten ==
    ASSUME NEW p, Good(p), NEW q, q = [p EXCEPT !.freed = {}]
    PROVE  Good(q) /\ Fds(q) = Fds(p) /\ Queued(q) = Queued(p) /\ q.freed = {}
<1>1. q \in Pool /\ q.list = p.list /\ q.freed = {}
  BY DEF Good, Pool
<1> QED BY <1>1, SameList

\* socketpool_send leaves the socket with a queue.
LEMMA Sent ==
    ASSUME NEW p, Good(p), NEW fd \in Fds(p), NEW n \in Nat, p.sent[fd] + n <= MaxBytes,
           NEW q, q = SendData(p, fd, n)
    PROVE  /\ Good(q) /\ Fds(q) = Fds(p)
           /\ Queued(q) = Queued(p) \cup {fd} /\ q.freed = p.freed
<1> DEFINE node == [k \in 1..n |-> p.sent[fd] + k]
           sent == [p.sent EXCEPT ![fd] = @ + n]
<1>1. PICK k \in 1..Len(p.list) :
        /\ k = Index(p, fd) /\ p.list[k].fd = fd /\ fd \in Fd
        /\ p.list \in Seq(Socket) /\ p.list[k] \in Socket
        /\ DOMAIN p.list = 1..Len(p.list)
  BY IndexOf
<1>2. p.sent \in [Fd -> 0..MaxBytes] /\ MaxBytes \in Nat
  BY PoolAssumption DEF Good, Pool, PoolAssumption
<1>3. p.sent[fd] \in Nat
  BY <1>1, <1>2
<1>4. node \in Seq(1..MaxBytes)
  <2>1. \A i \in 1..n : p.sent[fd] + i \in 1..MaxBytes
    BY <1>2, <1>3
  <2>2. node \in [1..n -> 1..MaxBytes]
    BY <2>1
  <2> HIDE DEF node
  <2> QED BY <2>2, FunctionIsList
<1>5. sent \in [Fd -> 0..MaxBytes]
  BY <1>1, <1>2, <1>3
<1> DEFINE s == [p.list[k] EXCEPT !.sendq = Append(@, node)]
           list == [p.list EXCEPT ![k] = s]
<1>6. q = [p EXCEPT !.list = list, !.sent = sent]
  BY <1>1 DEF SendData
<1> HIDE DEF node, sent
<1>7. s \in Socket /\ s.fd = fd /\ s.sendq # <<>>
  <2>1. /\ p.list[k].sendq \in Seq(Seq(1..MaxBytes))
        /\ Append(p.list[k].sendq, node) \in Seq(Seq(1..MaxBytes))
        /\ Append(p.list[k].sendq, node) # <<>>
    <3>1. p.list[k].sendq \in Seq(Seq(1..MaxBytes))
      BY <1>1 DEF Socket
    <3> QED BY <1>4, <3>1, AppendProperties
  <2> QED BY <1>1, <2>1 DEF Socket
<1> HIDE DEF s
<1>8. list \in Seq(Socket)
  BY <1>1, <1>7, ExceptSeq
<1>9. q \in Pool /\ q.list = list /\ q.freed = p.freed
  <2> HIDE DEF list
  <2> QED BY <1>5, <1>6, <1>8 DEF Good, Pool
<1> QED BY <1>1, <1>7, <1>9, ChangeSocket

\* A closed handler opens at most the socket new.
LEMMA Handled ==
    ASSUME NEW p, Good(p), NEW new \in NewSocket(p), NEW q, q = ClosedHandler(p, new)
    PROVE  /\ Good(q) /\ Fds(q) = Fds(p) \cup ({new} \ {0})
           /\ Queued(q) = Queued(p) \cup ({new} \ {0}) /\ q.freed = p.freed
<1>0. 0 \notin Fd /\ 1 <= MaxBytes
  BY PoolAssumption DEF PoolAssumption
<1>1. CASE new = 0
  BY <1>1 DEF ClosedHandler
<1>2. CASE new # 0
  <2>1. new \in Fd /\ new \notin Fds(p)
    BY <1>2 DEF NewSocket
  <2>2. PICK r : r = AddSocket(p, new)
    OBVIOUS
  <2>3. /\ Good(r) /\ Fds(r) = Fds(p) \cup {new} /\ Queued(r) = Queued(p)
        /\ r.freed = p.freed /\ r.sent[new] = 0
    BY <2>1, <2>2, Added
  <2>4. q = SendData(r, new, 1)
    BY <1>2, <2>2 DEF ClosedHandler
  <2>5. /\ Good(q) /\ Fds(q) = Fds(r) /\ Queued(q) = Queued(r) \cup {new}
        /\ q.freed = r.freed
    BY <1>0, <2>3, <2>4, Sent
  <2> QED BY <1>2, <2>3, <2>5
<1> QED BY <1>1, <1>2

\* socketpool_close frees the socket, unless it has a queue: then it stays.
LEMMA Closed ==
    ASSUME NEW p, Good(p), NEW fd \in Fds(p), NEW new \in NewSocket(p),
           NEW q, q = CloseSocket(p, fd, new)
    PROVE  /\ Good(q)
           /\ fd \in Queued(p) => /\ Fds(q) = Fds(p) /\ Queued(q) = Queued(p)
                                  /\ q.freed = p.freed
           /\ fd \notin Queued(p) => /\ Fds(p) \ {fd} \subseteq Fds(q)
                                     /\ Queued(p) \subseteq Queued(q)
                                     /\ q.freed = p.freed \cup {fd}
<1>0. fd \in Queued(p) <=> Sendq(p, fd) # <<>>
  BY DEF Queued
<1>1. CASE fd \in Queued(p)
  <2>1. PICK k \in 1..Len(p.list) :
          /\ k = Index(p, fd) /\ p.list[k].fd = fd
          /\ p.list \in Seq(Socket) /\ p.list[k] \in Socket
          /\ DOMAIN p.list = 1..Len(p.list)
    BY IndexOf
  <2> DEFINE s == [p.list[k] EXCEPT !.closing = TRUE]
             list == [p.list EXCEPT ![k] = s]
  <2>2. q = [p EXCEPT !.list = list]
    BY <1>0, <1>1, <2>1 DEF CloseSocket
  <2>3. s \in Socket /\ s.fd = fd /\ s.sendq = p.list[k].sendq
    BY <2>1 DEF Socket
  <2>4. s.sendq # <<>>
    BY <1>0, <1>1, <2>1, <2>3 DEF Sendq
  <2> HIDE DEF s
  <2>5. list \in Seq(Socket)
    BY <2>1, <2>3, ExceptSeq
  <2>6. q \in Pool /\ q.list = list /\ q.freed = p.freed
    <3> HIDE DEF list
    <3> QED BY <2>2, <2>5 DEF Good, Pool
  <2>7. Good(q) /\ Fds(q) = Fds(p) /\ Queued(q) = Queued(p) \cup {fd}
    BY <2>1, <2>3, <2>4, <2>6, ChangeSocket
  <2> QED BY <1>1, <2>6, <2>7
<1>2. CASE fd \notin Queued(p)
  <2>1. PICK r : r = ClosedHandler(p, new)
    OBVIOUS
  <2>2. /\ Good(r) /\ Fds(p) \subseteq Fds(r) /\ Queued(p) \subseteq Queued(r)
        /\ r.freed = p.freed
    BY <2>1, Handled
  <2>3. q = RemoveSocket(r, fd)
    BY <1>0, <1>2, <2>1 DEF CloseSocket
  <2>4. /\ Good(q) /\ Fds(q) = Fds(r) \ {fd} /\ Queued(q) = Queued(r) \ {fd}
        /\ q.freed = r.freed \cup {fd}
    BY <2>2, <2>3, Removed
  <2> QED BY <1>2, <2>2, <2>4
<1> QED BY <1>1, <1>2

\* A write of n bytes of the first node changes the queue of this socket alone.
LEMMA WriteOne ==
    ASSUME NEW p, Good(p), NEW fd \in Queued(p), NEW n \in 1..Len(Head(Sendq(p, fd))),
           NEW q, q = Written(p, fd, n)
    PROVE  /\ Good(q) /\ Fds(q) = Fds(p) /\ q.freed = p.freed
           /\ Queued(q) \ {fd} = Queued(p) \ {fd}
<1> DEFINE V == 1..MaxBytes
<1>1. PICK k \in 1..Len(p.list) :
        /\ k = Index(p, fd) /\ p.list[k].fd = fd /\ fd \in Fd
        /\ p.list \in Seq(Socket) /\ p.list[k] \in Socket
        /\ DOMAIN p.list = 1..Len(p.list)
  BY IndexOf DEF Queued
<1> DEFINE old == p.list[k].sendq
           node == Head(old)
           rest == SubSeq(node, n + 1, Len(node))
           out == SubSeq(node, 1, n)
           sendq == IF n = Len(node) THEN Tail(old) ELSE <<rest>> \o Tail(old)
           s == [p.list[k] EXCEPT !.sendq = sendq]
           list == [p.list EXCEPT ![k] = s]
           wire == [p.wire EXCEPT ![fd] = @ \o out]
<1> HIDE DEF V
<1>2. old \in Seq(Seq(V)) /\ old # <<>> /\ Sendq(p, fd) = old
  BY <1>1 DEF Socket, Queued, Sendq, V
<1>3. node \in Seq(V) /\ Tail(old) \in Seq(Seq(V)) /\ n \in 1..Len(node)
  BY <1>2, HeadTailProperties
<1>4. q = [p EXCEPT !.list = list, !.wire = wire]
  BY <1>1 DEF Written
<1>5. rest \in Seq(V) /\ out \in Seq(V)
  <2> HIDE DEF node
  <2>1. Len(node) \in Nat /\ n \in Nat /\ \A i \in 1..Len(node) : node[i] \in V
    BY <1>3, LenProperties, ElementOfSeq
  <2>2. \A i \in n + 1..Len(node) : i \in 1..Len(node)
    BY <2>1
  <2>3. \A i \in 1..n : i \in 1..Len(node)
    BY <1>3, <2>1
  <2>4. SubSeq(node, n + 1, Len(node)) \in Seq(V)
    BY <2>1, <2>2, SubSeqProperties
  <2>5. SubSeq(node, 1, n) \in Seq(V)
    BY <2>1, <2>3, SubSeqProperties
  <2> QED BY <2>4, <2>5
<1> HIDE DEF rest, out, node
<1>6. sendq \in Seq(Seq(V))
  <2>1. <<rest>> \in Seq(Seq(V))
    BY <1>5
  <2> QED BY <1>3, <2>1, ConcatProperties
<1>7. wire \in [Fd -> Seq(V)]
  <2>1. p.wire \in [Fd -> Seq(V)] /\ p.wire[fd] \in Seq(V)
    BY <1>1 DEF Good, Pool, V
  <2>2. p.wire[fd] \o out \in Seq(V)
    BY <1>5, <2>1, ConcatProperties
  <2> QED BY <2>1, <2>2
<1> HIDE DEF sendq, wire, old
<1>8. s \in Socket /\ s.fd = fd
  BY <1>1, <1>6 DEF Socket, V
<1> HIDE DEF s
<1>9. list \in Seq(Socket)
  BY <1>1, <1>8, ExceptSeq
<1>10. q \in Pool /\ q.list = list /\ q.freed = p.freed
  <2> HIDE DEF list
  <2> QED BY <1>4, <1>7, <1>9 DEF Good, Pool, V
<1>11. fd \in Fds(p)
  BY DEF Queued
<1> QED BY <1>1, <1>8, <1>10, <1>11, ChangeSocket

\* socketpool_sendnode frees no socket but the one it sends from.
LEMMA NodeSent ==
    ASSUME NEW p, Good(p), NEW fd \in Queued(p), NEW n \in 1..Len(Head(Sendq(p, fd))),
           NEW new \in NewSocket(p), NEW q, q = SendNode(p, fd, n, new)
    PROVE  Good(q) /\ Fds(p) \ {fd} \subseteq Fds(q) /\ q.freed \subseteq p.freed \cup {fd}
<1>1. PICK r : r = Written(p, fd, n)
  OBVIOUS
<1>2. Good(r) /\ Fds(r) = Fds(p) /\ r.freed = p.freed
  BY <1>1, WriteOne
<1>3. q = IF fd \notin Queued(r) /\ r.list[Index(r, fd)].closing
          THEN CloseSocket(r, fd, new) ELSE r
  BY <1>1 DEF SendNode
<1>4. fd \in Fds(r) /\ new \in NewSocket(r)
  BY <1>2 DEF Queued, NewSocket
<1>5. CASE q = CloseSocket(r, fd, new)
  BY <1>2, <1>4, <1>5, Closed
<1>6. CASE q = r
  BY <1>2, <1>6
<1> QED BY <1>3, <1>5, <1>6

\* Closing every socket without a queue leaves those that have one.
LEMMA EmptyClosed ==
    ASSUME NEW p, Good(p), NEW q, q = CloseEmpty(p)
    PROVE  /\ Good(q) /\ Fds(q) = Queued(p) /\ q.freed = p.freed
<1>1. p.list \in Seq(Socket) /\ Distinct(p.list)
  BY DEF Good, Pool
<1>2. q \in Pool /\ q.list = Talking(p.list) /\ q.freed = p.freed
  BY <1>1, TalkingProperties DEF CloseEmpty, Good, Pool
<1>3. Good(q)
  BY <1>1, <1>2, TalkingProperties DEF Good
<1>4. \A s : (\E i \in DOMAIN q.list : s = q.list[i])
               <=> (\E i \in DOMAIN p.list : s = p.list[i] /\ s.sendq # <<>>)
  BY <1>1, <1>2, TalkingProperties
<1>5. ASSUME NEW x \in Fds(q) PROVE x \in Queued(p)
  <2>1. PICK i \in DOMAIN q.list : x = q.list[i].fd
    BY DEF Fds
  <2>2. PICK j \in DOMAIN p.list : q.list[i] = p.list[j] /\ q.list[i].sendq # <<>>
    BY <1>4
  <2> QED BY <2>1, <2>2, QueuedOf
<1>6. ASSUME NEW x \in Queued(p) PROVE x \in Fds(q)
  <2>1. PICK j \in DOMAIN p.list : x = p.list[j].fd
    BY DEF Queued, Fds
  <2>2. p.list[j].sendq # <<>>
    BY <2>1, QueuedOf
  <2>3. PICK i \in DOMAIN q.list : p.list[j] = q.list[i]
    BY <1>4, <2>2
  <2> QED BY <2>1, <2>3 DEF Fds
<1> QED BY <1>2, <1>3, <1>5, <1>6

\* Every socket of the list may get other flags.
LEMMA Marked ==
    ASSUME NEW p, Good(p), NEW q,
           q = [p EXCEPT !.list = [i \in DOMAIN @ |-> [@[i] EXCEPT !.closing = TRUE]]]
    PROVE  Good(q)
<1> DEFINE list == [i \in DOMAIN p.list |-> [p.list[i] EXCEPT !.closing = TRUE]]
<1>1. /\ p.list \in Seq(Socket) /\ Len(p.list) \in Nat
      /\ DOMAIN p.list = 1..Len(p.list)
      /\ \A i \in 1..Len(p.list) : p.list[i] \in Socket
  BY LenProperties, ElementOfSeq DEF Good, Pool
<1>2. \A i \in 1..Len(p.list) : list[i] \in Socket /\ list[i].fd = p.list[i].fd
  BY <1>1 DEF Socket
<1>3. DOMAIN list = 1..Len(p.list) /\ list = [i \in 1..Len(p.list) |-> list[i]]
  BY <1>1
<1>4. q = [p EXCEPT !.list = list]
  OBVIOUS
<1> HIDE DEF list
<1>5. list \in [1..Len(p.list) -> Socket]
  BY <1>2, <1>3
<1>6. list \in Seq(Socket)
  BY <1>1, <1>5, FunctionIsList
<1>7. q \in Pool /\ q.list = list
  BY <1>4, <1>6 DEF Good, Pool
<1> QED BY <1>1, <1>2, <1>3, <1>7 DEF Good, Distinct

\* A peer that goes changes neither the sockets nor their queues.
LEMMA PeerGone ==
    ASSUME NEW p, Good(p), NEW fd \in Fds(p), NEW q,
           q = [p EXCEPT !.list[Index(p, fd)].gone = TRUE]
    PROVE  /\ Good(q) /\ Fds(q) = Fds(p) /\ Queued(q) = Queued(p)
           /\ q.freed = p.freed
<1>1. PICK k \in 1..Len(p.list) :
        /\ k = Index(p, fd) /\ p.list[k].fd = fd
        /\ p.list \in Seq(Socket) /\ p.list[k] \in Socket
        /\ DOMAIN p.list = 1..Len(p.list)
  BY IndexOf
<1> DEFINE s == [p.list[k] EXCEPT !.gone = TRUE]
           list == [p.list EXCEPT ![k] = s]
<1>2. q = [p EXCEPT !.list = list]
  BY <1>1
<1>3. s \in Socket /\ s.fd = fd /\ s.sendq = p.list[k].sendq
  BY <1>1 DEF Socket
<1> HIDE DEF s
<1>4. list \in Seq(Socket)
  BY <1>1, <1>3, ExceptSeq
<1>5. q \in Pool /\ q.list = list /\ q.freed = p.freed
  <2> HIDE DEF list
  <2> QED BY <1>2, <1>4 DEF Good, Pool
<1>6. fd \in Queued(p) <=> s.sendq # <<>>
  BY <1>1, <1>3, QueuedOf
<1>7. /\ Good(q) /\ Fds(q) = Fds(p)
      /\ Queued(q) = IF s.sendq = <<>> THEN Queued(p) \ {fd} ELSE Queued(p) \cup {fd}
  <2>1. q.list = [p.list EXCEPT ![Index(p, fd)] = s]
    BY <1>1, <1>5
  <2>2. s \in Socket /\ s.fd = fd /\ q \in Pool
    BY <1>3, <1>5
  <2> QED BY ONLY <2>1, <2>2, Good(p), fd \in Fds(p), ChangeSocket
<1> QED BY <1>5, <1>6, <1>7

-----------------------------------------------------------------------------
(* The visit of a socket.                                                  *)

\* While a socket is visited, nothing but that socket has been freed, and not
\* even that one when something is to be sent from it; the next socket, which
\* socketpool_pool has saved, is another one, and still in the pool.
VisitOK(l, p) ==
    l.phase \in {"recv", "send"} =>
        /\ l.cur \in Fd /\ l.cur # l.next
        /\ l.next \in Fds(p) \cup {0}
        /\ p.freed \subseteq {l.cur}
        /\ l.has => l.cur \in Queued(p) /\ l.cur \notin p.freed

IInv ==
    /\ Good(pool)
    /\ loop \in LoopState
    /\ loop.phase # "crashed"
    /\ VisitOK(loop, pool)

\* The socket after another one of the list is not that one.
LEMMA NextOther ==
    ASSUME NEW p, Good(p), NEW fd \in Fds(p)
    PROVE  NextFd(p, fd) \in Fds(p) \cup {0} /\ NextFd(p, fd) # fd
<1> DEFINE k == Index(p, fd)
<1>1. /\ k \in 1..Len(p.list) /\ Len(p.list) \in Nat /\ fd \in Fd
      /\ DOMAIN p.list = 1..Len(p.list)
      /\ \A i \in DOMAIN p.list : p.list[i].fd = fd => i = k
  BY IndexOf
<1>2. fd # 0
  BY <1>1, PoolAssumption DEF PoolAssumption
<1>3. NextFd(p, fd) = IF k = Len(p.list) THEN 0 ELSE p.list[k + 1].fd
  BY DEF NextFd
<1> HIDE DEF k
<1>4. CASE k = Len(p.list)
  BY <1>2, <1>3, <1>4
<1>5. CASE k # Len(p.list)
  <2>1. k + 1 \in DOMAIN p.list /\ k + 1 # k
    BY <1>1, <1>5
  <2> QED BY <1>1, <1>3, <1>5, <2>1 DEF Fds
<1> QED BY <1>4, <1>5

\* A visit begins well when nothing is freed.
LEMMA VisitBegins ==
    ASSUME NEW p, Good(p), NEW fd \in Fds(p) \cup {0},
           NEW l \in LoopState, NEW m, m = Visit(l, p, fd),
           NEW r, Fds(r) = Fds(p), Queued(r) = Queued(p), r.freed = {}
    PROVE  m \in LoopState /\ m.phase # "crashed" /\ VisitOK(m, r)
<1>1. CASE fd = 0
  <2>1. m = [l EXCEPT !.phase = IF l.draining THEN "select" ELSE "timers",
                      !.cur = 0, !.next = 0, !.has = FALSE, !.read = {}, !.write = {}]
    BY <1>1 DEF Visit
  <2> DEFINE phase == IF l.draining THEN "select" ELSE "timers"
  <2>2. phase \in {"select", "timers"} /\ phase \in Phases
    BY DEF Phases
  <2> HIDE DEF phase
  <2>3. m = [phase |-> phase, cur |-> 0, next |-> 0, has |-> FALSE, read |-> {},
             write |-> {}, calls |-> l.calls, draining |-> l.draining]
    BY <2>1 DEF LoopState, phase
  <2>4. {} \in SUBSET Fd /\ 0 \in Fd \cup {0}
    OBVIOUS
  <2>5. m \in LoopState /\ m.phase = phase
    BY <2>2, <2>3, <2>4 DEF LoopState
  <2> QED BY <2>2, <2>5 DEF VisitOK
<1>2. CASE fd # 0
  <2>1. fd \in Fds(p) /\ fd \in Fd
    BY <1>2, IndexOf
  <2> DEFINE next == NextFd(p, fd)
             has == fd \in Queued(p)
             phase == IF fd \in l.read THEN "recv" ELSE "send"
  <2>2. next \in Fds(p) \cup {0} /\ next # fd
    BY <2>1, NextOther
  <2>3. Fds(p) \subseteq Fd
    BY IndexOf
  <2>4. m = [l EXCEPT !.phase = phase, !.cur = fd, !.next = next, !.has = has]
    BY <1>2 DEF Visit
  <2>5. /\ has \in BOOLEAN /\ (has => fd \in Queued(p))
        /\ phase \in {"recv", "send"} /\ phase \in Phases
    BY DEF Phases
  <2> HIDE DEF next, has, phase
  <2>6. m \in LoopState /\ m.phase = phase /\ m.cur = fd /\ m.next = next /\ m.has = has
    BY <2>1, <2>2, <2>3, <2>4, <2>5 DEF LoopState
  <2>7. m.phase # "crashed"
    BY <2>5, <2>6
  <2> QED BY <2>1, <2>2, <2>5, <2>6, <2>7 DEF VisitOK
<1> QED BY <1>1, <1>2

-----------------------------------------------------------------------------
(* The steps.                                                              *)

\* The prover is told once how a pool and a loop state with other fields look.
LEMMA Facts ==
    ASSUME IInv
    PROVE  /\ pool \in Pool /\ Good(pool) /\ Fds(pool) \subseteq Fd /\ 0 \notin Fd
           /\ loop = [phase |-> loop.phase, cur |-> loop.cur, next |-> loop.next,
                      has |-> loop.has, read |-> loop.read, write |-> loop.write,
                      calls |-> loop.calls, draining |-> loop.draining]
           /\ loop \in LoopState
<1>1. Fds(pool) \subseteq Fd
  BY IndexOf DEF IInv
<1> QED BY <1>1, PoolAssumption DEF IInv, Good, LoopState, PoolAssumption

\* The empty pool, before the first turn of the loop.
LEMMA InitIInv == Init => IInv
<1> SUFFICES ASSUME Init PROVE IInv
  OBVIOUS
<1>1. pool \in Pool
  <2>1. 0 \in 0..MaxBytes /\ <<>> \in Seq(1..MaxBytes) /\ <<>> \in Seq(Socket)
    BY PoolAssumption DEF PoolAssumption
  <2> QED BY <2>1 DEF Init, Pool
<1>2. Distinct(pool.list)
  BY DEF Init, Distinct
<1>3. loop \in LoopState
  <2>1. 0 \in 0..MaxCalls /\ "timers" \in Phases /\ {} \in SUBSET Fd
    BY PoolAssumption DEF PoolAssumption, Phases
  <2> QED BY <2>1 DEF Init, LoopState
<1>4. loop.phase = "timers"
  BY DEF Init
<1> QED BY <1>1, <1>2, <1>3, <1>4 DEF IInv, Good, VisitOK

\* The pointer to the next socket is good at the end of a visit.
LEMMA ProceedIInv ==
    ASSUME IInv, loop.phase = "send", NEW q, Good(q), Proceed(q),
           Fds(pool) \ {loop.cur} \subseteq Fds(q), q.freed \subseteq {loop.cur}
    PROVE  IInv'
<1>1. /\ loop.cur \in Fd /\ loop.cur # loop.next /\ loop.next \in Fds(pool) \cup {0}
  BY DEF IInv, VisitOK
<1>2. loop.next \in Fds(q) \cup {0} /\ loop.next \notin q.freed
  BY <1>1
<1>3. pool' = [q EXCEPT !.freed = {}] /\ loop' = Visit(loop, q, loop.next)
  BY <1>2 DEF Proceed
<1>4. /\ Good(pool') /\ pool'.freed = {}
      /\ Fds(pool') = Fds(q) /\ Queued(pool') = Queued(q)
  BY <1>3, Forgotten
<1>5. loop \in LoopState
  BY DEF IInv
<1>6. loop' \in LoopState /\ loop'.phase # "crashed" /\ VisitOK(loop', pool')
  BY <1>2, <1>3, <1>4, <1>5, VisitBegins
<1> QED BY <1>4, <1>6 DEF IInv

\* The first socket of a list is one of the pool.
LEMMA FirstSocket ==
    ASSUME NEW p, Good(p), Fds(p) # {}
    PROVE  p.list[1].fd \in Fds(p)
<1>1. Len(p.list) \in Nat /\ DOMAIN p.list = 1..Len(p.list)
  BY LenProperties DEF Good, Pool
<1>2. 1 \in DOMAIN p.list
  BY <1>1 DEF Fds
<1> QED BY <1>2 DEF Fds

\* select has returned, and the visits begin with nothing freed.
LEMMA SelectIInv ==
    ASSUME IInv, NEW read \in SUBSET Fds(pool), NEW write \in SUBSET Queued(pool),
           Select(read, write)
    PROVE  IInv'
<1> DEFINE l == [loop EXCEPT !.read = read, !.write = write, !.calls = 0]
           fd == IF read \cup write = {} THEN 0 ELSE pool.list[1].fd
<1>1. loop' = Visit(l, pool, fd) /\ pool' = [pool EXCEPT !.freed = {}]
  BY DEF Select
<1>2. Queued(pool) \subseteq Fds(pool) /\ Good(pool)
  BY QueuedOf DEF IInv
<1>3. fd \in Fds(pool) \cup {0}
  BY <1>2, FirstSocket
<1>4. l \in LoopState
  <2>1. read \subseteq Fd /\ write \subseteq Fd /\ 0 \in 0..MaxCalls
    BY <1>2, Facts, PoolAssumption DEF PoolAssumption
  <2> QED BY <2>1, Facts DEF LoopState
<1> HIDE DEF l, fd
<1>5. /\ Good(pool') /\ pool'.freed = {}
      /\ Fds(pool') = Fds(pool) /\ Queued(pool') = Queued(pool)
  BY <1>1, <1>2, Forgotten
<1>6. loop' \in LoopState /\ loop'.phase # "crashed" /\ VisitOK(loop', pool')
  BY <1>1, <1>2, <1>3, <1>4, <1>5, VisitBegins
<1> QED BY <1>5, <1>6 DEF IInv

\* The calls of a client free the socket that is visited at most.
LEMMA CallIInv ==
    ASSUME IInv, Foreign = FALSE, Call
    PROVE  IInv'
<1>1. /\ loop.phase \in {"recv", "timers"} /\ loop.calls < MaxCalls
      /\ loop' = [loop EXCEPT !.calls = @ + 1]
  BY DEF Call
<1>2. /\ loop' \in LoopState /\ loop'.phase = loop.phase /\ loop'.cur = loop.cur
      /\ loop'.next = loop.next /\ loop'.has = loop.has
  <2>1. loop.calls + 1 \in 0..MaxCalls
    BY <1>1, PoolAssumption DEF PoolAssumption, IInv, LoopState
  <2> QED BY <1>1, <2>1, Facts DEF LoopState
<1>3. loop'.phase # "crashed"
  BY <1>1, <1>2
<1> SUFFICES Good(pool') /\ VisitOK(loop', pool')
  BY <1>2, <1>3 DEF IInv
<1>4. Good(pool) /\ VisitOK(loop, pool)
  BY DEF IInv
<1>5. ASSUME NEW fd \in Fds(pool), NEW n \in 1..MaxNode, pool.sent[fd] + n <= MaxBytes,
             pool' = SendData(pool, fd, n)
      PROVE  Good(pool') /\ VisitOK(loop', pool')
  <2>1. n \in Nat
    BY PoolAssumption DEF PoolAssumption
  <2>2. /\ Good(pool') /\ Fds(pool') = Fds(pool)
        /\ Queued(pool') = Queued(pool) \cup {fd} /\ pool'.freed = pool.freed
    BY <1>4, <1>5, <2>1, Sent
  <2> QED BY <1>2, <1>4, <2>2 DEF VisitOK
<1>6. ASSUME NEW fd \in Fd, pool' = AddSocket(pool, fd)
      PROVE  Good(pool') /\ VisitOK(loop', pool')
  <2>1. /\ Good(pool') /\ Fds(pool') = Fds(pool) \cup {fd}
        /\ Queued(pool') = Queued(pool) /\ pool'.freed = pool.freed
    BY <1>4, <1>6, Added
  <2> QED BY <1>2, <1>4, <2>1 DEF VisitOK
<1>7. ASSUME NEW fd \in Fds(pool), NEW new \in Unused \cup {0},
             loop.phase = "timers" \/ fd = loop.cur \/ fd \in Queued(pool),
             pool' = CloseSocket(pool, fd, new)
      PROVE  Good(pool') /\ VisitOK(loop', pool')
  <2>1. new \in NewSocket(pool)
    BY DEF Unused, NewSocket
  <2>2. /\ Good(pool')
        /\ fd \in Queued(pool) => /\ Fds(pool') = Fds(pool)
                                  /\ Queued(pool') = Queued(pool)
                                  /\ pool'.freed = pool.freed
        /\ fd \notin Queued(pool) => /\ Fds(pool) \ {fd} \subseteq Fds(pool')
                                     /\ Queued(pool) \subseteq Queued(pool')
                                     /\ pool'.freed = pool.freed \cup {fd}
    BY <1>4, <1>7, <2>1, Closed
  <2>3. CASE fd \in Queued(pool)
    BY <1>2, <1>4, <2>2, <2>3 DEF VisitOK
  <2>4. CASE fd \notin Queued(pool) /\ fd = loop.cur
    BY <1>2, <1>4, <2>2, <2>4 DEF VisitOK
  <2>5. CASE loop.phase = "timers"
    BY <1>2, <2>2, <2>5 DEF VisitOK
  <2> QED BY <1>7, <2>3, <2>4, <2>5
<1> QED BY <1>1, <1>5, <1>6, <1>7 DEF Call

\* After the receive handler, neither the socket it sends from nor the next one
\* is freed: this is the step that the invariant is for.
LEMMA ReturnIInv ==
    ASSUME IInv, Return
    PROVE  IInv'
<1>1. /\ loop.phase = "recv" /\ pool' = pool
      /\ loop' = [loop EXCEPT !.phase =
                    IF NodesRead \cap pool.freed = {} THEN "send" ELSE "crashed"]
  BY DEF Return
<1>2. VisitOK(loop, pool) /\ Good(pool)
  BY DEF IInv
<1>3. NodesRead \cap pool.freed = {}
  BY <1>1, <1>2 DEF NodesRead, Sends, VisitOK
<1>4. loop' = [loop EXCEPT !.phase = "send"] /\ "send" \in Phases
  BY <1>1, <1>3 DEF Phases
<1>5. /\ loop' \in LoopState /\ loop'.phase = "send" /\ loop'.cur = loop.cur
      /\ loop'.next = loop.next /\ loop'.has = loop.has
  BY <1>4, Facts DEF LoopState
<1>6. VisitOK(loop', pool)
  BY <1>1, <1>2, <1>5 DEF VisitOK
<1> QED BY <1>1, <1>2, <1>5, <1>6 DEF IInv

\* The end of a visit, whether a node is written, the write fails, or there is
\* nothing to write.
LEMMA SendIInv ==
    ASSUME IInv, Skip \/ Write \/ WriteFails
    PROVE  IInv'
<1>1. /\ Good(pool) /\ loop.phase = "send"
      /\ loop.cur \in Fd /\ pool.freed \subseteq {loop.cur}
      /\ loop.has => loop.cur \in Queued(pool)
  BY DEF IInv, VisitOK, Skip, Write, WriteFails
<1>2. CASE Skip
  BY <1>1, <1>2, ProceedIInv DEF Skip
<1>3. CASE Write
  <2>1. loop.cur \in Queued(pool)
    BY <1>1, <1>3 DEF Write, Sends
  <2>2. PICK n \in 1..Len(Head(Sendq(pool, loop.cur))), new \in Unused \cup {0} :
            Proceed(SendNode(pool, loop.cur, n, new))
    BY <1>3 DEF Write
  <2>3. PICK q : q = SendNode(pool, loop.cur, n, new)
    OBVIOUS
  <2>4. new \in NewSocket(pool)
    BY DEF Unused, NewSocket
  <2>5. /\ Good(q) /\ Fds(pool) \ {loop.cur} \subseteq Fds(q)
        /\ q.freed \subseteq pool.freed \cup {loop.cur}
    BY <1>1, <2>1, <2>3, <2>4, NodeSent
  <2>6. Proceed(q)
    BY <2>2, <2>3
  <2> QED BY <1>1, <2>5, <2>6, ProceedIInv
<1>4. CASE WriteFails
  <2>1. loop.cur \in Fds(pool)
    BY <1>1, <1>4 DEF WriteFails, Sends, Queued
  <2>2. PICK q : q = CloseSocket(pool, loop.cur, 0)
    OBVIOUS
  <2>3. Good(q) /\ Fds(pool) \ {loop.cur} \subseteq Fds(q)
        /\ q.freed \subseteq pool.freed \cup {loop.cur}
    BY <1>1, <2>1, <2>2, Closed DEF NewSocket
  <2>4. Proceed(q)
    BY <1>4, <2>2 DEF WriteFails
  <2> QED BY <1>1, <2>3, <2>4, ProceedIInv
<1> QED BY <1>2, <1>3, <1>4

\* Outside the visits, only the list matters.
LEMMA PhaseIInv ==
    ASSUME IInv, Good(pool'), NEW phase \in Phases \ {"recv", "send", "crashed"},
           NEW draining \in BOOLEAN,
           loop' = [loop EXCEPT !.phase = phase, !.draining = draining]
    PROVE  IInv'
<1>1. loop' \in LoopState /\ loop'.phase = phase
  BY Facts DEF LoopState
<1>2. phase \notin {"recv", "send"} /\ phase # "crashed"
  OBVIOUS
<1> QED BY <1>1, <1>2 DEF IInv, VisitOK

\* The steps outside the visits.
LEMMA OtherIInv ==
    ASSUME IInv, TimersDone \/ Stop \/ SigPipe \/ Shutdown
    PROVE  IInv'
<1>1. /\ Good(pool) /\ loop.draining \in BOOLEAN
      /\ loop = [loop EXCEPT !.draining = loop.draining]
      /\ loop = [loop EXCEPT !.phase = loop.phase]
  BY Facts DEF LoopState
<1>2. CASE TimersDone
  <2>1. /\ pool' = pool
        /\ loop' = [loop EXCEPT !.phase = "select", !.draining = loop.draining]
    BY <1>2, Facts DEF TimersDone
  <2> QED BY <1>1, <2>1, PhaseIInv DEF Phases
<1>3. CASE Stop
  <2>1. loop' = [loop EXCEPT !.phase = "stopped", !.draining = loop.draining]
    BY <1>3, Facts DEF Stop
  <2>2. Good(pool')
    BY <1>1, <1>3, EmptyClosed DEF Stop
  <2> QED BY <1>1, <2>1, <2>2, PhaseIInv DEF Phases
<1>4. CASE SigPipe
  <2>1. /\ pool' = pool
        /\ loop' = [loop EXCEPT !.phase = "killed", !.draining = loop.draining]
    BY <1>4, Facts DEF SigPipe
  <2> QED BY <1>1, <2>1, PhaseIInv DEF Phases
<1>5. CASE Shutdown
  <2>1. loop' = [loop EXCEPT !.phase = "select", !.draining = TRUE]
    BY <1>5, Facts DEF Shutdown
  <2>2. PICK p : p = CloseEmpty(pool)
    OBVIOUS
  <2>3. Good(p)
    BY <1>1, <2>2, EmptyClosed
  <2>4. Good(pool')
    BY <1>5, <2>2, <2>3, Marked DEF Shutdown
  <2> QED BY <2>1, <2>4, PhaseIInv DEF Phases
<1> QED BY <1>2, <1>3, <1>4, <1>5

\* A turn of the drain at shutdown.
LEMMA DrainIInv ==
    ASSUME IInv, NEW write \in SUBSET Queued(pool), Drain(write)
    PROVE  IInv'
<1>1. PICK r : r = [pool EXCEPT !.freed = {}]
  OBVIOUS
<1>2. /\ pool' = CloseEmpty(r) /\ write # {}
      /\ loop' = Visit([loop EXCEPT !.write = write], pool', pool'.list[1].fd)
  BY <1>1 DEF Drain
<1>3. Good(r) /\ Queued(r) = Queued(pool) /\ r.freed = {}
  BY <1>1, Forgotten DEF IInv
<1>4. Good(pool') /\ Fds(pool') = Queued(pool) /\ pool'.freed = {}
  BY <1>2, <1>3, EmptyClosed
<1>5. pool'.list[1].fd \in Fds(pool')
  BY <1>2, <1>4, FirstSocket
<1>6. [loop EXCEPT !.write = write] \in LoopState
  <2>1. write \subseteq Fd
    BY Facts, QueuedOf
  <2> QED BY <2>1, Facts DEF LoopState
<1>7. loop' \in LoopState /\ loop'.phase # "crashed" /\ VisitOK(loop', pool')
  BY <1>2, <1>4, <1>5, <1>6, VisitBegins
<1> QED BY <1>4, <1>7 DEF IInv

\* The peer of a socket goes.
LEMMA PeerGoesIInv ==
    ASSUME IInv, NEW fd \in Fds(pool), PeerGoes(fd)
    PROVE  IInv'
<1>1. pool' = [pool EXCEPT !.list[Index(pool, fd)].gone = TRUE] /\ loop' = loop
  BY DEF PeerGoes
<1>2. /\ Good(pool') /\ Fds(pool') = Fds(pool) /\ Queued(pool') = Queued(pool)
      /\ pool'.freed = pool.freed
  BY <1>1, PeerGone DEF IInv
<1> QED BY <1>1, <1>2 DEF IInv, VisitOK

\* Every step keeps the invariant.
LEMMA NextIInv ==
    ASSUME Foreign = FALSE
    PROVE  IInv /\ [Next]_vars => IInv'
<1> SUFFICES ASSUME IInv, [Next]_vars PROVE IInv'
  OBVIOUS
<1>1. CASE Loop
  BY <1>1, SelectIInv, ReturnIInv, SendIInv, OtherIInv, DrainIInv DEF Loop
<1>2. CASE Call
  BY <1>2, CallIInv
<1>3. CASE SigPipe \/ Shutdown
  BY <1>3, OtherIInv
<1>4. CASE \E fd \in Fds(pool) : PeerGoes(fd)
  BY <1>4, PeerGoesIInv
<1>5. CASE UNCHANGED vars
  BY <1>5 DEF vars, IInv, Good, VisitOK, Fds, Queued, Sendq, Index
<1> QED BY <1>1, <1>2, <1>3, <1>4, <1>5 DEF Next

\* socketpool_pool never follows a pointer to a socket that was freed, as long
\* as a receive handler closes at once no socket but its own (socketpool.c).
THEOREM PointersStayGood ==
    ASSUME Foreign = FALSE
    PROVE  Spec => []MemorySafe
<1>1. IInv => MemorySafe
  BY DEF IInv, MemorySafe
<1> QED BY <1>1, InitIInv, NextIInv, PTL DEF Spec

-----------------------------------------------------------------------------
(* Runs of bytes.  The queue of a socket is a chain of them.               *)

\* The bytes after the a-th, up to the b-th.
Bytes(a, b) == [k \in 1..b - a |-> a + k]

\* The nodes of a queue are the bytes between the numbers of c.
Chain(queue, c) ==
    /\ c \in [1..Len(queue) + 1 -> Nat]
    /\ \A i, j \in 1..Len(queue) + 1 : i <= j => c[i] <= c[j]
    /\ \A i \in 1..Len(queue) : queue[i] = Bytes(c[i], c[i + 1])

\* What has gone out and what is queued are, in this order, the n bytes sent.
Whole(queue, out, n) ==
    /\ out = Bytes(0, Len(out))
    /\ \E c : /\ Chain(queue, c)
              /\ c[1] = Len(out) /\ c[Len(queue) + 1] = n

\* A run of bytes is a list.
LEMMA BytesType ==
    ASSUME NEW a \in Nat, NEW b \in Nat, a <= b
    PROVE  /\ Bytes(a, b) \in Seq(Nat) /\ Len(Bytes(a, b)) = b - a
           /\ DOMAIN Bytes(a, b) = 1..b - a
           /\ \A k \in 1..b - a : Bytes(a, b)[k] = a + k
<1>1. b - a \in Nat /\ \A k \in 1..b - a : a + k \in Nat
  OBVIOUS
<1>2. Bytes(a, b) \in [1..b - a -> Nat]
  BY <1>1 DEF Bytes
<1>3. Bytes(a, b) \in Seq(Nat)
  BY <1>1, <1>2, FunctionIsList
<1>4. DOMAIN Bytes(a, b) = 1..b - a
  BY <1>2
<1>5. DOMAIN Bytes(a, b) = 1..Len(Bytes(a, b)) /\ Len(Bytes(a, b)) \in Nat
  BY <1>3, LenProperties
<1>6. Len(Bytes(a, b)) = b - a
  BY <1>1, <1>4, <1>5
<1> QED BY <1>3, <1>4, <1>6 DEF Bytes

\* Two lists of one length are equal when their elements are.
LEMMA SameElements ==
    ASSUME NEW S, NEW T, NEW u \in Seq(S), NEW v \in Seq(T), Len(u) = Len(v),
           \A i \in 1..Len(u) : u[i] = v[i]
    PROVE  u = v
OBVIOUS

\* The next n bytes, as socketpool_send numbers them.
LEMMA BytesAfter ==
    ASSUME NEW a \in Nat, NEW n \in Nat
    PROVE  [k \in 1..n |-> a + k] = Bytes(a, a + n)
<1> DEFINE u == [k \in 1..n |-> a + k]
           v == Bytes(a, a + n)
<1>1. a + n - a = n /\ a + n \in Nat /\ a <= a + n
  OBVIOUS
<1>2. v \in Seq(Nat) /\ Len(v) = n /\ \A k \in 1..n : v[k] = a + k
  BY <1>1, BytesType
<1>3. u \in Seq(Nat) /\ Len(u) = n /\ \A k \in 1..n : u[k] = a + k
  OBVIOUS
<1> HIDE DEF u, v
<1>4. u = v
  BY <1>2, <1>3, SameElements
<1> QED BY <1>4 DEF u, v

\* Two runs, one after the other, make one.
LEMMA BytesJoin ==
    ASSUME NEW a \in Nat, NEW b \in Nat, NEW c \in Nat, a <= b, b <= c
    PROVE  Bytes(a, b) \o Bytes(b, c) = Bytes(a, c)
<1> DEFINE u == Bytes(a, b)
           v == Bytes(b, c)
           w == Bytes(a, c)
<1>1. u \in Seq(Nat) /\ Len(u) = b - a /\ \A k \in 1..b - a : u[k] = a + k
  BY BytesType
<1>10. v \in Seq(Nat) /\ Len(v) = c - b /\ \A k \in 1..c - b : v[k] = b + k
  BY BytesType
<1>11. w \in Seq(Nat) /\ Len(w) = c - a /\ \A k \in 1..c - a : w[k] = a + k
  <2>1. a <= c
    OBVIOUS
  <2> QED BY <2>1, BytesType
<1> HIDE DEF u, v, w
<1>2. /\ u \o v \in Seq(Nat) /\ Len(u \o v) = c - a
      /\ \A i \in 1..c - a : (u \o v)[i] = IF i <= b - a THEN u[i] ELSE v[i - (b - a)]
  <2>1. /\ u \o v \in Seq(Nat) /\ Len(u \o v) = Len(u) + Len(v)
        /\ \A i \in 1..Len(u) + Len(v) :
             (u \o v)[i] = IF i <= Len(u) THEN u[i] ELSE v[i - Len(u)]
    BY <1>1, <1>10, ConcatProperties
  <2>2. Len(u) + Len(v) = c - a
    BY <1>1, <1>10
  <2> QED BY <1>1, <2>1, <2>2
<1>3. \A i \in 1..c - a : (u \o v)[i] = w[i]
  <2> SUFFICES ASSUME NEW i \in 1..c - a PROVE (u \o v)[i] = w[i]
    OBVIOUS
  <2>1. CASE i <= b - a
    <3>1. i \in 1..b - a
      BY <2>1
    <3> QED BY <1>1, <1>11, <1>2, <2>1, <3>1
  <2>2. CASE ~(i <= b - a)
    <3>1. i - (b - a) \in 1..c - b /\ b + (i - (b - a)) = a + i
      BY <2>2
    <3>2. v[i - (b - a)] = a + i
      BY <1>10, <3>1
    <3> QED BY <1>11, <1>2, <2>2, <3>2
  <2> QED BY <2>1, <2>2
<1>4. u \o v = w
  BY <1>11, <1>2, <1>3, SameElements
<1> QED BY <1>4 DEF u, v, w

\* A run is cut into two.
LEMMA BytesCut ==
    ASSUME NEW a \in Nat, NEW b \in Nat, a <= b, NEW n \in 0..b - a
    PROVE  /\ SubSeq(Bytes(a, b), 1, n) = Bytes(a, a + n)
           /\ SubSeq(Bytes(a, b), n + 1, b - a) = Bytes(a + n, b)
<1> DEFINE u == Bytes(a, b)
           x == SubSeq(u, 1, n)
           y == SubSeq(u, n + 1, b - a)
<1>1. u \in Seq(Nat) /\ Len(u) = b - a /\ \A k \in 1..b - a : u[k] = a + k
  BY BytesType
<1>2. a + n \in Nat /\ a <= a + n /\ a + n <= b /\ n \in Nat /\ (a + n) - a = n
      /\ b - (a + n) = (b - a) - n
  OBVIOUS
<1>3. /\ Bytes(a, a + n) \in Seq(Nat) /\ Len(Bytes(a, a + n)) = n
      /\ \A k \in 1..n : Bytes(a, a + n)[k] = a + k
  BY <1>2, BytesType
<1>4. /\ Bytes(a + n, b) \in Seq(Nat) /\ Len(Bytes(a + n, b)) = (b - a) - n
      /\ \A k \in 1..(b - a) - n : Bytes(a + n, b)[k] = a + n + k
  BY <1>2, BytesType
<1> HIDE DEF u
<1>5. /\ x \in Seq(Nat) /\ Len(x) = n /\ \A i \in 1..n : x[i] = u[i]
  <2>1. \A i \in 1..n : u[i] \in Nat
    BY <1>1
  <2>2. /\ x \in Seq(Nat) /\ Len(x) = IF 1 <= n THEN n - 1 + 1 ELSE 0
        /\ \A i \in 1..n - 1 + 1 : x[i] = u[1 + i - 1]
    BY <1>2, <2>1, SubSeqProperties
  <2> HIDE DEF x
  <2> QED BY <1>2, <2>2
<1>6. /\ y \in Seq(Nat) /\ Len(y) = (b - a) - n
      /\ \A i \in 1..(b - a) - n : y[i] = u[n + i]
  <2>1. \A i \in n + 1..b - a : u[i] \in Nat
    BY <1>1
  <2>2. /\ y \in Seq(Nat)
        /\ Len(y) = IF n + 1 <= b - a THEN (b - a) - (n + 1) + 1 ELSE 0
        /\ \A i \in 1..(b - a) - (n + 1) + 1 : y[i] = u[n + 1 + i - 1]
    BY <1>2, <2>1, SubSeqProperties
  <2> HIDE DEF y
  <2>3. (b - a) - (n + 1) + 1 = (b - a) - n /\ \A i \in Nat : n + 1 + i - 1 = n + i
    BY <1>2
  <2>4. \A i \in 1..(b - a) - n : y[i] = u[n + i]
    BY <2>2, <2>3
  <2> QED BY <1>2, <2>2, <2>3, <2>4
<1> HIDE DEF x, y
<1>7. x = Bytes(a, a + n)
  <2>0. \A i \in 1..n : i \in 1..b - a
    OBVIOUS
  <2>1. \A i \in 1..n : x[i] = Bytes(a, a + n)[i]
    BY <1>1, <1>3, <1>5, <2>0
  <2> QED BY <1>3, <1>5, <2>1, SameElements
<1>8. y = Bytes(a + n, b)
  <2>1. \A i \in 1..(b - a) - n : n + i \in 1..b - a /\ a + (n + i) = a + n + i
    BY <1>2
  <2>2. \A i \in 1..(b - a) - n : y[i] = Bytes(a + n, b)[i]
    BY <1>1, <1>4, <1>6, <2>1
  <2> QED BY <1>4, <1>6, <2>2, SameElements
<1> QED BY <1>7, <1>8 DEF x, y, u

\* The queue of a new socket.
LEMMA WholeFresh == Whole(<<>>, <<>>, 0)
<1> DEFINE c == [i \in 1..1 |-> 0]
<1>1. Len(<<>>) = 0 /\ Len(<<>>) + 1 = 1 /\ 1..0 = {} /\ 0 - 0 = 0
  OBVIOUS
<1>2. c \in [1..1 -> Nat] /\ c[1] = 0
  OBVIOUS
<1> HIDE DEF c
<1>3. \A i, j \in 1..1 : c[i] <= c[j]
  BY <1>2
<1>4. Chain(<<>>, c)
  BY <1>1, <1>2, <1>3 DEF Chain
<1>5. Bytes(0, 0) = <<>>
  BY <1>1, BytesType
<1> QED BY <1>1, <1>2, <1>4, <1>5 DEF Whole

\* What has gone out are the first bytes that were sent.
LEMMA WholeOut ==
    ASSUME NEW S, NEW queue \in Seq(S), NEW T, NEW out \in Seq(T), NEW n, Whole(queue, out, n)
    PROVE  /\ n \in Nat /\ Len(out) \in Nat /\ Len(out) <= n
           /\ out = Bytes(0, Len(out))
           /\ queue = <<>> => out = Bytes(0, n)
<1>1. PICK c : Chain(queue, c) /\ c[1] = Len(out) /\ c[Len(queue) + 1] = n
  BY DEF Whole
<1>2. Len(queue) \in Nat /\ Len(out) \in Nat
  BY LenProperties
<1>3. 1 \in 1..Len(queue) + 1 /\ Len(queue) + 1 \in 1..Len(queue) + 1 /\ 1 <= Len(queue) + 1
  BY <1>2
<1>4. n \in Nat /\ Len(out) <= n
  BY <1>1, <1>3 DEF Chain
<1>5. queue = <<>> => Len(queue) + 1 = 1
  OBVIOUS
<1>6. out = Bytes(0, Len(out))
  BY DEF Whole
<1> QED BY <1>1, <1>2, <1>4, <1>5, <1>6

\* Another node at the end of the queue.
LEMMA WholeSent ==
    ASSUME NEW S, NEW queue \in Seq(S), NEW T, NEW out \in Seq(T), NEW n, Whole(queue, out, n),
           NEW m \in Nat, Bytes(n, n + m) \in S
    PROVE  Whole(Append(queue, Bytes(n, n + m)), out, n + m)
<1>1. PICK c : Chain(queue, c) /\ c[1] = Len(out) /\ c[Len(queue) + 1] = n
  BY DEF Whole
<1> DEFINE len == Len(queue)
           node == Bytes(n, n + m)
           r == Append(queue, node)
           d == [i \in 1..len + 2 |-> IF i = len + 2 THEN n + m ELSE c[i]]
<1>2. len \in Nat /\ n \in Nat /\ n + m \in Nat
  BY WholeOut, LenProperties
<1>3. /\ r \in Seq(S) /\ Len(r) = len + 1 /\ r[len + 1] = node
      /\ \A i \in 1..len : r[i] = queue[i]
  BY AppendProperties
<1> HIDE DEF len, node, r
<1>4. /\ \A i \in 1..len + 2 : i = len + 2 \/ (i \in 1..len + 1 /\ i # len + 2)
      /\ \A i \in 1..len + 1 : i \in 1..len + 2 /\ i # len + 2
      /\ len + 2 \in 1..len + 2 /\ len + 1 \in 1..len + 1 /\ 1 \in 1..len + 1
  BY <1>2
<1>5. c \in [1..len + 1 -> Nat] /\ c[len + 1] = n /\ c[1] = Len(out)
  BY <1>1 DEF Chain, len
<1>6. /\ d \in [1..len + 2 -> Nat] /\ d[len + 2] = n + m
      /\ \A i \in 1..len + 1 : d[i] = c[i]
  BY <1>2, <1>4, <1>5
<1> HIDE DEF d
<1>7. \A i \in 1..len + 1 : c[i] <= n /\ c[i] \in Nat
  <2>1. \A i \in 1..len + 1 : i <= len + 1
    BY <1>2
  <2> QED BY <1>1, <1>4, <1>5, <2>1 DEF Chain, len
<1>8. ASSUME NEW i \in 1..len + 2, NEW j \in 1..len + 2, i <= j PROVE d[i] <= d[j]
  <2>1. CASE i \in 1..len + 1 /\ j \in 1..len + 1
    BY <1>1, <1>6, <1>8, <2>1 DEF Chain, len
  <2>2. CASE i \in 1..len + 1 /\ j = len + 2
    BY <1>2, <1>6, <1>7, <2>2
  <2>3. CASE i = len + 2
    <3>1. j = len + 2
      BY <1>2, <1>8, <2>3
    <3> QED BY <1>2, <1>6, <2>3, <3>1
  <2> QED BY <1>4, <2>1, <2>2, <2>3
<1>9. ASSUME NEW i \in 1..len + 1 PROVE r[i] = Bytes(d[i], d[i + 1])
  <2>1. CASE i = len + 1
    <3>1. i + 1 = len + 2
      BY <1>2, <2>1
    <3> QED BY <1>3, <1>4, <1>5, <1>6, <2>1, <3>1 DEF node
  <2>2. CASE i # len + 1
    <3>1. i \in 1..len /\ i + 1 \in 1..len + 1
      BY <1>2, <2>2
    <3>2. queue[i] = Bytes(c[i], c[i + 1])
      BY <1>1, <3>1 DEF Chain, len
    <3> QED BY <1>3, <1>6, <3>1, <3>2
  <2> QED BY <2>1, <2>2
<1>10. len + 1 + 1 = len + 2
  BY <1>2
<1>11. Chain(r, d)
  BY <1>3, <1>6, <1>8, <1>9, <1>10 DEF Chain
<1>12. d[1] = Len(out) /\ d[Len(r) + 1] = n + m
  BY <1>3, <1>4, <1>5, <1>6, <1>10
<1>13. out = Bytes(0, Len(out))
  BY DEF Whole
<1>14. Whole(r, out, n + m)
  BY <1>11, <1>12, <1>13 DEF Whole
<1> QED BY <1>14 DEF r, node

\* The first node of a chain, and the rest of it.
LEMMA ChainHead ==
    ASSUME NEW S, NEW queue \in Seq(S), queue # <<>>, NEW c, Chain(queue, c)
    PROVE  /\ Len(queue) \in Nat \ {0} /\ Len(Tail(queue)) = Len(queue) - 1
           /\ c[1] \in Nat /\ c[2] \in Nat /\ c[1] <= c[2]
           /\ Head(queue) = Bytes(c[1], c[2]) /\ Len(Head(queue)) = c[2] - c[1]
           /\ \A i \in 2..Len(queue) + 1 : c[i] \in Nat /\ c[2] <= c[i]
           /\ \A i \in 1..Len(queue) - 1 : Tail(queue)[i] = Bytes(c[i + 1], c[i + 2])
<1> DEFINE len == Len(queue)
<1>1. len \in Nat \ {0}
  BY LenProperties, EmptySeq
<1>2. Len(Tail(queue)) = len - 1 /\ \A i \in 1..len - 1 : Tail(queue)[i] = queue[i + 1]
  BY HeadTailProperties
<1>3. Head(queue) = queue[1]
  OBVIOUS
<1>4. /\ c \in [1..len + 1 -> Nat]
      /\ \A i, j \in 1..len + 1 : i <= j => c[i] <= c[j]
      /\ \A i \in 1..len : queue[i] = Bytes(c[i], c[i + 1])
  BY DEF Chain
<1> HIDE DEF len
<1>5. /\ 1 \in 1..len + 1 /\ 2 \in 1..len + 1 /\ 1 \in 1..len
      /\ \A i \in 2..len + 1 : i \in 1..len + 1 /\ 2 <= i
      /\ \A i \in 1..len - 1 : i + 1 \in 1..len /\ i + 1 + 1 = i + 2
  BY <1>1
<1>6. c[1] \in Nat /\ c[2] \in Nat /\ c[1] <= c[2]
  BY <1>4, <1>5
<1>7. queue[1] = Bytes(c[1], c[2])
  <2>1. queue[1] = Bytes(c[1], c[1 + 1])
    BY <1>4, <1>5
  <2> QED BY <2>1
<1>8. Len(Head(queue)) = c[2] - c[1]
  <2>1. Len(Bytes(c[1], c[2])) = c[2] - c[1]
    BY <1>6, BytesType
  <2> QED BY <1>3, <1>7, <2>1
<1>9. \A i \in 2..len + 1 : c[i] \in Nat /\ c[2] <= c[i]
  BY <1>4, <1>5
<1>10. \A i \in 1..len - 1 : Tail(queue)[i] = Bytes(c[i + 1], c[i + 2])
  BY <1>2, <1>4, <1>5
<1> QED BY <1>1, <1>2, <1>3, <1>6, <1>7, <1>8, <1>9, <1>10 DEF len

\* What of a queue is left when n bytes of its first node have gone out.
Rest(queue, n) ==
    IF n = Len(Head(queue)) THEN Tail(queue)
    ELSE <<SubSeq(Head(queue), n + 1, Len(Head(queue)))>> \o Tail(queue)

\* A write of n bytes of the first node.
LEMMA WholeWritten ==
    ASSUME NEW S, NEW queue \in Seq(Seq(S)), NEW T, NEW out \in Seq(T), NEW sent,
           Whole(queue, out, sent), queue # <<>>, NEW n \in 1..Len(Head(queue))
    PROVE  Whole(Rest(queue, n), out \o SubSeq(Head(queue), 1, n), sent)
<1>1. PICK c : Chain(queue, c) /\ c[1] = Len(out) /\ c[Len(queue) + 1] = sent
  BY DEF Whole
<1> DEFINE len == Len(queue)
           tail == Tail(queue)
           node == Head(queue)
           a == c[1]
           b == c[2]
<1>2. /\ len \in Nat \ {0} /\ Len(tail) = len - 1
      /\ a \in Nat /\ b \in Nat /\ a <= b
      /\ node = Bytes(a, b) /\ Len(node) = b - a
      /\ \A i \in 2..len + 1 : c[i] \in Nat /\ b <= c[i]
      /\ \A i \in 1..len - 1 : tail[i] = Bytes(c[i + 1], c[i + 2])
  BY <1>1, ChainHead
<1>3. \A i, j \in 1..len + 1 : i <= j => c[i] <= c[j]
  BY <1>1 DEF Chain
<1>4. tail \in Seq(Seq(S))
  BY HeadTailProperties
<1>5. n \in 1..b - a /\ n \in 0..b - a /\ a + n \in Nat /\ a <= a + n /\ a + n <= b
      /\ a + (b - a) = b
  BY <1>2
<1>6. SubSeq(node, 1, n) = Bytes(a, a + n) /\ SubSeq(node, n + 1, b - a) = Bytes(a + n, b)
  <2> HIDE DEF a, b, node
  <2>1. /\ SubSeq(Bytes(a, b), 1, n) = Bytes(a, a + n)
        /\ SubSeq(Bytes(a, b), n + 1, b - a) = Bytes(a + n, b)
    BY <1>2, <1>5, BytesCut
  <2> QED BY <1>2, <2>1
<1>7. out \o SubSeq(node, 1, n) = Bytes(0, a + n) /\ Len(Bytes(0, a + n)) = a + n
  <2>1. out = Bytes(0, a) /\ 0 <= a /\ a + n - 0 = a + n
    BY <1>1, <1>2, <1>5 DEF Whole
  <2>2. Bytes(0, a) \o Bytes(a, a + n) = Bytes(0, a + n)
    BY <1>2, <1>5, <2>1, BytesJoin
  <2>3. Len(Bytes(0, a + n)) = a + n
    <3> HIDE DEF a, b, node
    <3>1. 0 \in Nat /\ 0 <= a + n /\ a + n \in Nat /\ a + n - 0 = a + n
      BY <1>5
    <3>2. Len(Bytes(0, a + n)) = a + n - 0
      BY <3>1, BytesType
    <3> QED BY <3>1, <3>2
  <2> QED BY <1>6, <2>1, <2>2, <2>3
<1>8. c[len + 1] = sent
  BY <1>1
<1> HIDE DEF len, tail, node, a, b
<1> SUFFICES \E d : /\ Chain(Rest(queue, n), d) /\ d[1] = a + n
                    /\ d[Len(Rest(queue, n)) + 1] = sent
  BY <1>7 DEF Whole, node
<1>9. CASE n = b - a
  <2> DEFINE d == [i \in 1..len |-> c[i + 1]]
  <2>1. Rest(queue, n) = tail
    BY <1>2, <1>9 DEF Rest, tail, node
  <2>2. len - 1 + 1 = len /\ \A i \in 1..len : i + 1 \in 2..len + 1 /\ i + 1 \in 1..len + 1
    BY <1>2
  <2>3. d \in [1..len -> Nat] /\ \A i \in 1..len : d[i] = c[i + 1]
    BY <1>2, <2>2
  <2> HIDE DEF d
  <2>4. \A i, j \in 1..len : i <= j => d[i] <= d[j]
    <3>1. \A i, j \in 1..len : i <= j => i + 1 <= j + 1
      BY <1>2
    <3> QED BY <1>3, <2>2, <2>3, <3>1
  <2>5. \A i \in 1..len - 1 : tail[i] = Bytes(d[i], d[i + 1])
    <3>1. \A i \in 1..len - 1 : i \in 1..len /\ i + 1 \in 1..len /\ i + 1 + 1 = i + 2
      BY <1>2
    <3> QED BY <1>2, <2>3, <3>1
  <2>6. Chain(tail, d)
    BY <1>2, <2>2, <2>3, <2>4, <2>5 DEF Chain
  <2>7. d[1] = a + n /\ d[len] = sent
    <3>1. 1 \in 1..len /\ len \in 1..len /\ 1 + 1 = 2
      BY <1>2
    <3> QED BY <1>5, <1>8, <1>9, <2>3, <3>1 DEF b
  <2> QED BY <1>2, <2>1, <2>2, <2>6, <2>7
<1>10. CASE n # b - a
  <2> DEFINE rest == Bytes(a + n, b)
             r == <<rest>> \o tail
             d == [i \in 1..len + 1 |-> IF i = 1 THEN a + n ELSE c[i]]
  <2>1. Rest(queue, n) = r
    BY <1>2, <1>6, <1>10 DEF Rest, tail, node
  <2>2. Len(r) = len /\ r[1] = rest /\ \A i \in 2..len : r[i] = tail[i - 1]
    <3> HIDE DEF rest
    <3>1. <<rest>> \in Seq({rest}) /\ Len(<<rest>>) = 1 /\ <<rest>>[1] = rest
      OBVIOUS
    <3> DEFINE V == Seq(S) \cup {rest}
    <3>2. <<rest>> \in Seq(V) /\ tail \in Seq(V)
      BY <1>4
    <3> HIDE DEF V
    <3>3. /\ Len(r) = 1 + (len - 1)
          /\ \A i \in 1..1 + (len - 1) : r[i] = IF i <= 1 THEN <<rest>>[i] ELSE tail[i - 1]
      BY <1>2, <3>1, <3>2, ConcatProperties
    <3>4. 1 + (len - 1) = len /\ 1 \in 1..len /\ \A i \in 2..len : i \in 1..len /\ ~(i <= 1)
      BY <1>2
    <3> QED BY <3>1, <3>3, <3>4
  <2>3. \A i \in 1..len + 1 : i = 1 \/ i \in 2..len + 1
    BY <1>2
  <2>4. 1 \in 1..len + 1 /\ 2 \in 1..len + 1 /\ \A i \in 2..len + 1 : i \in 1..len + 1 /\ i # 1
    BY <1>2
  <2>5. /\ d \in [1..len + 1 -> Nat] /\ d[1] = a + n
        /\ \A i \in 2..len + 1 : d[i] = c[i]
    BY <1>2, <1>5, <2>3, <2>4
  <2> HIDE DEF d
  <2>6. ASSUME NEW i \in 1..len + 1, NEW j \in 1..len + 1, i <= j PROVE d[i] <= d[j]
    <3>1. CASE i = 1 /\ j = 1
      BY <1>5, <2>5, <3>1
    <3>2. CASE i = 1 /\ j \in 2..len + 1
      <4>1. d[i] = a + n /\ d[j] = c[j] /\ b <= c[j] /\ c[j] \in Nat
        BY <1>2, <2>5, <3>2
      <4> QED BY <1>2, <1>5, <4>1
    <3>3. CASE i \in 2..len + 1
      <4>1. j \in 2..len + 1
        BY <1>2, <2>6, <3>3
      <4> QED BY <1>3, <2>5, <2>6, <3>3, <4>1
    <3> QED BY <2>3, <3>1, <3>2, <3>3
  <2>7. ASSUME NEW i \in 1..len PROVE r[i] = Bytes(d[i], d[i + 1])
    <3>1. CASE i = 1
      <4>1. d[2] = b /\ i + 1 = 2
        BY <1>2, <2>5, <3>1 DEF b
      <4> QED BY <2>2, <2>5, <3>1, <4>1
    <3>2. CASE i # 1
      <4>1. /\ i \in 2..len /\ i - 1 \in 1..len - 1 /\ i - 1 + 1 = i /\ i - 1 + 2 = i + 1
            /\ i \in 2..len + 1 /\ i + 1 \in 2..len + 1
        BY <1>2, <3>2
      <4>2. tail[i - 1] = Bytes(c[i], c[i + 1])
        BY <1>2, <4>1
      <4> QED BY <2>2, <2>5, <4>1, <4>2
    <3> QED BY <3>1, <3>2
  <2> HIDE DEF r
  <2>8. Chain(r, d)
    BY <2>2, <2>5, <2>6, <2>7 DEF Chain
  <2>9. d[len + 1] = sent
    <3>1. len + 1 \in 2..len + 1
      BY <1>2
    <3> QED BY <1>8, <2>5, <3>1
  <2> QED BY <2>1, <2>2, <2>5, <2>8, <2>9
<1> QED BY <1>9, <1>10

\* What FlattenSeq does to the first n nodes of a queue.
Flat(queue, f, n) ==
    f = [i \in 1..n |-> IF i = 1 THEN queue[i] ELSE f[i - 1] \o queue[i]]

\* The recursion of FlattenSeq defines a function.
LEMMA FlatExists ==
    ASSUME NEW queue, NEW N \in Nat
    PROVE  \E f : Flat(queue, f, N)
<1> DEFINE S == {n \in Nat : \E f : Flat(queue, f, n)}
<1>1. 0 \in S
  <2> DEFINE f == [i \in 1..0 |-> <<>>]
  <2>1. f = [i \in 1..0 |-> IF i = 1 THEN queue[i] ELSE f[i - 1] \o queue[i]]
    <3>1. 1..0 = {}
      OBVIOUS
    <3> QED BY <3>1
  <2> QED BY <2>1 DEF Flat
<1>2. ASSUME NEW n \in S PROVE n + 1 \in S
  <2>1. PICK f : Flat(queue, f, n)
    OBVIOUS
  <2> DEFINE last == IF n + 1 = 1 THEN queue[n + 1] ELSE f[n] \o queue[n + 1]
             g == [i \in 1..n + 1 |-> IF i = n + 1 THEN last ELSE f[i]]
  <2>2. n \in Nat /\ n + 1 - 1 = n /\ n + 1 \in 1..n + 1
    OBVIOUS
  <2>3. \A i \in 1..n : f[i] = IF i = 1 THEN queue[i] ELSE f[i - 1] \o queue[i]
    BY <2>1 DEF Flat
  <2> HIDE DEF last
  <2>4. \A i \in 1..n : g[i] = f[i]
    BY <2>2
  <2>5. g[n + 1] = last
    BY <2>2
  <2>6. \A i \in 1..n + 1 : i = n + 1 \/ (i \in 1..n /\ (i = 1 \/ i - 1 \in 1..n))
    BY <2>2
  <2>7. ASSUME NEW i \in 1..n + 1
        PROVE  g[i] = IF i = 1 THEN queue[i] ELSE g[i - 1] \o queue[i]
    <3>1. CASE i = n + 1
      <4>1. n + 1 # 1 => n \in 1..n
        BY <2>2
      <4>2. n + 1 # 1 => g[n] = f[n]
        BY <2>4, <4>1
      <4> HIDE DEF g
      <4> QED BY <2>2, <2>5, <3>1, <4>2 DEF last
    <3>2. CASE i \in 1..n /\ i = 1
      <4> HIDE DEF g
      <4> QED BY <2>3, <2>4, <3>2
    <3>3. CASE i \in 1..n /\ i - 1 \in 1..n /\ i # 1
      <4> HIDE DEF g
      <4> QED BY <2>3, <2>4, <3>3
    <3> QED BY <2>6, <3>1, <3>2, <3>3
  <2>8. Flat(queue, g, n + 1)
    <3> DEFINE h == [i \in 1..n + 1 |-> IF i = 1 THEN queue[i] ELSE g[i - 1] \o queue[i]]
    <3>1. g = h
      <4>1. \A i \in 1..n + 1 : g[i] = h[i]
        <5> HIDE DEF g
        <5> QED BY <2>7
      <4> QED BY <4>1
    <3> HIDE DEF g
    <3> QED BY <3>1 DEF Flat
  <2> QED BY <2>2, <2>8
<1> HIDE DEF S
<1>3. S = Nat
  <2>1. S \subseteq Nat
    BY DEF S
  <2> QED BY <1>1, <1>2, <2>1, SetInduction
<1> QED BY <1>3 DEF S

\* A chain of nodes, one after the other, is the run from its first byte to its
\* last one.
LEMMA ChainFlat ==
    ASSUME NEW S, NEW queue \in Seq(S), NEW c, Chain(queue, c), queue # <<>>
    PROVE  FlattenSeq(queue) = Bytes(c[1], c[Len(queue) + 1])
<1> DEFINE len == Len(queue)
           f == CHOOSE f : Flat(queue, f, len)
<1>0. len \in Nat \ {0}
  BY LenProperties, EmptySeq
<1>1. Flat(queue, f, len)
  BY <1>0, FlatExists
<1>2. FlattenSeq(queue) = f[len]
  BY <1>0, Zenon DEF FlattenSeq, Flat
<1> HIDE DEF f, len
<1>3. \A i \in 1..len : f[i] = IF i = 1 THEN queue[i] ELSE f[i - 1] \o queue[i]
  BY <1>1 DEF Flat
<1>4. /\ c \in [1..len + 1 -> Nat]
      /\ \A i, j \in 1..len + 1 : i <= j => c[i] <= c[j]
      /\ \A i \in 1..len : queue[i] = Bytes(c[i], c[i + 1])
  BY DEF Chain, len
<1> DEFINE P == {n \in Nat : n + 1 <= len => f[n + 1] = Bytes(c[1], c[n + 2])}
<1>5. 0 \in P
  <2>1. 1 \in 1..len /\ 0 + 1 = 1 /\ 0 + 2 = 2 /\ 1 + 1 = 2
    BY <1>0
  <2>2. f[1] = Bytes(c[1], c[2])
    BY <1>3, <1>4, <2>1
  <2> QED BY <2>1, <2>2
<1>6. ASSUME NEW n \in P PROVE n + 1 \in P
  <2>1. n \in Nat /\ n + 1 \in Nat /\ n + 1 + 1 = n + 2 /\ n + 1 + 2 = n + 3
    OBVIOUS
  <2> SUFFICES ASSUME n + 2 <= len PROVE f[n + 2] = Bytes(c[1], c[n + 3])
    BY <2>1
  <2>2. /\ n + 2 \in 1..len /\ n + 2 # 1 /\ n + 2 - 1 = n + 1 /\ n + 1 <= len
        /\ n + 2 + 1 = n + 3
        /\ 1 \in 1..len + 1 /\ n + 2 \in 1..len + 1 /\ n + 3 \in 1..len + 1
        /\ 1 <= n + 2 /\ n + 2 <= n + 3
    BY <1>0, <2>1
  <2>3. f[n + 1] = Bytes(c[1], c[n + 2])
    BY <2>2
  <2>4. queue[n + 2] = Bytes(c[n + 2], c[n + 3])
    BY <1>4, <2>2
  <2>5. f[n + 2] = Bytes(c[1], c[n + 2]) \o Bytes(c[n + 2], c[n + 3])
    <3>1. PICK m : m = n + 2
      OBVIOUS
    <3>2. m \in 1..len /\ m # 1 /\ m - 1 = n + 1
      BY <2>2, <3>1
    <3> HIDE DEF P
    <3>3. f[m] = f[m - 1] \o queue[m]
      BY <1>3, <3>2
    <3> QED BY <2>3, <2>4, <3>1, <3>2, <3>3
  <2>6. /\ c[1] \in Nat /\ c[n + 2] \in Nat /\ c[n + 3] \in Nat
        /\ c[1] <= c[n + 2] /\ c[n + 2] <= c[n + 3]
    BY <1>4, <2>2
  <2> QED BY <2>5, <2>6, BytesJoin
<1>7. P = Nat
  <2>1. P \subseteq Nat
    OBVIOUS
  <2> HIDE DEF P
  <2> QED BY <1>5, <1>6, <2>1, SetInduction
<1>8. len - 1 \in Nat /\ len - 1 + 1 = len /\ len - 1 + 2 = len + 1 /\ len <= len
  BY <1>0
<1>9. f[len] = Bytes(c[1], c[len + 1])
  <2>1. len - 1 \in P
    BY <1>7, <1>8
  <2> QED BY <1>8, <2>1
<1> QED BY <1>2, <1>9 DEF len

\* What has gone out, and the queue flattened, are all the bytes sent.
LEMMA WholeFlat ==
    ASSUME NEW S, NEW queue \in Seq(S), NEW T, NEW out \in Seq(T), NEW n, Whole(queue, out, n)
    PROVE  out \o FlattenSeq(queue) = Bytes(0, n)
<1>1. PICK c : Chain(queue, c) /\ c[1] = Len(out) /\ c[Len(queue) + 1] = n
  BY DEF Whole
<1>2. /\ n \in Nat /\ Len(out) \in Nat /\ Len(out) <= n
      /\ out = Bytes(0, Len(out))
      /\ queue = <<>> => out = Bytes(0, n)
  BY WholeOut
<1>3. CASE queue = <<>>
  <2>1. Len(queue) = 0
    BY <1>3
  <2>2. FlattenSeq(queue) = <<>>
    BY <1>3, <2>1 DEF FlattenSeq
  <2>3. out \o <<>> = out
    BY ConcatEmptySeq
  <2> QED BY <1>2, <1>3, <2>2, <2>3
<1>4. CASE queue # <<>>
  <2>1. FlattenSeq(queue) = Bytes(Len(out), n)
    BY <1>1, <1>4, ChainFlat
  <2>2. 0 \in Nat /\ 0 <= Len(out)
    BY <1>2
  <2>3. Bytes(0, Len(out)) \o Bytes(Len(out), n) = Bytes(0, n)
    BY <1>2, <2>2, BytesJoin
  <2> QED BY <1>2, <2>1, <2>3
<1> QED BY <1>3, <1>4

-----------------------------------------------------------------------------
(* The streams of a pool, and what its operations do to them.              *)

\* Nothing is lost on any socket.
WholePool(p) == \A fd \in Fds(p) : Whole(Sendq(p, fd), p.wire[fd], p.sent[fd])

\* Streams get longer, and new ones are opened.
Grows(p, q) ==
    /\ Fds(p) \subseteq Fds(q)
    /\ \A fd \in Fds(p) : p.sent[fd] <= q.sent[fd] /\ Len(p.wire[fd]) <= Len(q.wire[fd])
    /\ \A fd \in Fds(q) \ Fds(p) : q.wire[fd] = <<>>
    /\ \A fd \in Fd \ Fds(q) : q.sent[fd] = p.sent[fd] /\ q.wire[fd] = p.wire[fd]

\* Sockets without a queue are closed, and nothing else happens to a stream.
Shrinks(p, q) ==
    /\ Fds(q) \subseteq Fds(p)
    /\ q.sent = p.sent /\ q.wire = p.wire
    /\ \A fd \in Fds(q) : Sendq(q, fd) = Sendq(p, fd)
    /\ \A fd \in Fds(p) \ Fds(q) : Sendq(p, fd) = <<>>

\* What a step of the program may do to its streams; what it opens it does not
\* close.
Moves(p, q) ==
    \E r : /\ Good(r) /\ WholePool(r) /\ Grows(p, r) /\ Shrinks(r, q)
          /\ Fds(r) \ Fds(q) \subseteq Fds(p)

\* The types of a stream.
LEMMA StreamTypes ==
    ASSUME NEW p, Good(p)
    PROVE  /\ Fds(p) \subseteq Fd
           /\ \A fd \in Fd : p.sent[fd] \in Nat /\ p.sent[fd] <= MaxBytes
           /\ \A fd \in Fd : p.wire[fd] \in Seq(1..MaxBytes) /\ Len(p.wire[fd]) \in Nat
           /\ \A fd \in Fds(p) : Sendq(p, fd) \in Seq(Seq(1..MaxBytes))
<1>1. Fds(p) \subseteq Fd
  BY IndexOf
<1>2. \A fd \in Fd : p.sent[fd] \in Nat /\ p.sent[fd] <= MaxBytes
  <2>1. p.sent \in [Fd -> 0..MaxBytes] /\ MaxBytes \in Nat
    BY PoolAssumption DEF Good, Pool, PoolAssumption
  <2> QED BY <2>1
<1>3. \A fd \in Fd : p.wire[fd] \in Seq(1..MaxBytes)
  BY DEF Good, Pool
<1>4. \A fd \in Fd : Len(p.wire[fd]) \in Nat
  BY <1>3, LenProperties
<1>5. \A fd \in Fds(p) : Sendq(p, fd) \in Seq(Seq(1..MaxBytes))
  BY IndexOf DEF Sendq, Socket
<1> QED BY <1>1, <1>2, <1>3, <1>4, <1>5

\* The queue of the i-th socket.
LEMMA QueueAt ==
    ASSUME NEW p, Good(p), NEW i \in DOMAIN p.list
    PROVE  p.list[i].fd \in Fds(p) /\ Sendq(p, p.list[i].fd) = p.list[i].sendq
<1>1. p.list[i].fd \in Fds(p)
  BY DEF Fds
<1>2. i = Index(p, p.list[i].fd)
  BY <1>1, IndexOf
<1> QED BY <1>1, <1>2 DEF Sendq

\* A list that is made of sockets of another one, with the same queues.
LEMMA FromList ==
    ASSUME NEW p, Good(p), NEW q, Good(q), q.sent = p.sent, q.wire = p.wire,
           \A j \in DOMAIN q.list : \E i \in DOMAIN p.list :
               q.list[j].fd = p.list[i].fd /\ q.list[j].sendq = p.list[i].sendq,
           \A fd \in Fds(p) \ Fds(q) : Sendq(p, fd) = <<>>
    PROVE  Shrinks(p, q)
<1>1. ASSUME NEW fd \in Fds(q)
      PROVE  fd \in Fds(p) /\ Sendq(q, fd) = Sendq(p, fd)
  <2>1. PICK j \in DOMAIN q.list : fd = q.list[j].fd
    BY DEF Fds
  <2>2. PICK i \in DOMAIN p.list :
            q.list[j].fd = p.list[i].fd /\ q.list[j].sendq = p.list[i].sendq
    OBVIOUS
  <2> QED BY <2>1, <2>2, QueueAt
<1> QED BY <1>1 DEF Shrinks

\* Nothing at all.
LEMMA GrowsSelf ==
    ASSUME NEW p, Good(p)
    PROVE  Grows(p, p)
<1>1. \A fd \in Fds(p) : p.sent[fd] <= p.sent[fd] /\ Len(p.wire[fd]) <= Len(p.wire[fd])
  BY StreamTypes
<1> QED BY <1>1 DEF Grows

\* A pool that shrinks has moved.
LEMMA ShrinksMoves ==
    ASSUME NEW p, Good(p), WholePool(p), NEW q, Shrinks(p, q)
    PROVE  Moves(p, q)
BY GrowsSelf DEF Moves

\* Closing goes on.
LEMMA ShrinksOn ==
    ASSUME NEW p, NEW r, NEW q, Shrinks(p, r), Shrinks(r, q)
    PROVE  Shrinks(p, q)
BY DEF Shrinks

\* What has moved may go on, as long as no socket is closed.
LEMMA MovesOn ==
    ASSUME NEW p, NEW r, NEW q, Moves(p, r), Shrinks(r, q), Fds(q) = Fds(r)
    PROVE  Moves(p, q)
<1>1. PICK m : /\ Good(m) /\ WholePool(m) /\ Grows(p, m) /\ Shrinks(m, r)
               /\ Fds(m) \ Fds(r) \subseteq Fds(p)
  BY DEF Moves
<1>2. Shrinks(m, q)
  BY <1>1, ShrinksOn
<1> QED BY <1>1, <1>2 DEF Moves

\* Growth goes on, if new sockets are not written to.
LEMMA GrowsOn ==
    ASSUME NEW p, Good(p), NEW r, Good(r), NEW q, Good(q), Grows(p, r), Grows(r, q),
           Fds(r) = Fds(p) \/ q.wire = r.wire
    PROVE  Grows(p, q)
<1>1. ASSUME NEW fd \in Fds(p)
      PROVE  p.sent[fd] <= q.sent[fd] /\ Len(p.wire[fd]) <= Len(q.wire[fd])
  <2>1. fd \in Fd /\ fd \in Fds(r)
    BY StreamTypes DEF Grows
  <2>2. /\ p.sent[fd] \in Nat /\ r.sent[fd] \in Nat /\ q.sent[fd] \in Nat
        /\ Len(p.wire[fd]) \in Nat /\ Len(r.wire[fd]) \in Nat /\ Len(q.wire[fd]) \in Nat
    BY <2>1, StreamTypes
  <2>3. p.sent[fd] <= r.sent[fd] /\ r.sent[fd] <= q.sent[fd]
    BY <2>1 DEF Grows
  <2>4. Len(p.wire[fd]) <= Len(r.wire[fd]) /\ Len(r.wire[fd]) <= Len(q.wire[fd])
    BY <2>1 DEF Grows
  <2>5. \A a, b, c \in Nat : a <= b /\ b <= c => a <= c
    OBVIOUS
  <2> QED BY ONLY <2>2, <2>3, <2>4, <2>5
<1>2. Fds(p) \subseteq Fds(q)
  BY DEF Grows
<1>3. \A fd \in Fds(q) \ Fds(p) : q.wire[fd] = <<>>
  <2>1. CASE Fds(r) = Fds(p)
    BY <2>1 DEF Grows
  <2>2. CASE q.wire = r.wire
    BY <2>2 DEF Grows
  <2> QED BY <2>1, <2>2
<1>4. \A fd \in Fd \ Fds(q) : q.sent[fd] = p.sent[fd] /\ q.wire[fd] = p.wire[fd]
  <2>1. Fd \ Fds(q) \subseteq Fd \ Fds(r)
    BY DEF Grows
  <2> QED BY <2>1 DEF Grows
<1> QED BY <1>1, <1>2, <1>3, <1>4 DEF Grows

\* A pool that shrinks stays whole.
LEMMA ShrinksWhole ==
    ASSUME NEW p, Good(p), WholePool(p), NEW q, Shrinks(p, q)
    PROVE  WholePool(q)
BY DEF Shrinks, WholePool

\* The queue of one socket is another one, and the others' are what they were.
LEMMA ChangedQueue ==
    ASSUME NEW p, Good(p), NEW fd \in Fds(p), NEW q, Good(q), NEW s, s.fd = fd,
           q.list = [p.list EXCEPT ![Index(p, fd)] = s]
    PROVE  /\ Fds(q) = Fds(p) /\ Sendq(q, fd) = s.sendq
           /\ \A x \in Fds(p) \ {fd} : Sendq(q, x) = Sendq(p, x)
<1> DEFINE k == Index(p, fd)
<1>1. /\ k \in DOMAIN p.list /\ p.list[k].fd = fd
      /\ \A i \in DOMAIN p.list : p.list[i].fd = fd => i = k
      /\ p.list \in Seq(Socket)
  BY IndexOf
<1>2. /\ DOMAIN q.list = DOMAIN p.list /\ q.list[k] = s
      /\ \A i \in DOMAIN p.list : i # k => q.list[i] = p.list[i]
  BY <1>1
<1> HIDE DEF k
<1>3. \A i \in DOMAIN p.list : q.list[i].fd = p.list[i].fd
  BY <1>1, <1>2
<1>4. Fds(q) = Fds(p)
  BY <1>2, <1>3 DEF Fds
<1>5. Sendq(q, fd) = s.sendq
  BY <1>1, <1>2, QueueAt
<1>6. ASSUME NEW x \in Fds(p), x # fd PROVE Sendq(q, x) = Sendq(p, x)
  <2>1. PICK i \in DOMAIN p.list : x = p.list[i].fd
    BY DEF Fds
  <2>2. q.list[i] = p.list[i] /\ i \in DOMAIN q.list
    BY <1>1, <1>2, <1>6, <2>1
  <2> QED BY <2>1, <2>2, QueueAt
<1> QED BY <1>4, <1>5, <1>6

\* socketpool_send: one stream gets longer at its end.
LEMMA SentGrows ==
    ASSUME NEW p, Good(p), WholePool(p), NEW fd \in Fds(p), NEW n \in Nat,
           p.sent[fd] + n <= MaxBytes, NEW q, q = SendData(p, fd, n)
    PROVE  /\ WholePool(q) /\ Grows(p, q) /\ q.wire = p.wire
           /\ \A x \in Fds(p) \ {fd} : Sendq(q, x) = Sendq(p, x)
<1> DEFINE a == p.sent[fd]
           node == Bytes(a, a + n)
           s == [p.list[Index(p, fd)] EXCEPT !.sendq = Append(@, node)]
<1>1. Good(q) /\ Fds(q) = Fds(p)
  BY Sent
<1>2. a \in Nat /\ fd \in Fd /\ Fds(p) \subseteq Fd
  BY StreamTypes
<1>3. [k \in 1..n |-> p.sent[fd] + k] = node
  BY <1>2, BytesAfter
<1> HIDE DEF node
<1>4. /\ Index(p, fd) \in DOMAIN p.list
      /\ p.list[Index(p, fd)] \in Socket /\ p.list[Index(p, fd)].fd = fd
  BY IndexOf
<1>5. /\ q.list = [p.list EXCEPT ![Index(p, fd)] = s]
      /\ q.sent = [p.sent EXCEPT ![fd] = a + n]
      /\ q.wire = p.wire
  <2>1. q = [p EXCEPT !.list = [p.list EXCEPT ![Index(p, fd)] = s],
                      !.sent = [p.sent EXCEPT ![fd] = a + n]]
    BY <1>3 DEF SendData
  <2>2. p = [list |-> p.list, freed |-> p.freed, sent |-> p.sent, wire |-> p.wire]
    BY DEF Good, Pool
  <2> HIDE DEF s, a
  <2>3. q = [list |-> [p.list EXCEPT ![Index(p, fd)] = s], freed |-> p.freed,
             sent |-> [p.sent EXCEPT ![fd] = a + n], wire |-> p.wire]
    BY <2>1, <2>2
  <2> QED BY <2>3
<1>6. s.fd = fd /\ s.sendq = Append(Sendq(p, fd), node)
  BY <1>4 DEF Socket, Sendq
<1> HIDE DEF s
<1>7. /\ Sendq(q, fd) = Append(Sendq(p, fd), node)
      /\ \A x \in Fds(p) \ {fd} : Sendq(q, x) = Sendq(p, x)
  BY <1>1, <1>5, <1>6, ChangedQueue
<1>8. q.sent[fd] = a + n /\ \A x \in Fd \ {fd} : q.sent[x] = p.sent[x]
  <2>1. p.sent \in [Fd -> 0..MaxBytes]
    BY DEF Good, Pool
  <2> QED BY <1>2, <1>5, <2>1
<1>9. Whole(Sendq(q, fd), q.wire[fd], q.sent[fd])
  <2>1. Whole(Sendq(p, fd), p.wire[fd], a)
    BY DEF WholePool
  <2>2. Sendq(p, fd) \in Seq(Seq(1..MaxBytes)) /\ p.wire[fd] \in Seq(1..MaxBytes)
    BY <1>2, StreamTypes
  <2>3. Sendq(p, fd) \in Seq(Seq(1..MaxBytes) \cup {node})
    BY <2>2
  <2>4. Whole(Append(Sendq(p, fd), node), p.wire[fd], a + n)
    BY <2>1, <2>2, <2>3, WholeSent DEF node
  <2> QED BY <1>5, <1>7, <1>8, <2>4
<1>10. WholePool(q)
  <2> SUFFICES ASSUME NEW x \in Fds(q) PROVE Whole(Sendq(q, x), q.wire[x], q.sent[x])
    BY DEF WholePool
  <2>1. CASE x = fd
    BY <1>9, <2>1
  <2>2. CASE x # fd
    <3>1. x \in Fds(p) \ {fd} /\ x \in Fd \ {fd}
      BY <1>1, <1>2, <2>2
    <3> QED BY <1>5, <1>7, <1>8, <3>1 DEF WholePool
  <2> QED BY <2>1, <2>2
<1>11. Grows(p, q)
  <2>1. ASSUME NEW x \in Fds(p)
        PROVE  p.sent[x] <= q.sent[x] /\ Len(p.wire[x]) <= Len(q.wire[x])
    <3>1. x \in Fd /\ p.sent[x] \in Nat /\ Len(p.wire[x]) \in Nat
      BY <1>2, StreamTypes
    <3>2. CASE x = fd
      BY <1>2, <1>5, <1>8, <3>1, <3>2
    <3>3. CASE x # fd
      BY <1>5, <1>8, <3>1, <3>3
    <3> QED BY <3>2, <3>3
  <2>2. \A x \in Fd \ Fds(q) : q.sent[x] = p.sent[x] /\ q.wire[x] = p.wire[x]
    BY <1>1, <1>5, <1>8
  <2> QED BY <1>1, <2>1, <2>2 DEF Grows
<1> QED BY <1>5, <1>7, <1>10, <1>11

\* socketpool_add: an empty stream is opened.
LEMMA AddedGrows ==
    ASSUME NEW p, Good(p), WholePool(p), NEW fd \in Fd, NEW q, q = AddSocket(p, fd)
    PROVE  /\ WholePool(q) /\ Grows(p, q)
           /\ \A x \in Fds(p) : Sendq(q, x) = Sendq(p, x)
<1>1. CASE fd \in Fds(p)
  <2>1. q = p
    BY <1>1 DEF AddSocket
  <2> QED BY <2>1, GrowsSelf
<1>2. CASE fd \notin Fds(p)
  <2> DEFINE s == [fd |-> fd, sendq |-> <<>>, closing |-> FALSE, gone |-> FALSE]
  <2>1. /\ Good(q) /\ Fds(q) = Fds(p) \cup {fd} /\ Queued(q) = Queued(p)
        /\ q.sent[fd] = 0 /\ Fds(p) \subseteq Fd
    BY <1>2, Added, StreamTypes
  <2>2. /\ q.list = Append(p.list, s)
        /\ q.sent = [p.sent EXCEPT ![fd] = 0]
        /\ q.wire = [p.wire EXCEPT ![fd] = <<>>]
    <3>1. q = [p EXCEPT !.list = Append(p.list, s), !.sent = [p.sent EXCEPT ![fd] = 0],
                        !.wire = [p.wire EXCEPT ![fd] = <<>>]]
      BY <1>2 DEF AddSocket
    <3>2. p = [list |-> p.list, freed |-> p.freed, sent |-> p.sent, wire |-> p.wire]
      BY DEF Good, Pool
    <3> HIDE DEF s
    <3>3. q = [list |-> Append(p.list, s), freed |-> p.freed,
               sent |-> [p.sent EXCEPT ![fd] = 0], wire |-> [p.wire EXCEPT ![fd] = <<>>]]
      BY <3>1, <3>2
    <3> QED BY <3>3
  <2>3. s \in Socket /\ p.list \in Seq(Socket) /\ Len(p.list) \in Nat
        /\ DOMAIN p.list = 1..Len(p.list)
    BY LenProperties DEF Socket, Good, Pool
  <2> HIDE DEF s
  <2>4. /\ \A i \in 1..Len(p.list) : q.list[i] = p.list[i]
        /\ q.list \in Seq(Socket) /\ Len(q.list) = Len(p.list) + 1
    BY <2>2, <2>3, AppendProperties
  <2>5. \A i \in 1..Len(p.list) : i \in DOMAIN q.list
    BY <2>3, <2>4, LenProperties
  <2>6. ASSUME NEW x \in Fds(p) PROVE Sendq(q, x) = Sendq(p, x)
    <3>1. PICK i \in DOMAIN p.list : x = p.list[i].fd
      BY DEF Fds
    <3>2. q.list[i] = p.list[i] /\ i \in DOMAIN q.list
      BY <2>3, <2>4, <2>5
    <3> QED BY <2>1, <3>1, <3>2, QueueAt
  <2>7. Sendq(q, fd) = <<>>
    <3>1. fd \notin Queued(p) /\ fd \in Fds(q)
      BY <1>2, <2>1 DEF Queued
    <3> QED BY <2>1, <3>1 DEF Queued
  <2>8. /\ q.wire[fd] = <<>>
        /\ \A x \in Fd \ {fd} : q.sent[x] = p.sent[x] /\ q.wire[x] = p.wire[x]
    <3>1. p.sent \in [Fd -> 0..MaxBytes] /\ p.wire \in [Fd -> Seq(1..MaxBytes)]
      BY DEF Good, Pool
    <3> QED BY <2>2, <3>1
  <2>9. WholePool(q)
    <3> SUFFICES ASSUME NEW x \in Fds(q) PROVE Whole(Sendq(q, x), q.wire[x], q.sent[x])
      BY DEF WholePool
    <3>1. CASE x = fd
      BY <2>1, <2>7, <2>8, <3>1, WholeFresh
    <3>2. CASE x # fd
      <4>1. x \in Fds(p) /\ x \in Fd \ {fd}
        BY <2>1, <3>2
      <4> QED BY <2>6, <2>8, <4>1 DEF WholePool
    <3> QED BY <3>1, <3>2
  <2>10. Grows(p, q)
    <3>1. ASSUME NEW x \in Fds(p)
          PROVE  p.sent[x] <= q.sent[x] /\ Len(p.wire[x]) <= Len(q.wire[x])
      <4>1. x \in Fd \ {fd} /\ p.sent[x] \in Nat /\ Len(p.wire[x]) \in Nat
        BY <1>2, <2>1, StreamTypes
      <4> QED BY <2>8, <4>1
    <3>2. \A x \in Fd \ Fds(q) : q.sent[x] = p.sent[x] /\ q.wire[x] = p.wire[x]
      BY <2>1, <2>8
    <3>3. \A x \in Fds(q) \ Fds(p) : q.wire[x] = <<>>
      BY <2>1, <2>8
    <3> QED BY <2>1, <3>1, <3>2, <3>3 DEF Grows
  <2> QED BY <2>6, <2>9, <2>10
<1> QED BY <1>1, <1>2

\* A closed handler opens a stream, or none.
LEMMA HandledGrows ==
    ASSUME NEW p, Good(p), WholePool(p), NEW new \in NewSocket(p),
           NEW q, q = ClosedHandler(p, new)
    PROVE  /\ WholePool(q) /\ Grows(p, q)
           /\ \A x \in Fds(p) : Sendq(q, x) = Sendq(p, x)
<1>0. 0 \notin Fd /\ 1 <= MaxBytes
  BY PoolAssumption DEF PoolAssumption
<1>1. CASE new = 0
  <2>1. q = p
    BY <1>1 DEF ClosedHandler
  <2> QED BY <2>1, GrowsSelf
<1>2. CASE new # 0
  <2>1. new \in Fd /\ new \notin Fds(p)
    BY <1>2 DEF NewSocket
  <2>2. PICK r : r = AddSocket(p, new)
    OBVIOUS
  <2>3. Good(r) /\ Fds(r) = Fds(p) \cup {new} /\ r.sent[new] = 0
    BY <2>1, <2>2, Added
  <2>4. /\ WholePool(r) /\ Grows(p, r)
        /\ \A x \in Fds(p) : Sendq(r, x) = Sendq(p, x)
    BY <2>1, <2>2, AddedGrows
  <2>5. q = SendData(r, new, 1)
    BY <1>2, <2>2 DEF ClosedHandler
  <2>6. r.sent[new] + 1 <= MaxBytes /\ new \in Fds(r) /\ 1 \in Nat
    BY <1>0, <2>3
  <2>7. Good(q)
    BY <2>3, <2>5, <2>6, Sent
  <2>8. /\ WholePool(q) /\ Grows(r, q) /\ q.wire = r.wire
        /\ \A x \in Fds(r) \ {new} : Sendq(q, x) = Sendq(r, x)
    BY <2>3, <2>4, <2>5, <2>6, SentGrows
  <2>9. Grows(p, q)
    BY <2>3, <2>4, <2>7, <2>8, GrowsOn
  <2>10. \A x \in Fds(p) : Sendq(q, x) = Sendq(p, x)
    BY <2>1, <2>3, <2>4, <2>8
  <2> QED BY <2>8, <2>9, <2>10
<1> QED BY <1>1, <1>2

\* socketpool_remove of a socket that has nothing to say.
LEMMA RemovedShrinks ==
    ASSUME NEW p, Good(p), NEW fd \in Fds(p), Sendq(p, fd) = <<>>,
           NEW q, q = RemoveSocket(p, fd)
    PROVE  Shrinks(p, q)
<1>1. Good(q) /\ Fds(q) = Fds(p) \ {fd}
  BY Removed
<1>2. PICK k \in 1..Len(p.list) : k = Index(p, fd) /\ p.list \in Seq(Socket)
  BY IndexOf
<1>3. q.list = RemoveAt(p.list, k) /\ q.sent = p.sent /\ q.wire = p.wire
  BY <1>2 DEF RemoveSocket, Good, Pool
<1>4. PICK from : from = Origin(p.list, k)
  OBVIOUS
<1>5. \A j \in DOMAIN q.list : from[j] \in DOMAIN p.list /\ q.list[j] = p.list[from[j]]
  BY <1>2, <1>3, <1>4, RemoveAtOrigin
<1>6. \A j \in DOMAIN q.list : \E i \in DOMAIN p.list :
          q.list[j].fd = p.list[i].fd /\ q.list[j].sendq = p.list[i].sendq
  BY <1>5
<1>7. \A x \in Fds(p) \ Fds(q) : Sendq(p, x) = <<>>
  BY <1>1
<1> QED BY <1>1, <1>3, <1>6, <1>7, FromList

\* Sockets that get other flags, with no stream touched.
LEMMA FlagsShrink ==
    ASSUME NEW p, Good(p), NEW q, Good(q), q.sent = p.sent, q.wire = p.wire,
           DOMAIN q.list = DOMAIN p.list,
           \A i \in DOMAIN p.list :
               q.list[i].fd = p.list[i].fd /\ q.list[i].sendq = p.list[i].sendq
    PROVE  Shrinks(p, q) /\ Fds(q) = Fds(p)
<1>1. Fds(q) = Fds(p)
  BY DEF Fds
<1>2. \A j \in DOMAIN q.list : \E i \in DOMAIN p.list :
          q.list[j].fd = p.list[i].fd /\ q.list[j].sendq = p.list[i].sendq
  OBVIOUS
<1>3. \A x \in Fds(p) \ Fds(q) : Sendq(p, x) = <<>>
  BY <1>1
<1> QED BY <1>1, <1>2, <1>3, FromList

\* What was freed is forgotten, and the streams are not.
LEMMA ForgottenShrinks ==
    ASSUME NEW p, Good(p), NEW q, q = [p EXCEPT !.freed = {}]
    PROVE  Shrinks(p, q) /\ Fds(q) = Fds(p)
<1>1. Good(q)
  BY Forgotten
<1>2. q.list = p.list /\ q.sent = p.sent /\ q.wire = p.wire
  BY DEF Good, Pool
<1> QED BY <1>1, <1>2, FlagsShrink

\* One socket gets another flag.
LEMMA FlagShrinks ==
    ASSUME NEW p, Good(p), NEW fd \in Fds(p), NEW q, Good(q), NEW s,
           s.fd = fd, s.sendq = p.list[Index(p, fd)].sendq,
           q = [p EXCEPT !.list = [p.list EXCEPT ![Index(p, fd)] = s]]
    PROVE  Shrinks(p, q)
<1>1. /\ q.list = [p.list EXCEPT ![Index(p, fd)] = s]
      /\ q.sent = p.sent /\ q.wire = p.wire
  BY DEF Good, Pool
<1>2. Index(p, fd) \in DOMAIN p.list /\ p.list[Index(p, fd)].fd = fd
  BY IndexOf
<1>3. p.list \in Seq(Socket)
  BY DEF Good, Pool
<1>4. /\ DOMAIN q.list = DOMAIN p.list
      /\ \A i \in DOMAIN p.list :
           q.list[i].fd = p.list[i].fd /\ q.list[i].sendq = p.list[i].sendq
  BY <1>1, <1>2, <1>3
<1> QED BY <1>1, <1>4, FlagsShrink

\* socketpool_close: a socket that has something to say is only marked, another
\* one is closed by its handler, which may open a stream, and is gone.
LEMMA ClosedMoves ==
    ASSUME NEW p, Good(p), WholePool(p), NEW fd \in Fds(p), NEW new \in NewSocket(p),
           NEW q, q = CloseSocket(p, fd, new)
    PROVE  Moves(p, q)
<1>0. Good(q)
  BY Closed
<1>1. CASE Sendq(p, fd) # <<>>
  <2> DEFINE s == [p.list[Index(p, fd)] EXCEPT !.closing = TRUE]
  <2>1. p.list[Index(p, fd)] \in Socket /\ p.list[Index(p, fd)].fd = fd
    BY IndexOf
  <2>2. s.fd = fd /\ s.sendq = p.list[Index(p, fd)].sendq
    BY <2>1 DEF Socket
  <2>3. q = [p EXCEPT !.list = [p.list EXCEPT ![Index(p, fd)] = s]]
    BY <1>1 DEF CloseSocket
  <2> HIDE DEF s
  <2>4. Shrinks(p, q)
    BY <1>0, <2>2, <2>3, FlagShrinks
  <2> QED BY <2>4, ShrinksMoves
<1>2. CASE Sendq(p, fd) = <<>>
  <2>1. PICK r : r = ClosedHandler(p, new)
    OBVIOUS
  <2>2. Good(r) /\ Fds(p) \subseteq Fds(r)
    BY <2>1, Handled
  <2>3. /\ WholePool(r) /\ Grows(p, r)
        /\ \A x \in Fds(p) : Sendq(r, x) = Sendq(p, x)
    BY <2>1, HandledGrows
  <2>4. q = RemoveSocket(r, fd)
    BY <1>2, <2>1 DEF CloseSocket
  <2>5. Sendq(r, fd) = <<>>
    BY <1>2, <2>3
  <2>6. Shrinks(r, q)
    BY <2>2, <2>4, <2>5, RemovedShrinks
  <2>7. Fds(r) \ Fds(q) \subseteq Fds(p)
    <3>1. Fds(q) = Fds(r) \ {fd}
      BY <2>2, <2>4, Removed
    <3> QED BY <3>1
  <2> QED BY <2>2, <2>3, <2>6, <2>7 DEF Moves
<1> QED BY <1>1, <1>2

\* A write: what has gone out gets longer by what has left the queue.
LEMMA WrittenGrows ==
    ASSUME NEW p, Good(p), WholePool(p), NEW fd \in Queued(p),
           NEW n \in 1..Len(Head(Sendq(p, fd))), NEW q, q = Written(p, fd, n)
    PROVE  WholePool(q) /\ Grows(p, q)
<1> DEFINE queue == Sendq(p, fd)
           out == p.wire[fd] \o SubSeq(Head(queue), 1, n)
           s == [p.list[Index(p, fd)] EXCEPT !.sendq = Rest(queue, n)]
<1>1. Good(q) /\ Fds(q) = Fds(p)
  BY WriteOne
<1>2. fd \in Fds(p) /\ fd \in Fd /\ Fds(p) \subseteq Fd /\ queue # <<>>
  BY StreamTypes DEF Queued
<1>3. p.list[Index(p, fd)] \in Socket /\ p.list[Index(p, fd)].fd = fd
  BY <1>2, IndexOf
<1>4. /\ q.list = [p.list EXCEPT ![Index(p, fd)] = s]
      /\ q.wire = [p.wire EXCEPT ![fd] = out]
      /\ q.sent = p.sent
  <2>1. queue = p.list[Index(p, fd)].sendq
    BY DEF Sendq
  <2>2. q = [p EXCEPT !.list = [p.list EXCEPT ![Index(p, fd)] = s],
                      !.wire = [p.wire EXCEPT ![fd] = out]]
    BY <2>1 DEF Written, Rest
  <2>3. p = [list |-> p.list, freed |-> p.freed, sent |-> p.sent, wire |-> p.wire]
    BY DEF Good, Pool
  <2> HIDE DEF s, out
  <2>4. q = [list |-> [p.list EXCEPT ![Index(p, fd)] = s], freed |-> p.freed,
             sent |-> p.sent, wire |-> [p.wire EXCEPT ![fd] = out]]
    BY <2>2, <2>3
  <2> QED BY <2>4
<1>5. s.fd = fd /\ s.sendq = Rest(queue, n)
  BY <1>3 DEF Socket
<1> HIDE DEF s
<1>6. /\ Sendq(q, fd) = Rest(queue, n)
      /\ \A x \in Fds(p) \ {fd} : Sendq(q, x) = Sendq(p, x)
  BY <1>1, <1>2, <1>4, <1>5, ChangedQueue
<1>7. q.wire[fd] = out /\ \A x \in Fd \ {fd} : q.wire[x] = p.wire[x]
  <2>1. p.wire \in [Fd -> Seq(1..MaxBytes)]
    BY DEF Good, Pool
  <2> HIDE DEF out
  <2> QED BY <1>2, <1>4, <2>1
<1>8. /\ queue \in Seq(Seq(1..MaxBytes)) /\ p.wire[fd] \in Seq(1..MaxBytes)
      /\ Len(p.wire[fd]) \in Nat
  BY <1>2, StreamTypes
<1>9. Whole(Sendq(q, fd), q.wire[fd], q.sent[fd])
  <2>1. Whole(queue, p.wire[fd], p.sent[fd])
    BY <1>2 DEF WholePool
  <2> HIDE DEF queue
  <2>2. Whole(Rest(queue, n), out, p.sent[fd])
    <3>1. n \in 1..Len(Head(queue))
      BY DEF queue
    <3> QED BY <1>2, <1>8, <2>1, <3>1, WholeWritten
  <2> QED BY <1>4, <1>6, <1>7, <2>2
<1>10. WholePool(q)
  <2> SUFFICES ASSUME NEW x \in Fds(q) PROVE Whole(Sendq(q, x), q.wire[x], q.sent[x])
    BY DEF WholePool
  <2>1. CASE x = fd
    BY <1>9, <2>1
  <2>2. CASE x # fd
    <3>1. x \in Fds(p) \ {fd} /\ x \in Fd \ {fd}
      BY <1>1, <1>2, <2>2
    <3> QED BY <1>4, <1>6, <1>7, <3>1 DEF WholePool
  <2> QED BY <2>1, <2>2
<1>11. Len(p.wire[fd]) <= Len(q.wire[fd])
  <2>1. q.wire[fd] \in Seq(1..MaxBytes) /\ Len(q.wire[fd]) \in Nat
    BY <1>1, <1>2, StreamTypes
  <2>2. Head(queue) \in Seq(1..MaxBytes)
    BY <1>2, <1>8, HeadTailProperties
  <2>3. SubSeq(Head(queue), 1, n) \in Seq(1..MaxBytes)
    <3>1. \A i \in 1..n : Head(queue)[i] \in 1..MaxBytes
      <4>1. n \in 1..Len(Head(queue)) /\ Len(Head(queue)) \in Nat
        BY <2>2, LenProperties
      <4>2. \A i \in 1..n : i \in 1..Len(Head(queue))
        BY <4>1
      <4> QED BY <2>2, <4>2, ElementOfSeq
    <3> QED BY <3>1, SubSeqProperties
  <2>4. Len(SubSeq(Head(queue), 1, n)) \in Nat
    BY <2>3, LenProperties
  <2>5. Len(out) = Len(p.wire[fd]) + Len(SubSeq(Head(queue), 1, n))
    BY <1>8, <2>3, ConcatProperties
  <2> QED BY <1>7, <1>8, <2>4, <2>5
<1>12. Grows(p, q)
  <2>1. ASSUME NEW x \in Fds(p)
        PROVE  p.sent[x] <= q.sent[x] /\ Len(p.wire[x]) <= Len(q.wire[x])
    <3>1. x \in Fd /\ p.sent[x] \in Nat /\ Len(p.wire[x]) \in Nat
      BY <1>2, StreamTypes
    <3>2. p.sent[x] <= q.sent[x]
      BY <1>4, <3>1
    <3>3. CASE x = fd
      BY <1>11, <3>2, <3>3
    <3>4. CASE x # fd
      BY <1>7, <3>1, <3>2, <3>4
    <3> QED BY <3>3, <3>4
  <2>2. \A x \in Fd \ Fds(q) : q.sent[x] = p.sent[x] /\ q.wire[x] = p.wire[x]
    BY <1>1, <1>2, <1>4, <1>7
  <2> QED BY <1>1, <2>1, <2>2 DEF Grows
<1> QED BY <1>10, <1>12

\* socketpool_sendnode: a write, and the close that waited for it.
LEMMA NodeSentMoves ==
    ASSUME NEW p, Good(p), WholePool(p), NEW fd \in Queued(p),
           NEW n \in 1..Len(Head(Sendq(p, fd))), NEW new \in NewSocket(p),
           NEW q, q = SendNode(p, fd, n, new)
    PROVE  Moves(p, q)
<1>1. PICK r : r = Written(p, fd, n)
  OBVIOUS
<1>2. Good(r) /\ Fds(r) = Fds(p)
  BY <1>1, WriteOne
<1>3. WholePool(r) /\ Grows(p, r)
  BY <1>1, WrittenGrows
<1>4. Moves(r, q)
  <2>1. q = IF fd \notin Queued(r) /\ r.list[Index(r, fd)].closing
            THEN CloseSocket(r, fd, new) ELSE r
    BY <1>1 DEF SendNode
  <2>2. fd \in Fds(r) /\ new \in NewSocket(r)
    BY <1>2 DEF Queued, NewSocket
  <2>3. CASE q = CloseSocket(r, fd, new)
    BY <1>2, <1>3, <2>2, <2>3, ClosedMoves
  <2>4. CASE q = r
    <3>1. Shrinks(r, r)
      BY DEF Shrinks
    <3> QED BY <1>2, <1>3, <2>4, <3>1, ShrinksMoves
  <2> QED BY <2>1, <2>3, <2>4
<1>5. PICK m : /\ Good(m) /\ WholePool(m) /\ Grows(r, m) /\ Shrinks(m, q)
               /\ Fds(m) \ Fds(q) \subseteq Fds(r)
  BY <1>4 DEF Moves
<1>6. Grows(p, m)
  BY <1>2, <1>3, <1>5, GrowsOn
<1> QED BY <1>2, <1>5, <1>6 DEF Moves

\* The sockets that have nothing to say are closed.
LEMMA EmptyClosedShrinks ==
    ASSUME NEW p, Good(p), NEW q, q = CloseEmpty(p)
    PROVE  Shrinks(p, q)
<1>1. Good(q) /\ Fds(q) = Queued(p)
  BY EmptyClosed
<1>2. p.list \in Seq(Socket) /\ Distinct(p.list)
  BY DEF Good, Pool
<1>3. q.list = Talking(p.list) /\ q.sent = p.sent /\ q.wire = p.wire
  BY DEF CloseEmpty, Good, Pool
<1>4. \A s : (\E i \in DOMAIN q.list : s = q.list[i])
               <=> (\E i \in DOMAIN p.list : s = p.list[i] /\ s.sendq # <<>>)
  BY <1>2, <1>3, TalkingProperties
<1>5. \A j \in DOMAIN q.list : \E i \in DOMAIN p.list :
          q.list[j].fd = p.list[i].fd /\ q.list[j].sendq = p.list[i].sendq
  <2> SUFFICES ASSUME NEW j \in DOMAIN q.list
               PROVE  \E i \in DOMAIN p.list : q.list[j] = p.list[i]
    OBVIOUS
  <2> QED BY <1>4
<1>6. \A x \in Fds(p) \ Fds(q) : Sendq(p, x) = <<>>
  BY <1>1 DEF Queued
<1> QED BY <1>1, <1>3, <1>5, <1>6, FromList

\* The sockets that are left are marked for their close.
LEMMA MarkedShrinks ==
    ASSUME NEW p, Good(p), NEW q,
           q = [p EXCEPT !.list = [i \in DOMAIN @ |-> [@[i] EXCEPT !.closing = TRUE]]]
    PROVE  Shrinks(p, q)
<1>1. Good(q)
  BY Marked
<1>2. /\ q.list = [i \in DOMAIN p.list |-> [p.list[i] EXCEPT !.closing = TRUE]]
      /\ q.sent = p.sent /\ q.wire = p.wire
  BY DEF Good, Pool
<1>3. \A i \in DOMAIN p.list : p.list[i] \in Socket
  BY LenProperties, ElementOfSeq DEF Good, Pool
<1>4. \A i \in DOMAIN p.list :
          q.list[i].fd = p.list[i].fd /\ q.list[i].sendq = p.list[i].sendq
  BY <1>2, <1>3 DEF Socket
<1>5. DOMAIN q.list = DOMAIN p.list
  BY <1>2
<1> QED BY <1>1, <1>2, <1>4, <1>5, FlagsShrink

\* A peer goes.
LEMMA PeerGoneShrinks ==
    ASSUME NEW p, Good(p), NEW fd \in Fds(p), NEW q,
           q = [p EXCEPT !.list[Index(p, fd)].gone = TRUE]
    PROVE  Shrinks(p, q)
<1> DEFINE s == [p.list[Index(p, fd)] EXCEPT !.gone = TRUE]
<1>1. Good(q)
  BY PeerGone
<1>2. p.list[Index(p, fd)] \in Socket /\ p.list[Index(p, fd)].fd = fd
  BY IndexOf
<1>3. s.fd = fd /\ s.sendq = p.list[Index(p, fd)].sendq
  BY <1>2 DEF Socket
<1>4. q = [p EXCEPT !.list = [p.list EXCEPT ![Index(p, fd)] = s]]
  OBVIOUS
<1> HIDE DEF s
<1> QED BY <1>1, <1>3, <1>4, FlagShrinks

-----------------------------------------------------------------------------
(* The steps of the program.                                               *)

SInv == IInv /\ WholePool(pool)

\* The end of a visit.
LEMMA ProceedMoves ==
    ASSUME NEW q, Good(q), Moves(pool, q), Proceed(q)
    PROVE  Moves(pool, pool')
<1>1. CASE pool' = q
  BY <1>1
<1>2. CASE pool' = [q EXCEPT !.freed = {}]
  <2>1. Shrinks(q, pool') /\ Fds(pool') = Fds(q)
    <3>1. pool'.list = q.list
      BY <1>2 DEF Good, Pool
    <3> QED BY <1>2, <3>1, ForgottenShrinks DEF Fds
  <2> QED BY <2>1, MovesOn
<1> QED BY <1>1, <1>2 DEF Proceed

\* The steps of the visit of a socket.
LEMMA SendMoves ==
    ASSUME SInv, Skip \/ Write \/ WriteFails
    PROVE  Moves(pool, pool')
<1>1. /\ Good(pool) /\ WholePool(pool) /\ loop.phase = "send"
      /\ loop.has => loop.cur \in Queued(pool)
  BY DEF SInv, IInv, VisitOK, Skip, Write, WriteFails
<1>2. CASE Skip
  <2>1. Shrinks(pool, pool)
    BY DEF Shrinks
  <2>2. Moves(pool, pool)
    BY <1>1, <2>1, ShrinksMoves
  <2> QED BY <1>1, <1>2, <2>2, ProceedMoves DEF Skip
<1>3. CASE Write
  <2>1. loop.cur \in Queued(pool)
    BY <1>1, <1>3 DEF Write, Sends
  <2>2. PICK n \in 1..Len(Head(Sendq(pool, loop.cur))), new \in Unused \cup {0} :
            Proceed(SendNode(pool, loop.cur, n, new))
    BY <1>3 DEF Write
  <2>3. PICK q : q = SendNode(pool, loop.cur, n, new)
    OBVIOUS
  <2>4. new \in NewSocket(pool)
    BY DEF Unused, NewSocket
  <2>5. Good(q)
    BY <1>1, <2>1, <2>3, <2>4, NodeSent
  <2>6. Moves(pool, q)
    BY <1>1, <2>1, <2>3, <2>4, NodeSentMoves
  <2> QED BY <2>2, <2>3, <2>5, <2>6, ProceedMoves
<1>4. CASE WriteFails
  <2>1. loop.cur \in Fds(pool) /\ 0 \in NewSocket(pool)
    BY <1>1, <1>4 DEF WriteFails, Sends, Queued, NewSocket
  <2>2. PICK q : q = CloseSocket(pool, loop.cur, 0)
    OBVIOUS
  <2>3. Good(q)
    BY <1>1, <2>1, <2>2, Closed
  <2>4. Moves(pool, q)
    BY <1>1, <2>1, <2>2, ClosedMoves
  <2>5. Proceed(q)
    BY <1>4, <2>2 DEF WriteFails
  <2> QED BY <2>3, <2>4, <2>5, ProceedMoves
<1> QED BY <1>2, <1>3, <1>4

\* The calls of clients.
LEMMA CallMoves ==
    ASSUME SInv, Call
    PROVE  Moves(pool, pool')
<1>1. Good(pool) /\ WholePool(pool)
  BY DEF SInv, IInv
<1>3. ASSUME NEW q, Good(q), WholePool(q), Grows(pool, q) PROVE Moves(pool, q)
  <2>1. Shrinks(q, q)
    BY DEF Shrinks
  <2> QED BY <1>3, <2>1 DEF Moves
<1>4. ASSUME NEW fd \in Fds(pool), NEW n \in 1..MaxNode, pool.sent[fd] + n <= MaxBytes,
             pool' = SendData(pool, fd, n)
      PROVE  Moves(pool, pool')
  <2>1. n \in Nat
    BY PoolAssumption DEF PoolAssumption
  <2>2. Good(pool')
    BY <1>1, <1>4, <2>1, Sent
  <2>3. WholePool(pool') /\ Grows(pool, pool')
    BY <1>1, <1>4, <2>1, SentGrows
  <2> QED BY <1>3, <2>2, <2>3
<1>5. ASSUME NEW fd \in Fd, pool' = AddSocket(pool, fd)
      PROVE  Moves(pool, pool')
  <2>1. Good(pool')
    BY <1>1, <1>5, Added
  <2>2. WholePool(pool') /\ Grows(pool, pool')
    BY <1>1, <1>5, AddedGrows
  <2> QED BY <1>3, <2>1, <2>2
<1>6. ASSUME NEW fd \in Fds(pool), NEW new \in Unused \cup {0},
             pool' = CloseSocket(pool, fd, new)
      PROVE  Moves(pool, pool')
  <2>1. new \in NewSocket(pool)
    BY DEF Unused, NewSocket
  <2> QED BY <1>1, <1>6, <2>1, ClosedMoves
<1> QED BY <1>4, <1>5, <1>6 DEF Call

\* The steps of the shutdown.
LEMMA ShutdownMoves ==
    ASSUME SInv, Shutdown \/ Stop \/ \E write \in SUBSET Queued(pool) : Drain(write)
    PROVE  Moves(pool, pool')
<1>1. Good(pool) /\ WholePool(pool)
  BY DEF SInv, IInv
<1>2. CASE Shutdown
  <2>1. PICK r : r = CloseEmpty(pool)
    OBVIOUS
  <2>2. Good(r) /\ Shrinks(pool, r)
    BY <1>1, <2>1, EmptyClosed, EmptyClosedShrinks
  <2>3. pool' = [r EXCEPT !.list = [i \in DOMAIN @ |-> [@[i] EXCEPT !.closing = TRUE]]]
    BY <1>2, <2>1 DEF Shutdown
  <2>4. Shrinks(r, pool')
    BY <2>2, <2>3, MarkedShrinks
  <2>5. Shrinks(pool, pool')
    BY <2>2, <2>4, ShrinksOn
  <2> QED BY <1>1, <2>5, ShrinksMoves
<1>3. CASE Stop
  <2>1. Shrinks(pool, pool')
    BY <1>1, <1>3, EmptyClosedShrinks DEF Stop
  <2> QED BY <1>1, <2>1, ShrinksMoves
<1>4. CASE \E write \in SUBSET Queued(pool) : Drain(write)
  <2>1. PICK r : r = [pool EXCEPT !.freed = {}]
    OBVIOUS
  <2>2. pool' = CloseEmpty(r)
    BY <1>4, <2>1 DEF Drain
  <2>3. Good(r)
    BY <1>1, <2>1, Forgotten
  <2>4. Shrinks(pool, r)
    BY <1>1, <2>1, ForgottenShrinks
  <2>5. Shrinks(r, pool')
    BY <2>2, <2>3, EmptyClosedShrinks
  <2>6. Shrinks(pool, pool')
    BY <2>4, <2>5, ShrinksOn
  <2> QED BY <1>1, <2>6, ShrinksMoves
<1> QED BY <1>2, <1>3, <1>4

\* Every step.
LEMMA NextMoves ==
    ASSUME SInv, [Next]_vars
    PROVE  Moves(pool, pool')
<1>1. Good(pool) /\ WholePool(pool)
  BY DEF SInv, IInv
<1>2. CASE pool' = pool
  <2>1. Shrinks(pool, pool')
    BY <1>2 DEF Shrinks
  <2> QED BY <1>1, <2>1, ShrinksMoves
<1>3. ASSUME NEW read, NEW write, Select(read, write)
      PROVE  Moves(pool, pool')
  <2>1. Shrinks(pool, pool')
    BY <1>1, <1>3, ForgottenShrinks DEF Select
  <2> QED BY <1>1, <2>1, ShrinksMoves
<1>4. ASSUME NEW fd \in Fds(pool), PeerGoes(fd)
      PROVE  Moves(pool, pool')
  <2>1. Shrinks(pool, pool')
    BY <1>1, <1>4, PeerGoneShrinks DEF PeerGoes
  <2> QED BY <1>1, <2>1, ShrinksMoves
<1>5. CASE Return \/ TimersDone \/ SigPipe \/ UNCHANGED vars
  BY <1>2, <1>5 DEF Return, TimersDone, SigPipe, vars
<1> QED BY <1>3, <1>4, <1>5, SendMoves, CallMoves, ShutdownMoves DEF Next, Loop

\* The invariant of the streams holds at the start and in every step.
LEMMA StreamsWhole ==
    ASSUME Foreign = FALSE
    PROVE  /\ Init => SInv
           /\ SInv /\ [Next]_vars => SInv'
<1>1. Init => SInv
  <2> SUFFICES ASSUME Init PROVE SInv
    OBVIOUS
  <2>1. Fds(pool) = {}
    BY DEF Init, Fds
  <2> QED BY <2>1, InitIInv DEF SInv, WholePool
<1>2. ASSUME SInv, [Next]_vars PROVE SInv'
  <2>1. IInv'
    BY <1>2, NextIInv DEF SInv
  <2>2. PICK r : Good(r) /\ WholePool(r) /\ Grows(pool, r) /\ Shrinks(r, pool')
    BY <1>2, NextMoves DEF Moves
  <2>3. WholePool(pool')
    BY <2>2, ShrinksWhole
  <2> QED BY <2>1, <2>3 DEF SInv
<1> QED BY <1>1, <1>2

-----------------------------------------------------------------------------
(* The theorems.                                                           *)

\* The numbers from 1 to n are the first n bytes.
LEMMA FirstBytes ==
    ASSUME NEW n \in Nat
    PROVE  [k \in 1..n |-> k] = Bytes(0, n)
<1> DEFINE u == [k \in 1..n |-> k]
           v == Bytes(0, n)
<1>1. n - 0 = n /\ 0 <= n /\ 0 \in Nat /\ \A k \in 1..n : 0 + k = k
  OBVIOUS
<1>2. v \in Seq(Nat) /\ Len(v) = n - 0 /\ \A k \in 1..n - 0 : v[k] = 0 + k
  BY <1>1, BytesType
<1>3. u \in Seq(Nat) /\ Len(u) = n /\ \A k \in 1..n : u[k] = k
  OBVIOUS
<1> HIDE DEF u, v
<1>4. Len(v) = n /\ \A k \in 1..n : v[k] = k
  BY <1>1, <1>2
<1>5. u = v
  BY <1>2, <1>3, <1>4, SameElements
<1> QED BY <1>5 DEF u, v

\* Fewer of the first bytes are a prefix of more of them.
LEMMA BytesPrefix ==
    ASSUME NEW m \in Nat, NEW n \in Nat, m <= n
    PROVE  Streams!IsPrefix(Bytes(0, m), Bytes(0, n))
<1>1. 0 \in Nat /\ 0 <= m /\ 0 <= n /\ m \in 0..n - 0 /\ m \in 0..m - 0 /\ 0 + m = m
      /\ m - 0 = m /\ n - 0 = n
  OBVIOUS
<1>2. Len(Bytes(0, m)) = m /\ Len(Bytes(0, n)) = n
  <2>1. Len(Bytes(0, m)) = m - 0
    BY <1>1, BytesType
  <2>2. Len(Bytes(0, n)) = n - 0
    BY <1>1, BytesType
  <2> QED BY <1>1, <2>1, <2>2
<1>3. SubSeq(Bytes(0, m), 1, m) = Bytes(0, m)
  <2>1. SubSeq(Bytes(0, m), 1, m) = Bytes(0, 0 + m)
    BY <1>1, BytesCut
  <2> QED BY <1>1, <2>1
<1>4. SubSeq(Bytes(0, n), 1, m) = Bytes(0, m)
  <2>1. SubSeq(Bytes(0, n), 1, m) = Bytes(0, 0 + m)
    BY <1>1, BytesCut
  <2> QED BY <1>1, <2>1
<1> QED BY <1>2, <1>3, <1>4 DEF Streams!IsPrefix

\* The stream of a socket, as ByteStreams has it.
Stream(p, fd) ==
    [open |-> fd \in Fds(p), sent |-> [n \in 1..p.sent[fd] |-> n], got |-> p.wire[fd]]

\* What a move makes of a stream is a step of ByteStreams.
LEMMA MoveOfStream ==
    ASSUME NEW p, Good(p), WholePool(p), NEW q, Good(q), Moves(p, q), NEW fd \in Fd,
           NEW s, s = Stream(p, fd), NEW t, t = Stream(q, fd)
    PROVE  t = s \/ Streams!Opens(s, t) \/ Streams!Flows(s, t)
<1>1. PICK r : /\ Good(r) /\ WholePool(r) /\ Grows(p, r) /\ Shrinks(r, q)
               /\ Fds(r) \ Fds(q) \subseteq Fds(p)
  BY DEF Moves
<1>2. /\ s.open = (fd \in Fds(p)) /\ s.got = p.wire[fd]
      /\ t.open = (fd \in Fds(q)) /\ t.got = r.wire[fd]
      /\ s.sent = Bytes(0, p.sent[fd]) /\ t.sent = Bytes(0, r.sent[fd])
      /\ q.sent = r.sent /\ q.wire = r.wire
  <2>1. p.sent[fd] \in Nat /\ q.sent[fd] \in Nat
    BY StreamTypes
  <2>2. /\ [n \in 1..p.sent[fd] |-> n] = Bytes(0, p.sent[fd])
        /\ [n \in 1..q.sent[fd] |-> n] = Bytes(0, q.sent[fd])
    BY <2>1, FirstBytes
  <2>3. q.sent = r.sent /\ q.wire = r.wire
    BY <1>1 DEF Shrinks
  <2> QED BY <2>2, <2>3 DEF Stream
<1>3. CASE fd \in Fds(p)
  <2>1. fd \in Fds(r) /\ p.sent[fd] <= r.sent[fd] /\ Len(p.wire[fd]) <= Len(r.wire[fd])
    BY <1>1, <1>3 DEF Grows
  <2>2. /\ Sendq(p, fd) \in Seq(Seq(1..MaxBytes)) /\ p.wire[fd] \in Seq(1..MaxBytes)
        /\ Whole(Sendq(p, fd), p.wire[fd], p.sent[fd])
    BY <1>3, StreamTypes DEF WholePool
  <2>3. /\ Sendq(r, fd) \in Seq(Seq(1..MaxBytes)) /\ r.wire[fd] \in Seq(1..MaxBytes)
        /\ Whole(Sendq(r, fd), r.wire[fd], r.sent[fd])
    BY <1>1, <2>1, StreamTypes DEF WholePool
  <2>4. /\ Len(p.wire[fd]) \in Nat /\ p.sent[fd] \in Nat
        /\ p.wire[fd] = Bytes(0, Len(p.wire[fd]))
    BY <2>2, WholeOut
  <2>5. /\ Len(r.wire[fd]) \in Nat /\ r.sent[fd] \in Nat /\ Len(r.wire[fd]) <= r.sent[fd]
        /\ r.wire[fd] = Bytes(0, Len(r.wire[fd]))
        /\ Sendq(r, fd) = <<>> => r.wire[fd] = Bytes(0, r.sent[fd])
    BY <2>3, WholeOut
  <2>6. Streams!IsPrefix(s.sent, t.sent)
    BY <1>2, <2>1, <2>4, <2>5, BytesPrefix
  <2>7. Streams!IsPrefix(s.got, t.got)
    <3>1. Streams!IsPrefix(Bytes(0, Len(p.wire[fd])), Bytes(0, Len(r.wire[fd])))
      BY <2>1, <2>4, <2>5, BytesPrefix
    <3> QED BY <1>2, <2>4, <2>5, <3>1
  <2>8. Streams!IsPrefix(t.got, t.sent)
    <3>1. Streams!IsPrefix(Bytes(0, Len(r.wire[fd])), Bytes(0, r.sent[fd]))
      BY <2>5, BytesPrefix
    <3> QED BY <1>2, <2>5, <3>1
  <2>9. t.open \/ t.got = t.sent
    <3> SUFFICES ASSUME fd \notin Fds(q) PROVE t.got = t.sent
      BY <1>2
    <3>1. Sendq(r, fd) = <<>>
      BY <1>1, <2>1 DEF Shrinks
    <3> QED BY <1>2, <2>5, <3>1
  <2> QED BY <1>2, <1>3, <2>6, <2>7, <2>8, <2>9 DEF Streams!Flows
<1>4. CASE fd \notin Fds(p) /\ fd \in Fds(r)
  <2>1. r.wire[fd] = <<>>
    BY <1>1, <1>4 DEF Grows
  <2>2. fd \in Fds(q)
    BY <1>1, <1>4
  <2> QED BY <1>2, <1>4, <2>1, <2>2 DEF Streams!Opens
<1>5. CASE fd \notin Fds(p) /\ fd \notin Fds(r)
  <2>1. p.sent[fd] = r.sent[fd] /\ p.wire[fd] = r.wire[fd]
    BY <1>1, <1>5 DEF Grows
  <2>2. fd \notin Fds(q)
    BY <1>1, <1>5 DEF Shrinks
  <2>3. q.sent = r.sent /\ q.wire = r.wire
    BY <1>2
  <2>4. q.sent[fd] = p.sent[fd] /\ q.wire[fd] = p.wire[fd]
    BY <2>1, <2>3
  <2>5. (fd \in Fds(q)) = (fd \in Fds(p))
    BY <1>5, <2>2
  <2>6. Stream(q, fd) = Stream(p, fd)
    BY ONLY <2>4, <2>5 DEF Stream
  <2> QED BY <2>6
<1> QED BY <1>3, <1>4, <1>5

\* The streams of the pool, the value that ByteStreams is about.
PoolStreams == [fd \in Fd |-> Stream(pool, fd)]

\* A step of the program is a step of ByteStreams, or none.
LEMMA NextStreams ==
    ASSUME SInv, SInv', [Next]_vars
    PROVE  \A fd \in Fd :
               \/ Stream(pool', fd) = Stream(pool, fd)
               \/ Streams!Opens(Stream(pool, fd), Stream(pool', fd))
               \/ Streams!Flows(Stream(pool, fd), Stream(pool', fd))
<1>1. Good(pool) /\ WholePool(pool) /\ Good(pool')
  BY DEF SInv, IInv
<1>2. Moves(pool, pool')
  BY NextMoves
<1> QED BY <1>1, <1>2, MoveOfStream

\* The bytes that the peer of any socket has got, and those that wait in its
\* queue, are in this order all that socketpool_send was given for it.
THEOREM NoByteIsLost ==
    ASSUME Foreign = FALSE
    PROVE  Spec => []NothingLost
<1>1. SInv => NothingLost
  <2> SUFFICES ASSUME SInv PROVE NothingLost
    OBVIOUS
  <2>1. Good(pool) /\ WholePool(pool) /\ loop \in LoopState
    BY DEF SInv, IInv
  <2>2. TypeOK
    <3>1. /\ pool.list \in Seq(Socket) /\ pool.freed \subseteq Fd
          /\ pool.sent \in [Fd -> 0..MaxBytes] /\ pool.wire \in [Fd -> Seq(1..MaxBytes)]
      BY <2>1 DEF Good, Pool
    <3>2. \A i, j \in DOMAIN pool.list : pool.list[i].fd = pool.list[j].fd => i = j
      BY <2>1 DEF Good, Distinct
    <3>3. /\ loop.phase \in Phases
          /\ loop.cur \in Fd \cup {0} /\ loop.next \in Fd \cup {0}
          /\ loop.has \in BOOLEAN /\ loop.draining \in BOOLEAN
          /\ loop.read \subseteq Fd /\ loop.write \subseteq Fd
          /\ loop.calls \in 0..MaxCalls
      BY <2>1 DEF LoopState
    <3> QED BY <3>1, <3>2, <3>3 DEF TypeOK, Socket, Phases
  <2>3. ASSUME NEW fd \in Fds(pool)
        PROVE  pool.wire[fd] \o FlattenSeq(Sendq(pool, fd)) = [n \in 1..pool.sent[fd] |-> n]
    <3>1. fd \in Fd /\ pool.sent[fd] \in Nat /\ pool.wire[fd] \in Seq(1..MaxBytes)
          /\ Sendq(pool, fd) \in Seq(Seq(1..MaxBytes))
      BY <2>1, StreamTypes
    <3>2. Whole(Sendq(pool, fd), pool.wire[fd], pool.sent[fd])
      BY <2>1 DEF WholePool
    <3>3. pool.wire[fd] \o FlattenSeq(Sendq(pool, fd)) = Bytes(0, pool.sent[fd])
      BY <3>1, <3>2, WholeFlat
    <3> QED BY <3>1, <3>3, FirstBytes
  <2> QED BY <2>2, <2>3 DEF NothingLost
<1> QED BY <1>1, StreamsWhole, PTL DEF Spec

\* The pool implements the streams it promises: a socket is closed only when
\* its peer has got everything, and what is got is a prefix of what was sent.
THEOREM PoolImplementsStreams ==
    ASSUME Foreign = FALSE
    PROVE  Spec => ImplementsStreams
<1>1. Init => Streams!Init
  <2> SUFFICES ASSUME Init
               PROVE  PoolStreams = [fd \in Fd |-> Streams!Closed]
    BY DEF Streams!Init, PoolStreams, Stream
  <2>1. /\ pool.list = <<>> /\ \A fd \in Fd : pool.sent[fd] = 0 /\ pool.wire[fd] = <<>>
    BY DEF Init
  <2>2. Fds(pool) = {}
    BY <2>1 DEF Fds
  <2>3. [n \in 1..0 |-> n] = <<>>
    OBVIOUS
  <2>4. ASSUME NEW fd \in Fd PROVE Stream(pool, fd) = Streams!Closed
    <3>1. [n \in 1..pool.sent[fd] |-> n] = <<>> /\ pool.wire[fd] = <<>>
      BY <2>1, <2>3
    <3>2. (fd \in Fds(pool)) = FALSE
      BY <2>2
    <3> QED BY ONLY <3>1, <3>2 DEF Stream, Streams!Closed
  <2> QED BY <2>4 DEF PoolStreams
<1>2. SInv /\ SInv' /\ [Next]_vars => Streams!Next
  <2> SUFFICES ASSUME SInv, SInv', [Next]_vars
               PROVE  \A fd \in Fd :
                          \/ PoolStreams'[fd] = PoolStreams[fd]
                          \/ Streams!Opens(PoolStreams[fd], PoolStreams'[fd])
                          \/ Streams!Flows(PoolStreams[fd], PoolStreams'[fd])
    BY DEF Streams!Next, PoolStreams, Stream
  <2>1. \A fd \in Fd : PoolStreams[fd] = Stream(pool, fd)
    BY DEF PoolStreams
  <2>2. \A fd \in Fd : PoolStreams'[fd] = Stream(pool', fd)
    BY DEF PoolStreams, Stream, Fds
  <2> QED BY <2>1, <2>2, NextStreams
<1> QED BY <1>1, <1>2, StreamsWhole, PTL DEF Spec, ImplementsStreams, Streams!Spec
=============================================================================
