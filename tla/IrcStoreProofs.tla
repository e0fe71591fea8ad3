--------------------------- MODULE IrcStoreProofs ---------------------------
(***************************************************************************)
(* Proofs about IrcStore, and about Seen, which extends it, for every set  *)
(* of nicknames, channels, addresses and prefixes.  One lemma says what    *)
(* each C function does to well-formed storages; one step per message      *)
(* handler puts them together.  And Calc, which shares no state with them, *)
(* is shown to be the glossary of Glossary, whatever the names, values,    *)
(* spaces and letters are.                                                 *)
(***************************************************************************)
EXTENDS Seen, Calc, ListLemmas

-----------------------------------------------------------------------------
(* Lookups and removals.                                                   *)

\* A lookup by nickname that finds something finds an element of the list that
\* carries the nickname (irclib_find_user and the member loops).
LEMMA FirstIsNamed ==
    ASSUME NEW s, NEW list \in Seq(Uid), NEW n, Named(s, list, n) # {}
    PROVE  First(s, list, n) \in Range(list) /\ s.nick[First(s, list, n)] = n
<1> DEFINE P == Named(s, list, n)
<1>1. P \in SUBSET Nat /\ P \subseteq DOMAIN list
  BY LenProperties DEF Named
<1>2. \E i \in P : \A j \in P : i <= j
  BY <1>1, LeastPosition
<1>3. (CHOOSE i \in P : \A j \in P : i <= j) \in P
  BY <1>2
<1> QED BY <1>1, <1>3 DEF First, Named, Range

\* ll_remove of a record that is in the list once.
LEMMA WithoutElement ==
    ASSUME NEW list \in Seq(Uid), IsInjective(list), NEW u \in Range(list)
    PROVE  /\ Without(list, u) \in Seq(Uid)
           /\ IsInjective(Without(list, u))
           /\ Range(Without(list, u)) = Range(list) \ {u}
<1> DEFINE k == CHOOSE i \in DOMAIN list : list[i] = u
<1>1. k \in DOMAIN list /\ list[k] = u
  BY DEF Range
<1> HIDE DEF k
<1>2. Without(list, u) = RemoveAt(list, k)
  BY DEF Without, k
<1> QED BY <1>1, <1>2, RemoveElement

\* irclib_find_user on well-formed storages.
LEMMA FoundUser ==
    ASSUME NEW s, WellFormed(s), NEW n, KnowsUser(s, n)
    PROVE  FindUser(s, n) \in Live(s) /\ s.nick[FindUser(s, n)] = n
<1>1. s.users \in Seq(Uid)
  BY DEF WellFormed, Storage
<1> QED BY <1>1, FirstIsNamed DEF KnowsUser, FindUser, Live

\* The member loops of irc_channels.c on well-formed storages.
LEMMA FoundMember ==
    ASSUME NEW s, WellFormed(s), NEW c \in Channel, NEW n, HasMember(s, c, n)
    PROVE  FindMember(s, c, n) \in On(s, c) /\ s.nick[FindMember(s, c, n)] = n
<1>1. s.members[c] \in Seq(Uid)
  BY DEF WellFormed, Storage
<1> QED BY <1>1, FirstIsNamed DEF HasMember, FindMember, On

\* The records of the lists are addresses.
LEMMA ListedUids ==
    ASSUME NEW s, WellFormed(s)
    PROVE  Live(s) \subseteq Uid /\ \A c \in Channel : On(s, c) \subseteq Uid
<1>1. s.users \in Seq(Uid) /\ \A c \in Channel : s.members[c] \in Seq(Uid)
  BY DEF WellFormed, Storage
<1> QED BY <1>1, LenProperties, ElementOfSeq DEF Live, On, Range

-----------------------------------------------------------------------------
(* The functions that change the storages.                                 *)

\* irclib_add_user: afterwards the nickname is known, and no member is touched.
LEMMA AddUserWellFormed ==
    ASSUME NEW s, WellFormed(s), ~Dangling(s), NEW n \in Nick, Room(s, n),
           NoNick \notin Nick
    PROVE  /\ WellFormed(AddUser(s, n))
           /\ ~Dangling(AddUser(s, n))
           /\ KnowsUser(AddUser(s, n), n)
           /\ AddUser(s, n).members = s.members
           /\ AddUser(s, n).joined = s.joined
           /\ \A v \in Live(s) : AddUser(s, n).nick[v] = s.nick[v]
<1>1. CASE KnowsUser(s, n)
  BY <1>1 DEF AddUser
<1>2. CASE ~KnowsUser(s, n)
  <2> DEFINE u == CHOOSE v \in Free(s) : TRUE
             t == [s EXCEPT !.users = Append(@, u), !.nick[u] = n]
  <2>1. u \in Uid /\ u \notin Live(s)
    BY <1>2 DEF Room, Free
  <2> HIDE DEF u
  <2>2. AddUser(s, n) = t
    BY <1>2 DEF AddUser, u
  <2>3. /\ Append(s.users, u) \in Seq(Uid)
        /\ Range(Append(s.users, u)) = Live(s) \cup {u}
        /\ IsInjective(Append(s.users, u))
    BY <2>1, AppendElement DEF WellFormed, Storage, Live
  <2>4. /\ t.users = Append(s.users, u)
        /\ t.nick = [s.nick EXCEPT ![u] = n]
        /\ t.chans = s.chans /\ t.joined = s.joined
        /\ t.members = s.members /\ t.prefix = s.prefix
        /\ t \in Storage
    BY <2>1, <2>3 DEF WellFormed, Storage
  <2> HIDE DEF t
  <2>5. Live(t) = Live(s) \cup {u} /\ \A c \in Channel : On(t, c) = On(s, c)
    BY <2>3, <2>4 DEF Live, On
  <2>6. ~Dangling(t)
    BY <2>5 DEF Dangling
  <2>7. \A c \in Channel : u \notin On(s, c)
    BY <2>1 DEF Dangling
  <2>8. Linked(t)
    BY <2>1, <2>4, <2>5, <2>7 DEF Linked, WellFormed, Storage
  <2>9. \A v \in Uid : v \in Live(t) <=> t.nick[v] # NoNick
    BY <2>1, <2>4, <2>5 DEF WellFormed, Storage
  <2>10. KnowsUser(t, n)
    <3>1. u \in Range(t.users)
      BY <2>3, <2>4
    <3>2. t.nick[u] = n
      BY <2>1, <2>4 DEF WellFormed, Storage
    <3> QED BY <3>1, <3>2 DEF KnowsUser, Named, Range
  <2>11. WellFormed(t)
    BY <2>3, <2>4, <2>5, <2>8, <2>9 DEF WellFormed
  <2>12. \A v \in Live(s) : t.nick[v] = s.nick[v]
    BY <2>1, <2>4, ListedUids DEF WellFormed, Storage
  <2> QED BY <2>2, <2>4, <2>6, <2>10, <2>11, <2>12
<1> QED BY <1>1, <1>2

\* A nickname is added only when no record carries it.
LEMMA AddUserNoClash ==
    ASSUME NEW s, WellFormed(s), ~Clash(s), NEW n \in Nick, Room(s, n)
    PROVE  ~Clash(AddUser(s, n))
<1>1. CASE KnowsUser(s, n)
  BY <1>1 DEF AddUser
<1>2. CASE ~KnowsUser(s, n)
  <2> DEFINE u == CHOOSE v \in Free(s) : TRUE
             t == [s EXCEPT !.users = Append(@, u), !.nick[u] = n]
  <2>1. u \in Uid /\ u \notin Live(s)
    BY <1>2 DEF Room, Free
  <2> HIDE DEF u
  <2>2. AddUser(s, n) = t
    BY <1>2 DEF AddUser, u
  <2>3. Range(Append(s.users, u)) = Live(s) \cup {u}
    BY <2>1, AppendElement DEF WellFormed, Storage, Live
  <2>4. t.users = Append(s.users, u) /\ t.nick = [s.nick EXCEPT ![u] = n]
    BY DEF WellFormed, Storage
  <2> HIDE DEF t
  <2>5. \A v \in Live(s) : s.nick[v] # n
    BY <1>2 DEF KnowsUser, Named, Live, Range
  <2>6. /\ Live(t) = Live(s) \cup {u}
        /\ t.nick[u] = n
        /\ \A v \in Live(s) : t.nick[v] = s.nick[v]
    BY <2>1, <2>3, <2>4, ListedUids DEF Live, WellFormed, Storage
  <2> QED BY <2>1, <2>2, <2>5, <2>6 DEF Clash
<1> QED BY <1>1, <1>2

\* irclib_add_channel.
LEMMA AddChannelWellFormed ==
    ASSUME NEW s, WellFormed(s), ~Dangling(s), NEW c \in Channel
    PROVE  WellFormed(AddChannel(s, c)) /\ ~Dangling(AddChannel(s, c))
<1> DEFINE t == AddChannel(s, c)
<1>1. /\ t.users = s.users /\ t.nick = s.nick /\ t.chans = s.chans
      /\ t.joined = s.joined \cup {c}
      /\ t.members = s.members /\ t.prefix = s.prefix
      /\ t \in Storage
  BY DEF AddChannel, WellFormed, Storage
<1> HIDE DEF t
<1>2. Live(t) = Live(s) /\ \A d : On(t, d) = On(s, d)
  BY <1>1 DEF Live, On
<1>3. c \notin s.joined => On(s, c) = {}
  BY EmptySeq DEF WellFormed, On, Range
<1>4. Linked(t)
  BY <1>1, <1>2, <1>3 DEF Linked, WellFormed
<1>5. WellFormed(t)
  BY <1>1, <1>2, <1>4 DEF WellFormed
<1>6. ~Dangling(t)
  BY <1>2 DEF Dangling
<1> QED BY <1>5, <1>6 DEF t

\* irclib_add_channel_user, for a member the channel has and for a new one.
LEMMA AddChannelUserWellFormed ==
    ASSUME NEW s, WellFormed(s), ~Dangling(s), NEW c \in Channel, NEW n \in Nick,
           Room(s, n), NoNick \notin Nick
    PROVE  WellFormed(AddChannelUser(s, c, n)) /\ ~Dangling(AddChannelUser(s, c, n))
<1>1. CASE c \notin s.joined
  BY <1>1 DEF AddChannelUser
<1>2. CASE c \in s.joined /\ HasMember(s, c, n)
  <2> DEFINE t == [s EXCEPT !.prefix[c][FindMember(s, c, n)] = NoPrefix]
  <2>1. AddChannelUser(s, c, n) = t
    BY <1>2 DEF AddChannelUser
  <2>2. FindMember(s, c, n) \in Uid
    BY <1>2, FoundMember, ListedUids
  <2>3. /\ t.users = s.users /\ t.nick = s.nick /\ t.chans = s.chans
        /\ t.joined = s.joined /\ t.members = s.members
        /\ t \in Storage
    BY <2>2 DEF WellFormed, Storage
  <2> HIDE DEF t
  <2>4. Live(t) = Live(s) /\ \A d : On(t, d) = On(s, d)
    BY <2>3 DEF Live, On
  <2> QED BY <2>1, <2>3, <2>4 DEF WellFormed, Linked, Dangling
<1>3. CASE c \in s.joined /\ ~HasMember(s, c, n)
  <2> DEFINE a == AddUser(s, n)
             u == FindUser(a, n)
             t == [a EXCEPT !.members[c] = Append(@, u),
                            !.chans[u] = @ \cup {c},
                            !.prefix[c][u] = NoPrefix]
  <2>1. AddChannelUser(s, c, n) = t
    BY <1>3 DEF AddChannelUser
  <2> HIDE DEF t
  <2>2. /\ WellFormed(a) /\ ~Dangling(a) /\ KnowsUser(a, n)
        /\ a.members = s.members /\ a.joined = s.joined
        /\ \A v \in Live(s) : a.nick[v] = s.nick[v]
    BY AddUserWellFormed
  <2> HIDE DEF a
  <2>3. u \in Live(a) /\ a.nick[u] = n /\ u \in Uid
    BY <2>2, FoundUser, ListedUids
  <2> HIDE DEF u
  <2>4. u \notin On(a, c)
    <3> SUFFICES ASSUME u \in On(a, c) PROVE FALSE
      OBVIOUS
    <3>1. On(s, c) \subseteq Live(s) /\ u \in On(s, c)
      BY <2>2 DEF On, Dangling
    <3>2. s.nick[u] = n
      BY <2>2, <2>3, <3>1
    <3> QED BY <1>3, <3>1, <3>2 DEF HasMember, Named, On, Range
  <2>5. /\ Append(a.members[c], u) \in Seq(Uid)
        /\ Range(Append(a.members[c], u)) = On(a, c) \cup {u}
        /\ IsInjective(Append(a.members[c], u))
    BY <2>2, <2>3, <2>4, AppendElement DEF WellFormed, Storage, On
  <2>6. /\ t.users = a.users /\ t.nick = a.nick
        /\ t.chans = [a.chans EXCEPT ![u] = @ \cup {c}]
        /\ t.joined = a.joined
        /\ t.members = [a.members EXCEPT ![c] = Append(a.members[c], u)]
        /\ t \in Storage
    BY <2>2, <2>3, <2>5 DEF t, WellFormed, Storage
  <2>7. /\ Live(t) = Live(a)
        /\ \A d \in Channel : On(t, d) = IF d = c THEN On(a, c) \cup {u} ELSE On(a, d)
    BY <2>2, <2>5, <2>6 DEF Live, On, WellFormed, Storage
  <2>8. ~Dangling(t)
    BY <2>2, <2>3, <2>7 DEF Dangling
  <2>9. Linked(t)
    <3> SUFFICES ASSUME NEW v \in Live(t), NEW d \in Channel
                 PROVE  d \in t.chans[v] <=> d \in t.joined /\ v \in On(t, d)
      BY <2>2, <2>6, <2>7, ListedUids DEF Linked, WellFormed, Storage
    <3>1. v \in Uid /\ (d \in a.chans[v] <=> d \in a.joined /\ v \in On(a, d))
      BY <2>2, <2>7, ListedUids DEF Linked, WellFormed
    <3>2. t.chans[v] = IF v = u THEN a.chans[v] \cup {c} ELSE a.chans[v]
      BY <2>2, <2>6, <3>1 DEF WellFormed, Storage
    <3>3. c \in t.joined /\ t.joined = a.joined
      BY <1>3, <2>2, <2>6
    <3> QED BY <2>7, <3>1, <3>2, <3>3
  <2>10. \A d \in Channel : IsInjective(t.members[d])
    BY <2>2, <2>5, <2>6 DEF WellFormed, Storage
  <2>11. \A d \in Channel \ t.joined : t.members[d] = <<>>
    BY <1>3, <2>2, <2>6 DEF WellFormed, Storage
  <2>12. \A v \in Uid \ Live(t) : t.chans[v] = {}
    BY <2>2, <2>3, <2>6, <2>7 DEF WellFormed, Storage
  <2>13. WellFormed(t)
    BY <2>2, <2>6, <2>7, <2>9, <2>10, <2>11, <2>12 DEF WellFormed
  <2> QED BY <2>1, <2>8, <2>13
<1> QED BY <1>1, <1>2, <1>3

\* irclib_remove_channel_user: the member and its back link go together.
LEMMA RemoveChannelUserWellFormed ==
    ASSUME NEW s, WellFormed(s), ~Dangling(s), NEW c \in Channel, NEW n
    PROVE  /\ WellFormed(RemoveChannelUser(s, c, n))
           /\ ~Dangling(RemoveChannelUser(s, c, n))
<1>1. CASE ~HasMember(s, c, n)
  BY <1>1 DEF RemoveChannelUser
<1>2. CASE HasMember(s, c, n)
  <2> DEFINE u == FindMember(s, c, n)
             t == [s EXCEPT !.members[c] = Without(@, u),
                            !.chans[u] = @ \ {c},
                            !.prefix[c][u] = NoPrefix]
  <2>1. RemoveChannelUser(s, c, n) = t
    BY <1>2 DEF RemoveChannelUser
  <2>2. u \in On(s, c) /\ u \in Uid /\ u \in Live(s)
    BY <1>2, FoundMember, ListedUids DEF Dangling
  <2> HIDE DEF u
  <2>3. /\ Without(s.members[c], u) \in Seq(Uid)
        /\ Range(Without(s.members[c], u)) = On(s, c) \ {u}
        /\ IsInjective(Without(s.members[c], u))
    BY <2>2, WithoutElement DEF WellFormed, Storage, On
  <2>4. /\ t.users = s.users /\ t.nick = s.nick
        /\ t.chans = [s.chans EXCEPT ![u] = @ \ {c}]
        /\ t.joined = s.joined
        /\ t.members = [s.members EXCEPT ![c] = Without(s.members[c], u)]
        /\ t \in Storage
    BY <2>2, <2>3 DEF WellFormed, Storage
  <2> HIDE DEF t
  <2>5. /\ Live(t) = Live(s)
        /\ \A d \in Channel : On(t, d) = IF d = c THEN On(s, c) \ {u} ELSE On(s, d)
    BY <2>3, <2>4 DEF Live, On, WellFormed, Storage
  <2>6. ~Dangling(t)
    BY <2>5 DEF Dangling
  <2>7. Linked(t)
    <3> SUFFICES ASSUME NEW v \in Live(t), NEW d \in Channel
                 PROVE  d \in t.chans[v] <=> d \in t.joined /\ v \in On(t, d)
      BY <2>4, <2>5, ListedUids DEF Linked, WellFormed, Storage
    <3>1. v \in Uid /\ (d \in s.chans[v] <=> d \in s.joined /\ v \in On(s, d))
      BY <2>5, ListedUids DEF Linked, WellFormed
    <3>2. t.chans[v] = IF v = u THEN s.chans[v] \ {c} ELSE s.chans[v]
      BY <2>4, <3>1 DEF WellFormed, Storage
    <3> QED BY <2>4, <2>5, <3>1, <3>2
  <2>8. \A d \in Channel : IsInjective(t.members[d])
    BY <2>3, <2>4 DEF WellFormed, Storage
  <2>9. \A d \in Channel \ t.joined : t.members[d] = <<>>
    BY <1>2, <2>4 DEF WellFormed, Storage, HasMember
  <2>10. \A v \in Uid \ Live(t) : t.chans[v] = {}
    BY <2>2, <2>4, <2>5 DEF WellFormed, Storage
  <2>11. WellFormed(t)
    BY <2>4, <2>5, <2>7, <2>8, <2>9, <2>10 DEF WellFormed
  <2> QED BY <2>1, <2>6, <2>11
<1> QED BY <1>1, <1>2

\* irclib_remove_channel: the channel goes from the list of each of its members.
LEMMA RemoveChannelWellFormed ==
    ASSUME NEW s, WellFormed(s), ~Dangling(s), NEW c \in Channel
    PROVE  WellFormed(RemoveChannel(s, c)) /\ ~Dangling(RemoveChannel(s, c))
<1> DEFINE t == RemoveChannel(s, c)
<1>1. /\ t.users = s.users /\ t.nick = s.nick
      /\ t.chans = [u \in Uid |-> IF u \in On(s, c) THEN s.chans[u] \ {c} ELSE s.chans[u]]
      /\ t.joined = s.joined \ {c}
      /\ t.members = [s.members EXCEPT ![c] = <<>>]
      /\ t \in Storage
  BY EmptySeq DEF RemoveChannel, WellFormed, Storage
<1> HIDE DEF t
<1>2. /\ Live(t) = Live(s)
      /\ \A d \in Channel : On(t, d) = IF d = c THEN {} ELSE On(s, d)
  <2>1. Range(<<>>) = {}
    BY EmptySeq DEF Range
  <2> QED BY <1>1, <2>1 DEF Live, On, WellFormed, Storage
<1>3. ~Dangling(t)
  BY <1>2 DEF Dangling
<1>4. Linked(t)
  <2> SUFFICES ASSUME NEW v \in Live(t), NEW d \in Channel
               PROVE  d \in t.chans[v] <=> d \in t.joined /\ v \in On(t, d)
    BY <1>1, <1>2, ListedUids DEF Linked, WellFormed, Storage
  <2>1. v \in Uid /\ (d \in s.chans[v] <=> d \in s.joined /\ v \in On(s, d))
    BY <1>2, ListedUids DEF Linked, WellFormed
  <2> QED BY <1>1, <1>2, <2>1
<1>5. \A d \in Channel : IsInjective(t.members[d])
  <2>1. IsInjective(<<>>)
    BY DEF IsInjective
  <2> QED BY <1>1, <2>1 DEF WellFormed, Storage
<1>6. \A d \in Channel \ t.joined : t.members[d] = <<>>
  BY <1>1 DEF WellFormed, Storage
<1>7. \A v \in Uid \ Live(t) : t.chans[v] = {}
  BY <1>1, <1>2 DEF WellFormed, Storage
<1>8. WellFormed(t)
  BY <1>1, <1>2, <1>4, <1>5, <1>6, <1>7 DEF WellFormed
<1> QED BY <1>3, <1>8 DEF t

\* irclib_remove_user: from each of its channels goes the first member that
\* carries its nickname, and the back link of that member, whoever it is.  That
\* no member is left pointing at the freed record needs unique nicknames.
LEMMA RemoveUserWellFormed ==
    ASSUME NEW s, WellFormed(s), ~Dangling(s), NEW u \in Live(s)
    PROVE  /\ WellFormed(RemoveUser(s, u))
           /\ ~Clash(s) => ~Dangling(RemoveUser(s, u))
<1> DEFINE t == RemoveUser(s, u)
           n == s.nick[u]
           left == {c \in s.chans[u] : HasMember(s, c, n)}
           dropped(c) == FindMember(s, c, n)
<1>0. u \in Uid
  BY ListedUids
<1>1. /\ t.users = Without(s.users, u)
      /\ t.nick = [s.nick EXCEPT ![u] = NoNick]
      /\ t.chans = [v \in Uid |-> IF v = u THEN {}
                                   ELSE s.chans[v] \ {c \in left : dropped(c) = v}]
      /\ t.joined = s.joined
      /\ t.members = [c \in Channel |-> IF c \in left
                                         THEN Without(s.members[c], dropped(c))
                                         ELSE s.members[c]]
      /\ t.prefix = [c \in Channel |-> IF c \in left
                                        THEN [s.prefix[c] EXCEPT ![dropped(c)] = NoPrefix]
                                        ELSE s.prefix[c]]
      /\ t = [users |-> t.users, nick |-> t.nick, chans |-> t.chans,
              joined |-> t.joined, members |-> t.members, prefix |-> t.prefix]
  BY DEF RemoveUser
<1>2. \A c \in left : /\ c \in Channel /\ c \in s.joined
                      /\ dropped(c) \in On(s, c) /\ dropped(c) \in Uid
                      /\ s.nick[dropped(c)] = n
  <2> SUFFICES ASSUME NEW c \in left
               PROVE  /\ c \in Channel /\ c \in s.joined
                      /\ dropped(c) \in On(s, c) /\ dropped(c) \in Uid
                      /\ s.nick[dropped(c)] = n
    OBVIOUS
  <2>1. c \in Channel /\ HasMember(s, c, n)
    BY <1>0 DEF WellFormed, Storage
  <2>2. dropped(c) \in On(s, c) /\ s.nick[dropped(c)] = n
    BY <2>1, FoundMember
  <2> QED BY <2>1, <2>2, ListedUids DEF HasMember
<1>3. /\ Without(s.users, u) \in Seq(Uid)
      /\ IsInjective(Without(s.users, u))
      /\ Range(Without(s.users, u)) = Live(s) \ {u}
  BY WithoutElement DEF WellFormed, Storage, Live
<1>4. \A c \in left : /\ Without(s.members[c], dropped(c)) \in Seq(Uid)
                      /\ IsInjective(Without(s.members[c], dropped(c)))
                      /\ Range(Without(s.members[c], dropped(c))) = On(s, c) \ {dropped(c)}
  BY <1>2, WithoutElement DEF WellFormed, Storage, On
<1> HIDE DEF t, left, dropped, n
<1>5. /\ Live(t) = Live(s) \ {u}
      /\ \A c \in Channel : On(t, c) = IF c \in left THEN On(s, c) \ {dropped(c)}
                                                     ELSE On(s, c)
  BY <1>1, <1>3, <1>4 DEF Live, On
<1>6. t \in Storage
  <2>1. t.nick \in [Uid -> Nick \cup {NoNick}]
    BY <1>0, <1>1 DEF WellFormed, Storage
  <2>2. t.chans \in [Uid -> SUBSET Channel]
    BY <1>1 DEF WellFormed, Storage
  <2>3. t.members \in [Channel -> Seq(Uid)]
    BY <1>1, <1>4 DEF WellFormed, Storage
  <2>4. t.prefix \in [Channel -> [Uid -> Prefix \cup {NoPrefix}]]
    BY <1>1, <1>2 DEF WellFormed, Storage
  <2>5. t.joined \in SUBSET Channel
    BY <1>1 DEF WellFormed, Storage
  <2> QED BY <1>1, <1>3, <2>1, <2>2, <2>3, <2>4, <2>5 DEF Storage
<1>7. Linked(t)
  <2> SUFFICES ASSUME NEW v \in Live(t), NEW d \in Channel
               PROVE  d \in t.chans[v] <=> d \in t.joined /\ v \in On(t, d)
    BY <1>5, <1>6, ListedUids DEF Linked, Storage
  <2>1. /\ v \in Uid /\ v # u
        /\ d \in s.chans[v] <=> d \in s.joined /\ v \in On(s, d)
    BY <1>5, ListedUids DEF Linked, WellFormed
  <2>2. d \in t.chans[v] <=> d \in s.chans[v] /\ ~(d \in left /\ dropped(d) = v)
    BY <1>1, <2>1
  <2> QED BY <1>1, <1>5, <2>1, <2>2
<1>8. \A v \in Uid : v \in Live(t) <=> t.nick[v] # NoNick
  BY <1>0, <1>1, <1>5 DEF WellFormed, Storage
<1>9. \A c \in Channel : IsInjective(t.members[c])
  BY <1>1, <1>4 DEF WellFormed
<1>10. \A c \in Channel \ t.joined : t.members[c] = <<>>
  BY <1>1, <1>2 DEF WellFormed
<1>11. \A v \in Uid \ Live(t) : t.chans[v] = {}
  BY <1>1, <1>5 DEF WellFormed
<1>12. WellFormed(t)
  BY <1>1, <1>3, <1>6, <1>7, <1>8, <1>9, <1>10, <1>11 DEF WellFormed
<1>13. ASSUME ~Clash(s) PROVE ~Dangling(t)
  <2> SUFFICES ASSUME NEW c \in Channel PROVE On(t, c) \subseteq Live(s) \ {u}
    BY <1>5 DEF Dangling
  <2>1. CASE u \in On(s, c)
    <3>1. c \in s.joined
      BY <2>1, EmptySeq DEF WellFormed, On, Range
    <3>2. HasMember(s, c, n)
      BY <2>1, <3>1 DEF HasMember, Named, On, Range, n
    <3>3. c \in left
      BY <2>1, <3>1, <3>2 DEF left, WellFormed, Linked
    <3>4. dropped(c) = u
      BY <1>2, <1>13, <3>3 DEF Clash, Dangling, n
    <3> QED BY <1>5, <3>3, <3>4 DEF Dangling
  <2>2. CASE u \notin On(s, c)
    BY <1>5, <2>2 DEF Dangling
  <2> QED BY <2>1, <2>2
<1> QED BY <1>12, <1>13 DEF t

\* irclib_rename_user.
LEMMA RenameUserWellFormed ==
    ASSUME NEW s, WellFormed(s), ~Dangling(s), NEW u \in Live(s), NEW n \in Nick,
           NoNick \notin Nick
    PROVE  WellFormed(RenameUser(s, u, n)) /\ ~Dangling(RenameUser(s, u, n))
<1> DEFINE t == RenameUser(s, u, n)
<1>0. u \in Uid
  BY ListedUids
<1>1. /\ t.users = s.users /\ t.chans = s.chans /\ t.joined = s.joined
      /\ t.members = s.members /\ t.prefix = s.prefix
      /\ t.nick = [s.nick EXCEPT ![u] = n]
      /\ t \in Storage
  BY <1>0 DEF RenameUser, WellFormed, Storage
<1> HIDE DEF t
<1>2. Live(t) = Live(s) /\ \A d : On(t, d) = On(s, d)
  BY <1>1 DEF Live, On
<1>3. \A v \in Uid : v \in Live(t) <=> t.nick[v] # NoNick
  BY <1>0, <1>1, <1>2 DEF WellFormed, Storage
<1> QED BY <1>1, <1>2, <1>3 DEF WellFormed, Linked, Dangling, t

\* irclib_change_user_prefix.
LEMMA ChangePrefixWellFormed ==
    ASSUME NEW s, WellFormed(s), ~Dangling(s), NEW c \in Channel, NEW n,
           NEW p \in Prefix \cup {NoPrefix}
    PROVE  WellFormed(ChangePrefix(s, c, n, p)) /\ ~Dangling(ChangePrefix(s, c, n, p))
<1>1. CASE ~HasMember(s, c, n)
  BY <1>1 DEF ChangePrefix
<1>2. CASE HasMember(s, c, n)
  <2> DEFINE t == [s EXCEPT !.prefix[c][FindMember(s, c, n)] = p]
  <2>1. ChangePrefix(s, c, n, p) = t
    BY <1>2 DEF ChangePrefix
  <2>2. FindMember(s, c, n) \in Uid
    BY <1>2, FoundMember, ListedUids
  <2>3. /\ t.users = s.users /\ t.nick = s.nick /\ t.chans = s.chans
        /\ t.joined = s.joined /\ t.members = s.members
        /\ t \in Storage
    BY <2>2 DEF WellFormed, Storage
  <2> HIDE DEF t
  <2>4. Live(t) = Live(s) /\ \A d : On(t, d) = On(s, d)
    BY <2>3 DEF Live, On
  <2> QED BY <2>1, <2>3, <2>4 DEF WellFormed, Linked, Dangling
<1> QED BY <1>1, <1>2

-----------------------------------------------------------------------------
(* The entries of the channels: nicknames with their prefixes.             *)

\* A channel has a member of a name exactly when one of its members carries it,
\* and without a clash of nicknames the lookup finds that one and no other.
LEMMA MemberOfName ==
    ASSUME NEW s, WellFormed(s), ~Dangling(s), NEW c \in Channel, NEW n
    PROVE  /\ HasMember(s, c, n) <=> \E u \in On(s, c) : s.nick[u] = n
           /\ HasMember(s, c, n) /\ ~Clash(s) =>
                \A v \in On(s, c) : s.nick[v] = n <=> v = FindMember(s, c, n)
<1>1. (\E u \in On(s, c) : s.nick[u] = n) => c \in s.joined
  BY EmptySeq DEF WellFormed, On, Range
<1>2. HasMember(s, c, n) <=> \E u \in On(s, c) : s.nick[u] = n
  BY <1>1 DEF HasMember, Named, On, Range
<1>3. HasMember(s, c, n) => FindMember(s, c, n) \in On(s, c) /\ s.nick[FindMember(s, c, n)] = n
  BY FoundMember
<1> QED BY <1>2, <1>3 DEF Clash, Dangling

\* Storages with the same members have the same entries.
LEMMA SameEntries ==
    ASSUME NEW s, NEW t, NEW c \in Channel, t.members[c] = s.members[c],
           \A u \in On(s, c) : t.nick[u] = s.nick[u] /\ t.prefix[c][u] = s.prefix[c][u],
           NEW n, NEW p
    PROVE  Entry(t, c, n, p) <=> Entry(s, c, n, p)
BY DEF Entry, On

\* irclib_add_user changes no entry.
LEMMA AddUserEntries ==
    ASSUME NEW s, WellFormed(s), ~Dangling(s), NEW n \in Nick, Room(s, n),
           NoNick \notin Nick, NEW c \in Channel, NEW m, NEW p
    PROVE  Entry(AddUser(s, n), c, m, p) <=> Entry(s, c, m, p)
<1>1. AddUser(s, n).members = s.members /\ \A v \in Live(s) : AddUser(s, n).nick[v] = s.nick[v]
  BY AddUserWellFormed
<1>2. AddUser(s, n).prefix = s.prefix
  <2> DEFINE u == CHOOSE v \in Free(s) : TRUE
  <2> HIDE DEF u
  <2>1. [s EXCEPT !.users = Append(@, u), !.nick[u] = n].prefix = s.prefix
    BY DEF WellFormed, Storage
  <2> QED BY <2>1 DEF AddUser, u
<1> QED BY <1>1, <1>2, SameEntries DEF Dangling

\* irclib_add_channel changes none.
LEMMA AddChannelEntries ==
    ASSUME NEW s, WellFormed(s), NEW d \in Channel, NEW c \in Channel, NEW m, NEW p
    PROVE  Entry(AddChannel(s, d), c, m, p) <=> Entry(s, c, m, p)
<1>1. /\ AddChannel(s, d).members = s.members /\ AddChannel(s, d).nick = s.nick
      /\ AddChannel(s, d).prefix = s.prefix
  BY DEF AddChannel, WellFormed, Storage
<1> QED BY <1>1, SameEntries

\* irclib_add_channel_user: the nickname has one entry, without a prefix.
LEMMA AddChannelUserEntries ==
    ASSUME NEW s, WellFormed(s), ~Dangling(s), ~Clash(s), NEW d \in Channel, NEW n \in Nick,
           Room(s, n), NoNick \notin Nick, d \in s.joined, NEW c \in Channel, NEW m, NEW p
    PROVE  Entry(AddChannelUser(s, d, n), c, m, p) <=>
             IF c = d /\ m = n THEN p = NoPrefix ELSE Entry(s, c, m, p)
<1>1. CASE HasMember(s, d, n)
  <2> DEFINE u == FindMember(s, d, n)
             t == [s EXCEPT !.prefix[d][u] = NoPrefix]
  <2>1. AddChannelUser(s, d, n) = t
    BY <1>1 DEF AddChannelUser
  <2>2. u \in On(s, d) /\ u \in Uid /\ s.nick[u] = n
    BY <1>1, FoundMember, ListedUids
  <2>3. \A v \in On(s, d) : s.nick[v] = n <=> v = u
    BY <1>1, MemberOfName
  <2> HIDE DEF u
  <2>4. /\ t.members = s.members /\ t.nick = s.nick
        /\ t.prefix = [s.prefix EXCEPT ![d] = [s.prefix[d] EXCEPT ![u] = NoPrefix]]
    BY DEF WellFormed, Storage
  <2>5. s.prefix \in [Channel -> [Uid -> Prefix \cup {NoPrefix}]]
    BY DEF WellFormed, Storage
  <2> HIDE DEF t
  <2>6. \A v \in Uid : t.prefix[c][v] = IF c = d /\ v = u THEN NoPrefix ELSE s.prefix[c][v]
    BY <2>2, <2>4, <2>5
  <2>7. On(t, c) = On(s, c) /\ On(s, c) \subseteq Uid
    BY <2>4, ListedUids DEF On
  <2> QED BY <2>1, <2>2, <2>3, <2>4, <2>6, <2>7 DEF Entry
<1>2. CASE ~HasMember(s, d, n)
  <2> DEFINE a == AddUser(s, n)
             u == FindUser(a, n)
             t == [a EXCEPT !.members[d] = Append(@, u),
                            !.chans[u] = @ \cup {d},
                            !.prefix[d][u] = NoPrefix]
  <2>1. AddChannelUser(s, d, n) = t
    BY <1>2 DEF AddChannelUser
  <2> HIDE DEF t
  <2>2. WellFormed(a) /\ ~Dangling(a) /\ KnowsUser(a, n) /\ a.members = s.members
    BY AddUserWellFormed
  <2>3. \A k, q : Entry(a, c, k, q) <=> Entry(s, c, k, q)
    BY AddUserEntries
  <2>4. ~\E v \in On(a, d) : a.nick[v] = n
    <3>1. ~\E v \in On(s, d) : s.nick[v] = n
      BY <1>2, MemberOfName
    <3>2. \A v \in On(s, d) : a.nick[v] = s.nick[v]
      BY AddUserWellFormed DEF Dangling
    <3> QED BY <2>2, <3>1, <3>2 DEF On
  <2> HIDE DEF a
  <2>5. u \in Live(a) /\ a.nick[u] = n /\ u \in Uid
    BY <2>2, FoundUser, ListedUids
  <2> HIDE DEF u
  <2>6. /\ Append(a.members[d], u) \in Seq(Uid)
        /\ Range(Append(a.members[d], u)) = On(a, d) \cup {u}
    BY <2>2, <2>5, AppendElement DEF WellFormed, Storage, On
  <2>7. /\ t.nick = a.nick
        /\ t.members = [a.members EXCEPT ![d] = Append(a.members[d], u)]
        /\ t.prefix = [a.prefix EXCEPT ![d] = [a.prefix[d] EXCEPT ![u] = NoPrefix]]
    BY <2>2 DEF t, WellFormed, Storage
  <2>8. On(t, c) = IF c = d THEN On(a, d) \cup {u} ELSE On(a, c)
    BY <2>2, <2>6, <2>7 DEF On, WellFormed, Storage
  <2>9. a.prefix \in [Channel -> [Uid -> Prefix \cup {NoPrefix}]]
    BY <2>2 DEF WellFormed, Storage
  <2>10. \A v \in Uid : t.prefix[c][v] = IF c = d /\ v = u THEN NoPrefix ELSE a.prefix[c][v]
    BY <2>5, <2>7, <2>9
  <2>11. On(a, c) \subseteq Uid
    BY <2>2, ListedUids
  <2>12. Entry(t, c, m, p) <=> IF c = d /\ m = n THEN p = NoPrefix ELSE Entry(a, c, m, p)
    BY <2>4, <2>5, <2>7, <2>8, <2>10, <2>11 DEF Entry
  <2> QED BY <2>1, <2>3, <2>12
<1> QED BY <1>1, <1>2

\* irclib_remove_channel_user: the nickname has no entry.
LEMMA RemoveChannelUserEntries ==
    ASSUME NEW s, WellFormed(s), ~Dangling(s), ~Clash(s), NEW d \in Channel, NEW n,
           NEW c \in Channel, NEW m, NEW p
    PROVE  Entry(RemoveChannelUser(s, d, n), c, m, p) <=>
             ~(c = d /\ m = n) /\ Entry(s, c, m, p)
<1>1. CASE ~HasMember(s, d, n)
  BY <1>1, MemberOfName DEF RemoveChannelUser, Entry
<1>2. CASE HasMember(s, d, n)
  <2> DEFINE u == FindMember(s, d, n)
             t == [s EXCEPT !.members[d] = Without(@, u),
                            !.chans[u] = @ \ {d},
                            !.prefix[d][u] = NoPrefix]
  <2>1. RemoveChannelUser(s, d, n) = t
    BY <1>2 DEF RemoveChannelUser
  <2>2. u \in On(s, d) /\ u \in Uid /\ s.nick[u] = n
    BY <1>2, FoundMember, ListedUids
  <2>3. \A v \in On(s, d) : s.nick[v] = n <=> v = u
    BY <1>2, MemberOfName
  <2> HIDE DEF u
  <2>4. Range(Without(s.members[d], u)) = On(s, d) \ {u}
    BY <2>2, WithoutElement DEF WellFormed, Storage, On
  <2>5. /\ t.nick = s.nick
        /\ t.members = [s.members EXCEPT ![d] = Without(s.members[d], u)]
        /\ t.prefix = [s.prefix EXCEPT ![d] = [s.prefix[d] EXCEPT ![u] = NoPrefix]]
    BY DEF WellFormed, Storage
  <2> HIDE DEF t
  <2>6. On(t, c) = IF c = d THEN On(s, d) \ {u} ELSE On(s, c)
    BY <2>4, <2>5 DEF On, WellFormed, Storage
  <2>7. s.prefix \in [Channel -> [Uid -> Prefix \cup {NoPrefix}]] /\ On(s, c) \subseteq Uid
    BY ListedUids DEF WellFormed, Storage
  <2>8. \A v \in Uid : ~(c = d /\ v = u) => t.prefix[c][v] = s.prefix[c][v]
    BY <2>2, <2>5, <2>7
  <2> QED BY <2>1, <2>2, <2>3, <2>5, <2>6, <2>7, <2>8 DEF Entry
<1> QED BY <1>1, <1>2

\* irclib_remove_channel: the channel has no entry.
LEMMA RemoveChannelEntries ==
    ASSUME NEW s, WellFormed(s), NEW d \in Channel, NEW c \in Channel, NEW m, NEW p
    PROVE  Entry(RemoveChannel(s, d), c, m, p) <=> c # d /\ Entry(s, c, m, p)
<1> DEFINE t == RemoveChannel(s, d)
<1>1. /\ t.nick = s.nick /\ t.members = [s.members EXCEPT ![d] = <<>>]
      /\ t.prefix = [s.prefix EXCEPT ![d] = [u \in Uid |-> NoPrefix]]
  BY DEF RemoveChannel, WellFormed, Storage
<1> HIDE DEF t
<1>2. On(t, c) = IF c = d THEN {} ELSE On(s, c)
  BY <1>1, EmptySeq DEF On, Range, WellFormed, Storage
<1>3. c # d => t.prefix[c] = s.prefix[c]
  BY <1>1 DEF WellFormed, Storage
<1>4. Entry(t, c, m, p) <=> c # d /\ Entry(s, c, m, p)
  BY <1>1, <1>2, <1>3 DEF Entry
<1> QED BY <1>4 DEF t

\* irclib_remove_user: the nickname has no entry in any channel.
LEMMA RemoveUserEntries ==
    ASSUME NEW s, WellFormed(s), ~Dangling(s), ~Clash(s), NEW u \in Live(s),
           NEW c \in Channel, NEW m, NEW p
    PROVE  Entry(RemoveUser(s, u), c, m, p) <=> m # s.nick[u] /\ Entry(s, c, m, p)
<1> DEFINE t == RemoveUser(s, u)
           n == s.nick[u]
           left == {d \in s.chans[u] : HasMember(s, d, n)}
           dropped(d) == FindMember(s, d, n)
<1>1. /\ t.nick = [s.nick EXCEPT ![u] = NoNick]
      /\ t.members = [d \in Channel |-> IF d \in left THEN Without(s.members[d], dropped(d))
                                                      ELSE s.members[d]]
      /\ t.prefix = [d \in Channel |-> IF d \in left
                                        THEN [s.prefix[d] EXCEPT ![dropped(d)] = NoPrefix]
                                        ELSE s.prefix[d]]
  BY DEF RemoveUser
<1>2. u \in Uid /\ On(s, c) \subseteq Uid /\ On(s, c) \subseteq Live(s)
  BY ListedUids DEF Dangling
<1>3. \A v \in On(s, c) : s.nick[v] = n <=> v = u
  BY <1>2 DEF Clash
<1>4. c \in left <=> u \in On(s, c)
  <2>1. u \in On(s, c) => c \in s.joined
    BY EmptySeq DEF WellFormed, On, Range
  <2>2. HasMember(s, c, n) <=> u \in On(s, c)
    BY <1>3, MemberOfName
  <2> QED BY <1>2, <2>1, <2>2 DEF WellFormed, Linked
<1>5. c \in left => dropped(c) = u
  BY <1>3, <1>4, FoundMember
<1> HIDE DEF t, left, dropped, n
<1>6. c \in left => Range(Without(s.members[c], u)) = On(s, c) \ {u}
  BY <1>4, WithoutElement DEF WellFormed, Storage, On
<1>7. On(t, c) = On(s, c) \ {u}
  BY <1>1, <1>4, <1>5, <1>6 DEF On
<1>8. \A v \in Uid \ {u} : t.prefix[c][v] = s.prefix[c][v]
  BY <1>1, <1>5 DEF WellFormed, Storage
<1>9. \A v \in Uid \ {u} : t.nick[v] = s.nick[v]
  BY <1>1 DEF WellFormed, Storage
<1>10. Entry(t, c, m, p) <=> m # n /\ Entry(s, c, m, p)
  BY <1>2, <1>3, <1>7, <1>8, <1>9 DEF Entry
<1> QED BY <1>10 DEF t, n

\* irclib_rename_user: the entries of the nickname pass to the new one.
LEMMA RenameUserEntries ==
    ASSUME NEW s, WellFormed(s), ~Dangling(s), ~Clash(s), NEW u \in Live(s), NEW n,
           NEW c \in Channel, NEW m, NEW p
    PROVE  Entry(RenameUser(s, u, n), c, m, p) <=>
             \/ m # s.nick[u] /\ Entry(s, c, m, p)
             \/ m = n /\ Entry(s, c, s.nick[u], p)
<1> DEFINE t == RenameUser(s, u, n)
<1>1. t.members = s.members /\ t.prefix = s.prefix /\ t.nick = [s.nick EXCEPT ![u] = n]
  BY DEF RenameUser, WellFormed, Storage
<1> HIDE DEF t
<1>2. u \in Uid /\ On(s, c) \subseteq Uid /\ On(s, c) \subseteq Live(s) /\ On(t, c) = On(s, c)
  BY <1>1, ListedUids DEF Dangling, On
<1>3. \A v \in On(s, c) : s.nick[v] = s.nick[u] <=> v = u
  BY <1>2 DEF Clash
<1>4. \A v \in Uid : t.nick[v] = IF v = u THEN n ELSE s.nick[v]
  BY <1>1 DEF WellFormed, Storage
<1>5. Entry(t, c, m, p) <=> \/ m # s.nick[u] /\ Entry(s, c, m, p)
                            \/ m = n /\ Entry(s, c, s.nick[u], p)
  BY <1>1, <1>2, <1>3, <1>4 DEF Entry
<1> QED BY <1>5 DEF t

\* irclib_change_user_prefix: the entry of the nickname has the new prefix.
LEMMA ChangePrefixEntries ==
    ASSUME NEW s, WellFormed(s), ~Dangling(s), ~Clash(s), NEW d \in Channel, NEW n,
           NEW q, NEW c \in Channel, NEW m, NEW p
    PROVE  Entry(ChangePrefix(s, d, n, q), c, m, p) <=>
             IF c = d /\ m = n THEN p = q /\ \E r \in Prefix \cup {NoPrefix} : Entry(s, c, n, r)
                               ELSE Entry(s, c, m, p)
<1>0. s.prefix \in [Channel -> [Uid -> Prefix \cup {NoPrefix}]] /\ On(s, c) \subseteq Uid
  BY ListedUids DEF WellFormed, Storage
<1>1. CASE ~HasMember(s, d, n)
  BY <1>1, MemberOfName DEF ChangePrefix, Entry
<1>2. CASE HasMember(s, d, n)
  <2> DEFINE u == FindMember(s, d, n)
             t == [s EXCEPT !.prefix[d][u] = q]
  <2>1. ChangePrefix(s, d, n, q) = t
    BY <1>2 DEF ChangePrefix
  <2>2. u \in On(s, d) /\ u \in Uid /\ s.nick[u] = n
    BY <1>2, FoundMember, ListedUids
  <2>3. \A v \in On(s, d) : s.nick[v] = n <=> v = u
    BY <1>2, MemberOfName
  <2> HIDE DEF u
  <2>4. /\ t.members = s.members /\ t.nick = s.nick
        /\ t.prefix = [s.prefix EXCEPT ![d] = [s.prefix[d] EXCEPT ![u] = q]]
    BY DEF WellFormed, Storage
  <2> HIDE DEF t
  <2>5. \A v \in Uid : t.prefix[c][v] = IF c = d /\ v = u THEN q ELSE s.prefix[c][v]
    BY <1>0, <2>2, <2>4
  <2>6. On(t, c) = On(s, c)
    BY <2>4 DEF On
  <2>7. c = d => Entry(s, c, n, s.prefix[d][u]) /\ s.prefix[d][u] \in Prefix \cup {NoPrefix}
    BY <1>0, <2>2 DEF Entry
  <2>8. CASE c = d /\ m = n
    BY <1>0, <2>1, <2>2, <2>3, <2>4, <2>5, <2>6, <2>7, <2>8 DEF Entry
  <2>9. CASE ~(c = d /\ m = n)
    BY <1>0, <2>1, <2>2, <2>3, <2>4, <2>5, <2>6, <2>9 DEF Entry
  <2> QED BY <2>8, <2>9
<1> QED BY <1>1, <1>2

-----------------------------------------------------------------------------
(* The invariant.                                                          *)

\* The bot is on no channel and the storages are empty.
LEMMA EmptyWellFormed ==
    WellFormed(Empty) /\ ~Clash(Empty) /\ ~Dangling(Empty)
<1>1. Range(<<>>) = {} /\ IsInjective(<<>>) /\ <<>> \in Seq(Uid)
  BY EmptySeq DEF Range, IsInjective
<1>2. Empty \in Storage
  BY <1>1 DEF Empty, Storage
<1>3. Live(Empty) = {} /\ \A c \in Channel : On(Empty, c) = {}
  BY <1>1 DEF Empty, Live, On
<1> QED BY <1>1, <1>2, <1>3 DEF Empty, WellFormed, Linked, Clash, Dangling

\* The initial states satisfy the invariant.
LEMMA InitIInv == Init => IInv
BY StoreAssumption, EmptyWellFormed DEF Init, IInv, NetworkTypeOK

\* A handler that leaves well-formed storages behind, in which no member dangles
\* unless two records have carried one nickname, preserves the invariant.
LEMMA BecomesIInv ==
    ASSUME IInv, NEW s, Becomes(s), WellFormed(s),
           ~clashed /\ ~Clash(store) => ~Dangling(s), NetworkTypeOK'
    PROVE  IInv'
<1>1. store' = s /\ clashed' = (clashed \/ Clash(s))
  BY DEF Becomes
<1>2. clashed' \in BOOLEAN
  BY <1>1 DEF IInv
<1>3. WellFormed(store')
  BY <1>1
<1>4. ~clashed' => ~Clash(store') /\ ~Dangling(store')
  BY <1>1 DEF IInv
<1>5. WellFormed(store)' = WellFormed(store') /\ Clash(store)' = Clash(store')
      /\ Dangling(store)' = Dangling(store')
  BY DEF WellFormed, Clash, Dangling, Storage, Live, On, Linked
<1> QED BY <1>2, <1>3, <1>4, <1>5 DEF IInv

\* What the network tells keeps its bookkeeping well typed.
LEMMA NetworkStep ==
    ASSUME NetworkTypeOK, NEW n \in Nick, NEW c \in Channel, NEW cs \in SUBSET Channel
    PROVE  /\ Leave(n, cs) /\ UNCHANGED me => NetworkTypeOK'
           /\ LeaveMyself(c) /\ UNCHANGED me => NetworkTypeOK'
BY DEF NetworkTypeOK, Leave, LeaveMyself

\* Every message handler preserves the invariant.
LEMMA NextIInv == IInv /\ [Next]_vars => IInv'
<1> SUFFICES ASSUME IInv, [Next]_vars PROVE IInv'
  OBVIOUS
<1>0. WellFormed(store) /\ NetworkTypeOK /\ NoNick \notin Nick /\ me \in Nick
  BY StoreAssumption DEF IInv, NetworkTypeOK
<1>1. CASE UNCHANGED vars
  BY <1>1 DEF vars, IInv, NetworkTypeOK, WellFormed, Storage, Live, On, Linked,
              Clash, Dangling
<1>2. CASE Next
  <2>0. ~Dangling(store)
    BY <1>2 DEF Next
  <2>1. ASSUME NEW n \in Nick, Message(n) PROVE IInv'
    <3>1. NetworkTypeOK'
      BY <1>0, <2>1 DEF Message, network, NetworkTypeOK
    <3> QED BY <1>0, <2>0, <2>1, <3>1, AddUserWellFormed, BecomesIInv DEF Message
  <2>2. ASSUME NEW n \in Nick, Quit(n) PROVE IInv'
    <3> DEFINE s == AddUser(store, n)
    <3>1. Room(store, n) /\ Becomes(RemoveUser(s, FindUser(s, n)))
      BY <2>2 DEF Quit
    <3>2. WellFormed(s) /\ ~Dangling(s) /\ KnowsUser(s, n)
      BY <1>0, <2>0, <3>1, AddUserWellFormed
    <3>3. ~Clash(store) => ~Clash(s)
      BY <1>0, <3>1, AddUserNoClash
    <3>4. FindUser(s, n) \in Live(s)
      BY <3>2, FoundUser
    <3> HIDE DEF s
    <3>5. /\ WellFormed(RemoveUser(s, FindUser(s, n)))
          /\ ~Clash(s) => ~Dangling(RemoveUser(s, FindUser(s, n)))
      BY <3>2, <3>4, RemoveUserWellFormed
    <3>6. NetworkTypeOK'
      BY <1>0, <2>2, NetworkStep DEF Quit, NetworkTypeOK, Leave
    <3> QED BY <3>1, <3>3, <3>5, <3>6, BecomesIInv
  <2>3. ASSUME NEW c \in Channel, NEW others \in SUBSET (Nick \ {me}),
               NEW modes \in SUBSET ((others \cup {me}) \X Prefix),
               JoinMyself(c, others, modes)
        PROVE  IInv'
    <3> DEFINE s == AddUser(store, me)
    <3>1. Room(store, me) /\ Becomes(AddChannel(s, c))
      BY <2>3 DEF JoinMyself
    <3>2. WellFormed(s) /\ ~Dangling(s)
      BY <1>0, <2>0, <3>1, AddUserWellFormed
    <3> HIDE DEF s
    <3>3. WellFormed(AddChannel(s, c)) /\ ~Dangling(AddChannel(s, c))
      BY <3>2, AddChannelWellFormed
    <3>4. modes \in SUBSET (Nick \X Prefix) /\ others \cup {me} \in SUBSET Nick
      BY <1>0
    <3>5. NetworkTypeOK'
      BY <1>0, <2>3, <3>4 DEF JoinMyself, NetworkTypeOK
    <3> QED BY <3>1, <3>3, <3>5, BecomesIInv
  <2>4. ASSUME NEW c \in Channel, NEW n \in Nick, NameReply(c, n) PROVE IInv'
    <3>1. Room(store, n) /\ Becomes(AddChannelUser(store, c, n))
      BY <2>4 DEF NameReply
    <3>2. NetworkTypeOK'
      BY <1>0, <2>4 DEF NameReply, NetworkTypeOK
    <3> QED BY <1>0, <2>0, <3>1, <3>2, AddChannelUserWellFormed, BecomesIInv
  <2>5. ASSUME NEW c \in Channel, NEW n \in Nick, Join(c, n) PROVE IInv'
    <3> DEFINE s == AddUser(store, n)
    <3>1. Room(store, n) /\ Becomes(AddChannelUser(s, c, n))
      BY <2>5 DEF Join
    <3>2. WellFormed(s) /\ ~Dangling(s) /\ Room(s, n)
      BY <1>0, <2>0, <3>1, AddUserWellFormed DEF Room
    <3> HIDE DEF s
    <3>3. WellFormed(AddChannelUser(s, c, n)) /\ ~Dangling(AddChannelUser(s, c, n))
      BY <1>0, <3>2, AddChannelUserWellFormed
    <3>4. NetworkTypeOK'
      BY <1>0, <2>5 DEF Join, NetworkTypeOK
    <3> QED BY <3>1, <3>3, <3>4, BecomesIInv
  <2>6. ASSUME NEW c \in Channel, NEW n \in Nick, NEW by \in Nick,
               (Part(c, n) /\ by = n) \/ Kick(c, n, by)
        PROVE  IInv'
    <3> DEFINE s == AddUser(store, by)
    <3>1. Room(store, by) /\ Becomes(RemoveChannelUser(s, c, n))
      BY <2>6 DEF Part, Kick
    <3>2. WellFormed(s) /\ ~Dangling(s)
      BY <1>0, <2>0, <3>1, AddUserWellFormed
    <3> HIDE DEF s
    <3>3. WellFormed(RemoveChannelUser(s, c, n)) /\ ~Dangling(RemoveChannelUser(s, c, n))
      BY <3>2, RemoveChannelUserWellFormed
    <3>4. Leave(n, {c}) /\ UNCHANGED me
      BY <2>6 DEF Part, Kick
    <3>5. NetworkTypeOK'
      BY <1>0, <3>4, NetworkStep
    <3> QED BY <3>1, <3>3, <3>5, BecomesIInv
  <2>7. ASSUME NEW c \in Channel, NEW by \in Nick,
               (PartMyself(c) /\ by = me) \/ KickMyself(c, by)
        PROVE  IInv'
    <3> DEFINE s == AddUser(store, by)
    <3>1. Room(store, by) /\ Becomes(RemoveChannel(s, c))
      BY <2>7 DEF PartMyself, KickMyself
    <3>2. WellFormed(s) /\ ~Dangling(s)
      BY <1>0, <2>0, <3>1, AddUserWellFormed
    <3> HIDE DEF s
    <3>3. WellFormed(RemoveChannel(s, c)) /\ ~Dangling(RemoveChannel(s, c))
      BY <3>2, RemoveChannelWellFormed
    <3>4. LeaveMyself(c) /\ UNCHANGED me
      BY <2>7 DEF PartMyself, KickMyself
    <3>5. NetworkTypeOK'
      BY <1>0, <3>4, NetworkStep
    <3> QED BY <3>1, <3>3, <3>5, BecomesIInv
  <2>8. ASSUME NEW n \in Nick, NEW new \in Nick, ChangeNick(n, new) PROVE IInv'
    <3> DEFINE s == AddUser(store, n)
    <3>1. Room(store, n) /\ Becomes(RenameUser(s, FindUser(s, n), new))
      BY <2>8 DEF ChangeNick
    <3>2. WellFormed(s) /\ ~Dangling(s) /\ KnowsUser(s, n)
      BY <1>0, <2>0, <3>1, AddUserWellFormed
    <3> HIDE DEF s
    <3>3. FindUser(s, n) \in Live(s)
      BY <3>2, FoundUser
    <3>4. /\ WellFormed(RenameUser(s, FindUser(s, n), new))
          /\ ~Dangling(RenameUser(s, FindUser(s, n), new))
      BY <1>0, <3>2, <3>3, RenameUserWellFormed
    <3>5. NetworkTypeOK'
      <4>1. me' \in Nick
        BY <1>0, <2>8 DEF ChangeNick, NetworkTypeOK
      <4>2. /\ roster' \in [Channel -> SUBSET Nick]
            /\ due' \in [Channel -> SUBSET Nick]
        BY <1>0, <2>8 DEF ChangeNick, NetworkTypeOK
      <4>3. held' \in [Channel -> SUBSET (Nick \X Prefix)]
        <5>1. \A c \in Channel : {h \in held[c] : h[1] # n}
                \cup {<<new, p>> : p \in {q \in Prefix : <<n, q>> \in held[c]}}
                  \in SUBSET (Nick \X Prefix)
          <6> TAKE c \in Channel
          <6>1. {h \in held[c] : h[1] # n} \subseteq Nick \X Prefix
            BY <1>0 DEF NetworkTypeOK
          <6>2. {<<new, p>> : p \in {q \in Prefix : <<n, q>> \in held[c]}}
                  \subseteq Nick \X Prefix
            <7>1. \A p \in Prefix : <<new, p>> \in Nick \X Prefix
              OBVIOUS
            <7> DEFINE pair(p) == <<new, p>>
                       ps == {q \in Prefix : <<n, q>> \in held[c]}
            <7>2. \A p \in ps : pair(p) \in Nick \X Prefix
              BY <7>1
            <7> HIDE DEF pair, ps
            <7>3. {pair(p) : p \in ps} \subseteq Nick \X Prefix
              BY <7>2
            <7> QED BY <7>3 DEF pair, ps
          <6> QED BY <6>1, <6>2
        <5> QED BY <2>8, <5>1 DEF ChangeNick
      <4> QED BY <4>1, <4>2, <4>3 DEF NetworkTypeOK
    <3> QED BY <3>1, <3>4, <3>5, BecomesIInv
  <2>9. ASSUME NEW c \in Channel, NEW n \in Nick, NEW by \in Nick, NEW p \in Prefix,
               GiveMode(c, n, p, by) \/ TakeMode(c, n, p, by)
        PROVE  IInv'
    <3> DEFINE s == AddUser(store, by)
    <3>1. Room(store, by)
      BY <2>9 DEF GiveMode, TakeMode
    <3>2. PICK q \in Prefix \cup {NoPrefix} : Becomes(ChangePrefix(s, c, n, q))
      BY <2>9 DEF GiveMode, TakeMode
    <3>3. WellFormed(s) /\ ~Dangling(s)
      BY <1>0, <2>0, <3>1, AddUserWellFormed
    <3> HIDE DEF s
    <3>4. WellFormed(ChangePrefix(s, c, n, q)) /\ ~Dangling(ChangePrefix(s, c, n, q))
      BY <3>3, ChangePrefixWellFormed
    <3>5. NetworkTypeOK'
      BY <1>0, <2>9 DEF GiveMode, TakeMode, NetworkTypeOK
    <3> QED BY <3>2, <3>4, <3>5, BecomesIInv
  <2>10. CASE Shutdown
    <3>1. store' = Empty /\ clashed' = FALSE
      BY <2>10 DEF Shutdown
    <3>2. NetworkTypeOK'
      BY <1>0, <2>10 DEF Shutdown, NetworkTypeOK
    <3>3. WellFormed(store') /\ ~Clash(store') /\ ~Dangling(store')
      BY <3>1, EmptyWellFormed
    <3> QED BY <3>1, <3>2, <3>3 DEF IInv, WellFormed, Storage, Live, On, Linked,
                                    Clash, Dangling
  <2> QED BY <1>0, <1>2, <2>1, <2>2, <2>3, <2>4, <2>5, <2>6, <2>7, <2>8, <2>9, <2>10
          DEF Next
<1> QED BY <1>1, <1>2

\* The invariant holds in every reachable state.
THEOREM Invariance == Spec => []IInv
BY InitIInv, NextIInv, PTL DEF Spec

\* The storages keep their types, and the list of users holds exactly the
\* records in use, for any number of nicknames, channels and records.
THEOREM TypeCorrect == Spec => []TypeOK
<1>1. IInv => TypeOK
  BY DEF IInv, TypeOK, WellFormed
<1> QED BY <1>1, Invariance, PTL

\* Every user's channel list agrees with the member lists, also after two
\* records have carried one nickname.
THEOREM BackLinksHold == Spec => []BackLinks
<1>1. IInv => BackLinks
  BY DEF IInv, BackLinks, WellFormed
<1> QED BY <1>1, Invariance, PTL

\* Without a clash of nicknames no member ever points at a freed record.
THEOREM NoDanglingUnlessClash == Spec => []NoDanglingUnclashed
<1>1. IInv => NoDanglingUnclashed
  BY DEF IInv, NoDanglingUnclashed
<1> QED BY <1>1, Invariance, PTL

-----------------------------------------------------------------------------
(* The storages follow the network.                                        *)

EntryPrefix == Prefix \cup {NoPrefix}

\* The bot is on no channel and the storages are empty.
LEMMA InitFollows == Init => Follows
<1> SUFFICES ASSUME Init PROVE Follows
  OBVIOUS
<1>1. store = Empty /\ MyChannels = {}
  BY DEF Init, MyChannels
<1>2. \A c \in Channel : On(store, c) = {}
  BY <1>1, EmptySeq DEF Empty, On, Range
<1>3. \A c \in Channel : \A n, p : ~Entry(store, c, n, p)
  BY <1>2 DEF Entry
<1>4. store.joined = MyChannels
  BY <1>1 DEF Empty
<1>5. \A c \in Channel : roster[c] = {} /\ due[c] = {}
  BY DEF Init
<1> QED BY <1>3, <1>4, <1>5 DEF Follows

\* What the handlers have after the irclib_add_user with which they begin.
LEMMA AfterAddUser ==
    ASSUME IInv, ~Dangling(store), NEW n \in Nick, Room(store, n),
           NEW s, s = AddUser(store, n)
    PROVE  /\ WellFormed(s) /\ ~Dangling(s) /\ KnowsUser(s, n) /\ Room(s, n)
           /\ s.joined = store.joined
           /\ ~clashed => ~Clash(s)
           /\ \A c \in Channel : \A m, p : Entry(s, c, m, p) <=> Entry(store, c, m, p)
<1>1. WellFormed(store) /\ NoNick \notin Nick /\ (~clashed => ~Clash(store))
  BY StoreAssumption DEF IInv
<1>2. /\ WellFormed(s) /\ ~Dangling(s) /\ KnowsUser(s, n) /\ Room(s, n)
      /\ s.joined = store.joined
  BY <1>1, AddUserWellFormed DEF Room
<1>3. ~clashed => ~Clash(s)
  BY <1>1, AddUserNoClash
<1>4. \A c \in Channel : \A m, p : Entry(s, c, m, p) <=> Entry(store, c, m, p)
  BY <1>1, AddUserEntries
<1> QED BY <1>2, <1>3, <1>4

\* A handler that leaves the storages t behind: what remains to be shown of it.
LEMMA BecomesFollows ==
    ASSUME NEW t, Becomes(t), t.joined = MyChannels',
           \A c \in Channel : due'[c] \subseteq roster'[c],
           \A c \in Channel \ MyChannels' : roster'[c] = {},
           ~clashed => \A c \in Channel :
             /\ \A n \in Nick, p \in EntryPrefix : Entry(t, c, n, p) =>
                   n \in roster'[c] /\ (p # NoPrefix => <<n, p>> \in held'[c])
             /\ \A n \in roster'[c] \ due'[c] : \E p \in EntryPrefix : Entry(t, c, n, p)
    PROVE  Follows'
<1>1. store' = t /\ (~clashed' => ~clashed)
  BY DEF Becomes
<1>2. \A c, n, p : Entry(store, c, n, p)' <=> Entry(t, c, n, p)
  BY <1>1 DEF Entry, On
<1>3. /\ store'.joined = MyChannels'
      /\ \A c \in Channel : due'[c] \subseteq roster'[c]
      /\ \A c \in Channel \ MyChannels' : roster'[c] = {}
  BY <1>1
<1>4. ASSUME ~clashed', NEW c \in Channel
      PROVE  /\ \A n \in Nick, p \in Prefix \cup {NoPrefix} : Entry(store, c, n, p)' =>
                   n \in roster'[c] /\ (p # NoPrefix => <<n, p>> \in held'[c])
             /\ \A n \in roster'[c] \ due'[c] :
                   \E p \in Prefix \cup {NoPrefix} : Entry(store, c, n, p)'
  BY <1>1, <1>2, <1>4 DEF EntryPrefix
<1> QED BY <1>3, <1>4 DEF Follows

\* The same of one who leaves the channels of cs and is not the bot.
LEMMA LeaveFollows ==
    ASSUME IInv, Follows, NEW n \in Nick, n # me, NEW cs \in SUBSET Channel,
           Leave(n, cs), me' = me, NEW t, Becomes(t), t.joined = store.joined,
           ~clashed => \A c \in Channel : \A m \in Nick, p \in EntryPrefix :
             Entry(t, c, m, p) <=> ~(c \in cs /\ m = n) /\ Entry(store, c, m, p)
    PROVE  Follows'
<1>1. /\ roster \in [Channel -> SUBSET Nick] /\ due \in [Channel -> SUBSET Nick]
      /\ held \in [Channel -> SUBSET (Nick \X Prefix)]
  BY DEF IInv, NetworkTypeOK
<1>2. \A c \in Channel : /\ roster'[c] = IF c \in cs THEN roster[c] \ {n} ELSE roster[c]
                         /\ due'[c] = IF c \in cs THEN due[c] \ {n} ELSE due[c]
                         /\ held'[c] = IF c \in cs THEN held[c] \ ({n} \X Prefix) ELSE held[c]
  BY DEF Leave
<1>3. MyChannels' = MyChannels
  BY <1>2 DEF MyChannels
<1>4. \A c \in Channel : due'[c] \subseteq roster'[c]
  <2>1. \A c \in Channel : due[c] \subseteq roster[c]
    BY DEF Follows
  <2> QED BY <1>2, <2>1
<1>5. \A c \in Channel \ MyChannels' : roster'[c] = {}
  BY <1>2, <1>3 DEF Follows
<1>6. ASSUME ~clashed, NEW c \in Channel
      PROVE  /\ \A m \in Nick, p \in EntryPrefix : Entry(t, c, m, p) =>
                   m \in roster'[c] /\ (p # NoPrefix => <<m, p>> \in held'[c])
             /\ \A m \in roster'[c] \ due'[c] : \E p \in EntryPrefix : Entry(t, c, m, p)
  <2>1. ASSUME NEW m \in Nick, NEW p \in EntryPrefix, Entry(t, c, m, p)
        PROVE  m \in roster'[c] /\ (p # NoPrefix => <<m, p>> \in held'[c])
    <3>1. ~(c \in cs /\ m = n) /\ Entry(store, c, m, p)
      BY <1>6, <2>1
    <3>2. m \in roster[c] /\ (p # NoPrefix => <<m, p>> \in held[c])
      BY <1>6, <3>1 DEF Follows, EntryPrefix
    <3> QED BY <1>2, <3>1, <3>2
  <2>2. ASSUME NEW m \in roster'[c] \ due'[c] PROVE \E p \in EntryPrefix : Entry(t, c, m, p)
    <3>1. m \in roster[c] \ due[c] /\ ~(c \in cs /\ m = n) /\ m \in Nick
      BY <1>1, <1>2
    <3>2. \E p \in EntryPrefix : Entry(store, c, m, p)
      BY <1>6, <3>1 DEF Follows, EntryPrefix
    <3> QED BY <1>6, <3>1, <3>2
  <2> QED BY <2>1, <2>2
<1> QED BY <1>3, <1>4, <1>5, <1>6, BecomesFollows DEF Follows

\* The same when the bot leaves.
LEMMA LeaveMyselfFollows ==
    ASSUME IInv, Follows, NEW d \in Channel, LeaveMyself(d), me' = me,
           NEW t, Becomes(t), t.joined = store.joined \ {d},
           \A c \in Channel : \A m, p : Entry(t, c, m, p) <=> c # d /\ Entry(store, c, m, p)
    PROVE  Follows'
<1>1. /\ roster \in [Channel -> SUBSET Nick] /\ due \in [Channel -> SUBSET Nick]
      /\ held \in [Channel -> SUBSET (Nick \X Prefix)]
  BY DEF IInv, NetworkTypeOK
<1>2. \A c \in Channel : /\ roster'[c] = IF c = d THEN {} ELSE roster[c]
                         /\ due'[c] = IF c = d THEN {} ELSE due[c]
                         /\ c # d => held'[c] = held[c]
  BY <1>1 DEF LeaveMyself
<1>3. MyChannels' = MyChannels \ {d}
  BY <1>2 DEF MyChannels
<1>4. \A c \in Channel : due'[c] \subseteq roster'[c]
  <2>1. \A c \in Channel : due[c] \subseteq roster[c]
    BY DEF Follows
  <2> QED BY <1>2, <2>1
<1>5. \A c \in Channel \ MyChannels' : roster'[c] = {}
  BY <1>2, <1>3 DEF Follows
<1>6. ASSUME ~clashed, NEW c \in Channel
      PROVE  /\ \A m \in Nick, p \in EntryPrefix : Entry(t, c, m, p) =>
                   m \in roster'[c] /\ (p # NoPrefix => <<m, p>> \in held'[c])
             /\ \A m \in roster'[c] \ due'[c] : \E p \in EntryPrefix : Entry(t, c, m, p)
  BY <1>2, <1>6 DEF Follows, EntryPrefix
<1> QED BY <1>3, <1>4, <1>5, <1>6, BecomesFollows DEF Follows

\* NAMES and JOIN: n has an entry without prefix on channel d, where it is.
LEMMA EntersFollows ==
    ASSUME IInv, Follows, NEW d \in Channel, NEW n \in Nick, d \in MyChannels, me' = me,
           held' = held,
           \A c \in Channel :
             /\ roster'[c] = IF c = d THEN roster[c] \cup {n} ELSE roster[c]
             /\ due'[c] \subseteq due[c] /\ due[c] \ {n} \subseteq due'[c]
             /\ c # d => due'[c] = due[c],
           NEW t, Becomes(t), t.joined = store.joined,
           ~clashed => \A c \in Channel : \A m \in Nick, p \in EntryPrefix :
             Entry(t, c, m, p) <=> IF c = d /\ m = n THEN p = NoPrefix ELSE Entry(store, c, m, p)
    PROVE  Follows'
<1>1. /\ roster \in [Channel -> SUBSET Nick] /\ due \in [Channel -> SUBSET Nick]
      /\ held \in [Channel -> SUBSET (Nick \X Prefix)] /\ NoPrefix \in EntryPrefix
  BY DEF IInv, NetworkTypeOK, EntryPrefix
<1>2. \A c \in Channel : /\ roster'[c] = IF c = d THEN roster[c] \cup {n} ELSE roster[c]
                         /\ due'[c] \subseteq due[c] /\ due[c] \ {n} \subseteq due'[c]
                         /\ c # d => due'[c] = due[c]
  OBVIOUS
<1>3. MyChannels' = MyChannels
  BY <1>2 DEF MyChannels
<1>4. \A c \in Channel : due'[c] \subseteq roster'[c]
  <2>1. \A c \in Channel : due[c] \subseteq roster[c]
    BY DEF Follows
  <2>2. ASSUME NEW c \in Channel PROVE due'[c] \subseteq roster'[c]
    <3>1. roster[c] \subseteq roster'[c]
      BY <1>2
    <3> QED BY <1>2, <2>1, <3>1
  <2> QED BY <2>2
<1>5. \A c \in Channel \ MyChannels' : roster'[c] = {}
  BY <1>2, <1>3 DEF Follows
<1>6. ASSUME ~clashed, NEW c \in Channel
      PROVE  /\ \A m \in Nick, p \in EntryPrefix : Entry(t, c, m, p) =>
                   m \in roster'[c] /\ (p # NoPrefix => <<m, p>> \in held'[c])
             /\ \A m \in roster'[c] \ due'[c] : \E p \in EntryPrefix : Entry(t, c, m, p)
  <2>1. ASSUME NEW m \in Nick, NEW p \in EntryPrefix, Entry(t, c, m, p)
        PROVE  m \in roster'[c] /\ (p # NoPrefix => <<m, p>> \in held'[c])
    <3>1. CASE c = d /\ m = n
      BY <1>2, <1>6, <2>1, <3>1
    <3>2. CASE ~(c = d /\ m = n)
      BY <1>2, <1>6, <2>1, <3>2 DEF Follows, EntryPrefix
    <3> QED BY <3>1, <3>2
  <2>2. ASSUME NEW m \in roster'[c] \ due'[c] PROVE \E p \in EntryPrefix : Entry(t, c, m, p)
    <3>1. CASE c = d /\ m = n
      BY <1>1, <1>6, <3>1
    <3>2. CASE ~(c = d /\ m = n)
      <4>1. m \in roster[c] \ due[c] /\ m \in Nick
        BY <1>1, <1>2, <3>2
      <4>2. \E p \in EntryPrefix : Entry(store, c, m, p)
        BY <1>6, <4>1 DEF Follows, EntryPrefix
      <4> QED BY <1>6, <3>2, <4>1, <4>2
    <3> QED BY <3>1, <3>2
  <2> QED BY <2>1, <2>2
<1> QED BY <1>3, <1>4, <1>5, <1>6, BecomesFollows DEF Follows

\* MODE: the prefix q is recorded for n, who holds it if there is one, and of
\* the modes that are held n loses at most others.
LEMMA ModeFollows ==
    ASSUME IInv, Follows, NEW d \in Channel, NEW n \in Nick, NEW q \in EntryPrefix,
           UNCHANGED <<me, roster, due>>,
           held' \in [Channel -> SUBSET (Nick \X Prefix)],
           \A c \in Channel, m \in Nick, p \in Prefix :
              ~(c = d /\ m = n) /\ <<m, p>> \in held[c] => <<m, p>> \in held'[c],
           q # NoPrefix => <<n, q>> \in held'[d],
           NEW t, Becomes(t), t.joined = store.joined,
           ~clashed => \A c \in Channel : \A m \in Nick, p \in EntryPrefix :
             Entry(t, c, m, p) <=>
               IF c = d /\ m = n THEN p = q /\ \E r \in EntryPrefix : Entry(store, c, n, r)
                                 ELSE Entry(store, c, m, p)
    PROVE  Follows'
<1>1. /\ roster \in [Channel -> SUBSET Nick] /\ due \in [Channel -> SUBSET Nick]
  BY DEF IInv, NetworkTypeOK
<1>2. MyChannels' = MyChannels
  BY DEF MyChannels
<1>3. ASSUME ~clashed, NEW c \in Channel
      PROVE  /\ \A m \in Nick, p \in EntryPrefix : Entry(t, c, m, p) =>
                   m \in roster'[c] /\ (p # NoPrefix => <<m, p>> \in held'[c])
             /\ \A m \in roster'[c] \ due'[c] : \E p \in EntryPrefix : Entry(t, c, m, p)
  <2>0. /\ \A m \in Nick, p \in EntryPrefix : Entry(store, c, m, p) =>
              m \in roster[c] /\ (p # NoPrefix => <<m, p>> \in held[c])
        /\ \A m \in roster[c] \ due[c] : \E p \in EntryPrefix : Entry(store, c, m, p)
    BY <1>3 DEF Follows, EntryPrefix
  <2>1. ASSUME NEW m \in Nick, NEW p \in EntryPrefix, Entry(t, c, m, p)
        PROVE  m \in roster'[c] /\ (p # NoPrefix => <<m, p>> \in held'[c])
    <3>1. CASE c = d /\ m = n
      BY <1>3, <2>0, <2>1, <3>1
    <3>2. CASE ~(c = d /\ m = n)
      BY <1>3, <2>0, <2>1, <3>2 DEF EntryPrefix
    <3> QED BY <3>1, <3>2
  <2>2. ASSUME NEW m \in roster'[c] \ due'[c] PROVE \E p \in EntryPrefix : Entry(t, c, m, p)
    <3>1. m \in roster[c] \ due[c] /\ m \in Nick
      BY <1>1
    <3>2. \E p \in EntryPrefix : Entry(store, c, m, p)
      BY <2>0, <3>1
    <3> QED BY <1>3, <3>1, <3>2
  <2> QED BY <2>1, <2>2
<1> QED BY <1>2, <1>3, BecomesFollows DEF Follows

\* Every message handler keeps the storages and the network together.
LEMMA NextFollows == IInv /\ Follows /\ [Next]_vars => Follows'
<1> SUFFICES ASSUME IInv, Follows, [Next]_vars PROVE Follows'
  OBVIOUS
<1>0. /\ WellFormed(store) /\ NoNick \notin Nick /\ me \in Nick
      /\ roster \in [Channel -> SUBSET Nick] /\ due \in [Channel -> SUBSET Nick]
      /\ held \in [Channel -> SUBSET (Nick \X Prefix)]
      /\ ~clashed => ~Clash(store)
  BY StoreAssumption DEF IInv, NetworkTypeOK
<1>1. CASE UNCHANGED vars
  BY <1>1 DEF vars, Follows, Entry, On, MyChannels
<1>2. CASE Next
  <2>0. ~Dangling(store)
    BY <1>2 DEF Next
  <2>1. ASSUME NEW n \in Nick, Message(n) PROVE Follows'
    <3> DEFINE s == AddUser(store, n)
    <3>1. Becomes(s) /\ Room(store, n) /\ UNCHANGED <<me, roster, due, held>>
      BY <2>1 DEF Message, network
    <3>2. /\ s.joined = store.joined
          /\ \A c \in Channel : \A m, p : Entry(s, c, m, p) <=> Entry(store, c, m, p)
      BY <2>0, <3>1, AfterAddUser
    <3> HIDE DEF s
    <3>3. MyChannels' = MyChannels
      BY <3>1 DEF MyChannels
    <3> QED BY <3>1, <3>2, <3>3, BecomesFollows DEF Follows, EntryPrefix
  <2>2. ASSUME NEW n \in Nick, Quit(n) PROVE Follows'
    <3> DEFINE s == AddUser(store, n)
               u == FindUser(s, n)
               t == RemoveUser(s, u)
    <3>1. /\ Becomes(t) /\ Room(store, n) /\ n # me
          /\ Leave(n, Channel) /\ me' = me
      BY <2>2 DEF Quit
    <3>2. /\ WellFormed(s) /\ ~Dangling(s) /\ KnowsUser(s, n) /\ (~clashed => ~Clash(s))
          /\ s.joined = store.joined
          /\ \A c \in Channel : \A m, p : Entry(s, c, m, p) <=> Entry(store, c, m, p)
      BY <2>0, <3>1, AfterAddUser
    <3> HIDE DEF s
    <3>3. u \in Live(s) /\ s.nick[u] = n
      BY <3>2, FoundUser
    <3> HIDE DEF u
    <3>4. ~clashed => \A c \in Channel : \A m, p :
            Entry(t, c, m, p) <=> m # n /\ Entry(s, c, m, p)
      BY <3>2, <3>3, RemoveUserEntries
    <3>5. t.joined = s.joined
      BY DEF RemoveUser
    <3> HIDE DEF t
    <3> QED BY <3>1, <3>2, <3>4, <3>5, LeaveFollows
  <2>3. ASSUME NEW d \in Channel, NEW others \in SUBSET (Nick \ {me}),
               NEW modes \in SUBSET ((others \cup {me}) \X Prefix),
               JoinMyself(d, others, modes)
        PROVE  Follows'
    <3> DEFINE s == AddUser(store, me)
               t == AddChannel(s, d)
    <3>1. /\ Becomes(t) /\ Room(store, me) /\ d \notin MyChannels /\ me' = me
          /\ roster' = [roster EXCEPT ![d] = others \cup {me}]
          /\ due' = [due EXCEPT ![d] = others \cup {me}]
          /\ held' = [held EXCEPT ![d] = modes]
      BY <2>3 DEF JoinMyself
    <3>2. /\ WellFormed(s) /\ s.joined = store.joined
          /\ \A c \in Channel : \A m, p : Entry(s, c, m, p) <=> Entry(store, c, m, p)
      BY <1>0, <2>0, <3>1, AfterAddUser
    <3> HIDE DEF s
    <3>3. \A c \in Channel : \A m, p : Entry(t, c, m, p) <=> Entry(s, c, m, p)
      BY <3>2, AddChannelEntries
    <3>4. t.joined = store.joined \cup {d}
      BY <3>2 DEF AddChannel, WellFormed, Storage
    <3> HIDE DEF t
    <3>5. \A c \in Channel : /\ roster'[c] = IF c = d THEN others \cup {me} ELSE roster[c]
                             /\ due'[c] = IF c = d THEN others \cup {me} ELSE due[c]
                             /\ c # d => held'[c] = held[c]
      BY <1>0, <3>1
    <3>6. MyChannels' = MyChannels \cup {d}
      BY <3>1, <3>5 DEF MyChannels
    <3>7. \A m, p : ~Entry(store, d, m, p)
      BY <1>0, <3>1, EmptySeq DEF Follows, WellFormed, Entry, On, Range
    <3>8. ASSUME ~clashed, NEW c \in Channel
          PROVE  /\ \A m \in Nick, p \in EntryPrefix : Entry(t, c, m, p) =>
                       m \in roster'[c] /\ (p # NoPrefix => <<m, p>> \in held'[c])
                 /\ \A m \in roster'[c] \ due'[c] : \E p \in EntryPrefix : Entry(t, c, m, p)
      <4>1. CASE c = d
        BY <3>2, <3>3, <3>5, <3>7, <4>1
      <4>2. CASE c # d
        BY <3>2, <3>3, <3>5, <3>8, <4>2 DEF Follows, EntryPrefix
      <4> QED BY <4>1, <4>2
    <3>9. \A c \in Channel : due'[c] \subseteq roster'[c]
      BY <3>5 DEF Follows
    <3>10. \A c \in Channel \ MyChannels' : roster'[c] = {}
      BY <3>5, <3>6 DEF Follows
    <3>11. t.joined = MyChannels'
      BY <3>4, <3>6 DEF Follows
    <3> QED BY <3>1, <3>8, <3>9, <3>10, <3>11, BecomesFollows
  <2>4. ASSUME NEW d \in Channel, NEW n \in Nick, NameReply(d, n) PROVE Follows'
    <3> DEFINE t == AddChannelUser(store, d, n)
    <3>1. /\ Becomes(t) /\ Room(store, n) /\ n \in due[d]
          /\ due' = [due EXCEPT ![d] = @ \ {n}] /\ UNCHANGED <<me, roster, held>>
      BY <2>4 DEF NameReply
    <3>2. n \in roster[d] /\ d \in MyChannels /\ d \in store.joined
      BY <3>1 DEF Follows
    <3>3. \A c \in Channel :
            /\ roster'[c] = IF c = d THEN roster[c] \cup {n} ELSE roster[c]
            /\ due'[c] \subseteq due[c] /\ due[c] \ {n} \subseteq due'[c]
            /\ c # d => due'[c] = due[c]
      BY <1>0, <3>1, <3>2
    <3>4. ~clashed => \A c \in Channel : \A m, p : Entry(t, c, m, p) <=>
            IF c = d /\ m = n THEN p = NoPrefix ELSE Entry(store, c, m, p)
      BY <1>0, <2>0, <3>1, <3>2, AddChannelUserEntries
    <3>5. t.joined = store.joined
      <4>1. WellFormed(AddUser(store, n)) /\ AddUser(store, n).joined = store.joined
        BY <1>0, <2>0, <3>1, AddUserWellFormed
      <4> QED BY <1>0, <4>1 DEF AddChannelUser, WellFormed, Storage
    <3> HIDE DEF t
    <3>7. Becomes(t) /\ me' = me /\ held' = held
      BY <3>1
    <3>8. ~clashed => \A c \in Channel : \A m \in Nick, p \in EntryPrefix : Entry(t, c, m, p) <=>
            IF c = d /\ m = n THEN p = NoPrefix ELSE Entry(store, c, m, p)
      BY <3>4
    <3> QED BY <3>2, <3>3, <3>5, <3>7, <3>8, EntersFollows
  <2>5. ASSUME NEW d \in Channel, NEW n \in Nick, Join(d, n) PROVE Follows'
    <3> DEFINE s == AddUser(store, n)
               t == AddChannelUser(s, d, n)
    <3>1. /\ Becomes(t) /\ Room(store, n) /\ d \in MyChannels
          /\ roster' = [roster EXCEPT ![d] = @ \cup {n}] /\ UNCHANGED <<me, due, held>>
      BY <2>5 DEF Join
    <3>2. /\ WellFormed(s) /\ ~Dangling(s) /\ Room(s, n) /\ (~clashed => ~Clash(s))
          /\ s.joined = store.joined
          /\ \A c \in Channel : \A m, p : Entry(s, c, m, p) <=> Entry(store, c, m, p)
      BY <2>0, <3>1, AfterAddUser
    <3> HIDE DEF s
    <3>3. d \in s.joined
      BY <3>1, <3>2 DEF Follows
    <3>4. ~clashed => \A c \in Channel : \A m, p : Entry(t, c, m, p) <=>
            IF c = d /\ m = n THEN p = NoPrefix ELSE Entry(s, c, m, p)
      BY <1>0, <3>2, <3>3, AddChannelUserEntries
    <3>5. t.joined = store.joined
      <4>1. WellFormed(AddUser(s, n)) /\ AddUser(s, n).joined = s.joined
        BY <1>0, <3>2, AddUserWellFormed
      <4> QED BY <3>2, <4>1 DEF AddChannelUser, WellFormed, Storage
    <3>6. ~clashed => \A c \in Channel : \A m, p : Entry(t, c, m, p) <=>
            IF c = d /\ m = n THEN p = NoPrefix ELSE Entry(store, c, m, p)
      BY <3>2, <3>4
    <3> HIDE DEF t
    <3>7. \A c \in Channel :
            /\ roster'[c] = IF c = d THEN roster[c] \cup {n} ELSE roster[c]
            /\ due'[c] \subseteq due[c] /\ due[c] \ {n} \subseteq due'[c]
            /\ c # d => due'[c] = due[c]
      BY <1>0, <3>1
    <3>8. Becomes(t) /\ me' = me /\ held' = held
      BY <3>1
    <3>10. d \in MyChannels
      BY <3>1
    <3>9. ~clashed => \A c \in Channel : \A m \in Nick, p \in EntryPrefix : Entry(t, c, m, p) <=>
            IF c = d /\ m = n THEN p = NoPrefix ELSE Entry(store, c, m, p)
      BY <3>6
    <3> QED BY <3>5, <3>7, <3>8, <3>9, <3>10, EntersFollows, SMTT(60)
  <2>6. ASSUME NEW d \in Channel, NEW n \in Nick, NEW by \in Nick,
               (Part(d, n) /\ by = n) \/ Kick(d, n, by)
        PROVE  Follows'
    <3> DEFINE s == AddUser(store, by)
               t == RemoveChannelUser(s, d, n)
    <3>1. /\ Becomes(t) /\ Room(store, by) /\ n # me
          /\ Leave(n, {d}) /\ me' = me
      BY <2>6 DEF Part, Kick
    <3>2. /\ WellFormed(s) /\ ~Dangling(s) /\ (~clashed => ~Clash(s))
          /\ s.joined = store.joined
          /\ \A c \in Channel : \A m, p : Entry(s, c, m, p) <=> Entry(store, c, m, p)
      BY <2>0, <3>1, AfterAddUser
    <3> HIDE DEF s
    <3>3. ~clashed => \A c \in Channel : \A m, p :
            Entry(t, c, m, p) <=> ~(c = d /\ m = n) /\ Entry(s, c, m, p)
      BY <3>2, RemoveChannelUserEntries
    <3>4. t.joined = s.joined
      BY <3>2 DEF RemoveChannelUser, WellFormed, Storage
    <3> HIDE DEF t
    <3> QED BY <3>1, <3>2, <3>3, <3>4, LeaveFollows
  <2>7. ASSUME NEW d \in Channel, NEW by \in Nick,
               (PartMyself(d) /\ by = me) \/ KickMyself(d, by)
        PROVE  Follows'
    <3> DEFINE s == AddUser(store, by)
               t == RemoveChannel(s, d)
    <3>1. Becomes(t) /\ Room(store, by) /\ LeaveMyself(d) /\ me' = me
      BY <2>7 DEF PartMyself, KickMyself
    <3>2. /\ WellFormed(s) /\ s.joined = store.joined
          /\ \A c \in Channel : \A m, p : Entry(s, c, m, p) <=> Entry(store, c, m, p)
      BY <2>0, <3>1, AfterAddUser
    <3> HIDE DEF s
    <3>3. \A c \in Channel : \A m, p : Entry(t, c, m, p) <=> c # d /\ Entry(s, c, m, p)
      BY <3>2, RemoveChannelEntries
    <3>4. t.joined = store.joined \ {d}
      BY <3>2 DEF RemoveChannel, WellFormed, Storage
    <3> HIDE DEF t
    <3> QED BY <3>1, <3>2, <3>3, <3>4, LeaveMyselfFollows
  <2>8. ASSUME NEW n \in Nick, NEW new \in Nick, ChangeNick(n, new) PROVE Follows'
    <3> DEFINE s == AddUser(store, n)
               u == FindUser(s, n)
               t == RenameUser(s, u, new)
    <3>1. /\ Becomes(t) /\ Room(store, n) /\ Visible(n) /\ ~Visible(new)
          /\ me' = IF n = me THEN new ELSE me
      BY <2>8 DEF ChangeNick
    <3>2. \A c \in Channel :
            /\ roster'[c] = IF n \in roster[c] THEN (roster[c] \ {n}) \cup {new} ELSE roster[c]
            /\ due'[c] = IF n \in due[c] THEN (due[c] \ {n}) \cup {new} ELSE due[c]
      BY <2>8 DEF ChangeNick
    <3>3. \A c \in Channel : \A p \in Prefix :
            /\ <<n, p>> \in held[c] => <<new, p>> \in held'[c]
            /\ \A m \in Nick \ {n} : <<m, p>> \in held[c] => <<m, p>> \in held'[c]
      BY <2>8 DEF ChangeNick
    <3>4. /\ WellFormed(s) /\ ~Dangling(s) /\ KnowsUser(s, n) /\ (~clashed => ~Clash(s))
          /\ s.joined = store.joined
          /\ \A c \in Channel : \A m, p : Entry(s, c, m, p) <=> Entry(store, c, m, p)
      BY <2>0, <3>1, AfterAddUser
    <3> HIDE DEF s
    <3>5. u \in Live(s) /\ s.nick[u] = n
      BY <3>4, FoundUser
    <3> HIDE DEF u
    <3>6. ~clashed => \A c \in Channel : \A m, p : Entry(t, c, m, p) <=>
            (m # n /\ Entry(s, c, m, p)) \/ (m = new /\ Entry(s, c, n, p))
      BY <3>4, <3>5, RenameUserEntries
    <3>7. t.joined = store.joined
      BY <3>4 DEF RenameUser, WellFormed, Storage
    <3> HIDE DEF t
    <3>8. new # me /\ new # n /\ \A c \in Channel : new \notin roster[c]
      BY <3>1 DEF Visible
    <3>9. MyChannels' = MyChannels
      BY <3>1, <3>2, <3>8 DEF MyChannels
    <3>10. \A c \in Channel : due'[c] \subseteq roster'[c]
      BY <3>2 DEF Follows
    <3>11. \A c \in Channel \ MyChannels' : roster'[c] = {}
      BY <3>2, <3>9 DEF Follows
    <3>12. ASSUME ~clashed, NEW c \in Channel
           PROVE  /\ \A m \in Nick, p \in EntryPrefix : Entry(t, c, m, p) =>
                        m \in roster'[c] /\ (p # NoPrefix => <<m, p>> \in held'[c])
                  /\ \A m \in roster'[c] \ due'[c] : \E p \in EntryPrefix : Entry(t, c, m, p)
      <4>0. /\ \A m \in Nick, p \in EntryPrefix : Entry(store, c, m, p) =>
                  m \in roster[c] /\ (p # NoPrefix => <<m, p>> \in held[c])
            /\ \A m \in roster[c] \ due[c] : \E p \in EntryPrefix : Entry(store, c, m, p)
            /\ due[c] \subseteq roster[c]
        BY <3>12 DEF Follows, EntryPrefix
      <4>1. ASSUME NEW m \in Nick, NEW p \in EntryPrefix, Entry(t, c, m, p)
            PROVE  m \in roster'[c] /\ (p # NoPrefix => <<m, p>> \in held'[c])
        <5>1. CASE m # n /\ Entry(store, c, m, p)
          BY <3>2, <3>3, <4>0, <5>1 DEF EntryPrefix
        <5>2. CASE m = new /\ Entry(store, c, n, p)
          BY <3>2, <3>3, <4>0, <5>2 DEF EntryPrefix
        <5> QED BY <3>4, <3>6, <3>12, <4>1, <5>1, <5>2
      <4>2. ASSUME NEW m \in roster'[c] \ due'[c] PROVE \E p \in EntryPrefix : Entry(t, c, m, p)
        <5>1. CASE m = new
          <6>1. n \in roster[c] \ due[c]
            BY <3>2, <3>8, <4>2, <5>1
          <6> QED BY <3>4, <3>6, <3>12, <4>0, <5>1, <6>1
        <5>2. CASE m # new
          <6>1. m \in roster[c] \ due[c] /\ m # n
            BY <3>2, <3>8, <4>0, <4>2, <5>2
          <6> QED BY <3>4, <3>6, <3>12, <4>0, <6>1
        <5> QED BY <5>1, <5>2
      <4> QED BY <4>1, <4>2
    <3> QED BY <3>1, <3>7, <3>9, <3>10, <3>11, <3>12, BecomesFollows DEF Follows
  <2>9. ASSUME NEW d \in Channel, NEW n \in Nick, NEW by \in Nick, NEW p \in Prefix,
               GiveMode(d, n, p, by) \/ TakeMode(d, n, p, by)
        PROVE  Follows'
    <3> DEFINE s == AddUser(store, by)
    <3>1. Room(store, by) /\ UNCHANGED <<me, roster, due>>
      BY <2>9 DEF GiveMode, TakeMode
    <3>2. PICK q \in EntryPrefix :
            /\ Becomes(ChangePrefix(s, d, n, q))
            /\ \/ q = p /\ held' = [held EXCEPT ![d] = @ \cup {<<n, p>>}]
               \/ q = NoPrefix /\ held' = [held EXCEPT ![d] = @ \ {<<n, p>>}]
      BY <2>9 DEF GiveMode, TakeMode, EntryPrefix
    <3>3. /\ WellFormed(s) /\ ~Dangling(s) /\ (~clashed => ~Clash(s))
          /\ s.joined = store.joined
          /\ \A c \in Channel : \A m, r : Entry(s, c, m, r) <=> Entry(store, c, m, r)
      BY <2>0, <3>1, AfterAddUser
    <3> DEFINE t == ChangePrefix(s, d, n, q)
    <3> HIDE DEF s
    <3>4. ~clashed => \A c \in Channel : \A m, r : Entry(t, c, m, r) <=>
            IF c = d /\ m = n THEN r = q /\ \E o \in EntryPrefix : Entry(s, c, n, o)
                              ELSE Entry(s, c, m, r)
      BY <3>3, ChangePrefixEntries DEF EntryPrefix
    <3>5. t.joined = store.joined
      BY <3>3 DEF ChangePrefix, WellFormed, Storage
    <3> HIDE DEF t
    <3>6. <<n, p>> \in Nick \X Prefix
      OBVIOUS
    <3>7. held' \in [Channel -> SUBSET (Nick \X Prefix)]
      BY <1>0, <3>2, <3>6
    <3>8. \A c \in Channel, m \in Nick, r \in Prefix :
            ~(c = d /\ m = n) /\ <<m, r>> \in held[c] => <<m, r>> \in held'[c]
      BY <1>0, <3>2
    <3>9. q # NoPrefix => <<n, q>> \in held'[d]
      BY <1>0, <3>2
    <3>10. Becomes(t)
      BY <3>2 DEF t
    <3> QED BY <3>1, <3>3, <3>4, <3>5, <3>7, <3>8, <3>9, <3>10, ModeFollows
  <2>10. CASE Shutdown
    <3>1. /\ store' = Empty /\ clashed' = FALSE
          /\ \A c \in Channel : roster'[c] = {} /\ due'[c] = {}
      BY <2>10 DEF Shutdown
    <3>2. \A c \in Channel : \A m, p : ~Entry(Empty, c, m, p)
      BY EmptySeq DEF Empty, Entry, On, Range
    <3>3. MyChannels' = {} /\ store'.joined = {}
      BY <3>1 DEF MyChannels, Empty
    <3>4. \A c \in Channel : \A m, p : ~Entry(store', c, m, p)
      BY <3>1, <3>2
    <3> QED BY <3>1, <3>3, <3>4 DEF Follows, Entry, On
  <2> QED BY <1>0, <1>2, <2>1, <2>2, <2>3, <2>4, <2>5, <2>6, <2>7, <2>8, <2>9, <2>10
          DEF Next
<1> QED BY <1>1, <1>2

\* The storages and the network stay together in every reachable state.
THEOREM StorageFollows == Spec => []Follows
BY InitFollows, NextFollows, Invariance, PTL DEF Spec

\* Without a clash a member has a nickname and a prefix of the server's.
LEMMA MemberRecord ==
    ASSUME IInv, ~clashed, NEW c \in Channel, NEW u \in On(store, c)
    PROVE  u \in Uid /\ store.nick[u] \in Nick /\ store.prefix[c][u] \in EntryPrefix
<1>1. WellFormed(store) /\ u \in Live(store)
  BY DEF IInv, Dangling
<1>2. u \in Uid
  BY <1>1, ListedUids
<1>3. store.nick[u] \in Nick \cup {NoNick} /\ store.nick[u] # NoNick
  BY <1>1, <1>2 DEF WellFormed, Storage
<1>4. store.prefix[c][u] \in EntryPrefix
  BY <1>1, <1>2 DEF WellFormed, Storage, EntryPrefix
<1> QED BY <1>2, <1>3, <1>4

\* The bot has exactly the channels it is on, and on them knows nobody who has
\* left, been kicked, quit or been renamed, and misses only whom the server has
\* still to name: for any number of nicknames, channels and records.
THEOREM MembersAreTracked == Spec => []MembersTracked
<1>1. IInv /\ Follows => MembersTracked
  <2> SUFFICES ASSUME IInv, Follows, ~clashed, NEW c \in Channel
               PROVE  /\ {store.nick[u] : u \in On(store, c)} \subseteq roster[c]
                      /\ roster[c] \subseteq {store.nick[u] : u \in On(store, c)} \cup due[c]
    BY DEF MembersTracked, Follows
  <2>1. /\ \A n \in Nick, p \in EntryPrefix : Entry(store, c, n, p) => n \in roster[c]
        /\ \A n \in roster[c] \ due[c] : \E p \in EntryPrefix : Entry(store, c, n, p)
    BY DEF Follows, EntryPrefix
  <2>2. \A u \in On(store, c) : /\ u \in Uid /\ store.nick[u] \in Nick
                                /\ store.prefix[c][u] \in EntryPrefix
    BY MemberRecord
  <2> QED BY <2>1, <2>2 DEF Entry
<1> QED BY <1>1, Invariance, StorageFollows, PTL

\* No member keeps, or takes over with a nickname, a prefix that it does not hold.
THEOREM PrefixesAreSound == Spec => []PrefixSound
<1>1. IInv /\ Follows => PrefixSound
  <2> SUFFICES ASSUME IInv, Follows, ~clashed, NEW c \in Channel, NEW u \in On(store, c),
                      store.prefix[c][u] # NoPrefix
               PROVE  <<store.nick[u], store.prefix[c][u]>> \in held[c]
    BY DEF PrefixSound
  <2>1. u \in Uid /\ store.nick[u] \in Nick /\ store.prefix[c][u] \in EntryPrefix
    BY MemberRecord
  <2>2. Entry(store, c, store.nick[u], store.prefix[c][u])
    BY DEF Entry
  <2> QED BY <2>1, <2>2 DEF Follows, EntryPrefix
<1> QED BY <1>1, Invariance, StorageFollows, PTL

-----------------------------------------------------------------------------
(* The plugin seen.                                                        *)

SeenRow == [action : {"none", "is on", "should be on", "part", "quit"},
            channel : SUBSET Channel]

SeenTyped ==
    db \in [Nick -> SeenRow] /\ gone \in [Nick -> SeenRow] /\ missed \subseteq Nick

\* What the database and the histories have of one nickname, whatever the
\* storages know of it.
Remembered ==
    \A n \in Nick \ {me} :
      /\ db[n].action \in {"none", "is on", "part", "quit"}
      /\ db[n].action \in {"part", "quit"} =>
            gone[n].action = db[n].action /\ db[n].channel \subseteq gone[n].channel
      /\ Sighted(n) = {} /\ db[n].action = "is on" => n \in missed
      /\ Sighted(n) = {} /\ db[n].action = "none" => n \in missed \/ gone[n] = NoRow

\* The channels in the record that is found for a nickname are those of its
\* entries, as long as no two records carry one.
LEMMA ChannelsOfEntries ==
    ASSUME NEW s, WellFormed(s), ~Dangling(s), ~Clash(s), NEW n
    PROVE  \A c \in Channel : c \in ChannelsOf(s, n) <=> \E p \in EntryPrefix : Entry(s, c, n, p)
<1>1. /\ \A u \in Live(s) : s.chans[u] = {c \in s.joined : u \in On(s, c)}
      /\ \A c \in Channel : On(s, c) \subseteq Live(s)
      /\ \A u, v \in Live(s) : s.nick[u] = s.nick[v] => u = v
  BY DEF WellFormed, Linked, Dangling, Clash
<1>2. \A c \in Channel : \A u \in On(s, c) : c \in s.joined
  BY EmptySeq DEF WellFormed, On, Range
<1>3. \A c \in Channel : \A u \in On(s, c) : s.prefix[c][u] \in EntryPrefix
  BY ListedUids DEF WellFormed, Storage, EntryPrefix
<1>4. KnowsUser(s, n) <=> \E u \in Live(s) : s.nick[u] = n
  BY DEF KnowsUser, Named, Live, Range
<1>5. KnowsUser(s, n) => FindUser(s, n) \in Live(s) /\ s.nick[FindUser(s, n)] = n
  BY FoundUser
<1>6. ASSUME NEW c \in Channel, c \in ChannelsOf(s, n)
      PROVE  \E p \in EntryPrefix : Entry(s, c, n, p)
  <2>1. KnowsUser(s, n) /\ c \in s.chans[FindUser(s, n)]
    BY <1>6 DEF ChannelsOf
  <2>2. FindUser(s, n) \in On(s, c) /\ s.nick[FindUser(s, n)] = n
    BY <1>1, <1>5, <2>1
  <2> QED BY <1>3, <2>2 DEF Entry
<1>7. ASSUME NEW c \in Channel, NEW p \in EntryPrefix, Entry(s, c, n, p)
      PROVE  c \in ChannelsOf(s, n)
  <2>1. PICK u \in On(s, c) : s.nick[u] = n
    BY <1>7 DEF Entry
  <2>2. KnowsUser(s, n) /\ u = FindUser(s, n) /\ u \in Live(s)
    BY <1>1, <1>4, <1>5, <2>1
  <2>3. c \in s.chans[u]
    BY <1>1, <1>2, <2>1, <2>2
  <2> QED BY <2>2, <2>3 DEF ChannelsOf
<1> QED BY <1>6, <1>7

\* What the storages know of a nickname lies between what the bot has been told
\* and what is so, before and after the irclib_add_user of a handler.
LEMMA KnownChannels ==
    ASSUME IInv, Follows, ~clashed, NEW n \in Nick
    PROVE  /\ Told(n) \subseteq ChannelsOf(store, n) /\ ChannelsOf(store, n) \subseteq Sighted(n)
           /\ Room(store, n) =>
                ChannelsOf(AddUser(store, n), n) = ChannelsOf(store, n)
<1>1. /\ WellFormed(store) /\ ~Dangling(store) /\ ~Clash(store)
      /\ roster \in [Channel -> SUBSET Nick] /\ due \in [Channel -> SUBSET Nick]
  BY DEF IInv, NetworkTypeOK
<1>2. \A c \in Channel :
          /\ \A p \in EntryPrefix : Entry(store, c, n, p) => n \in roster[c]
          /\ n \in roster[c] \ due[c] => \E p \in EntryPrefix : Entry(store, c, n, p)
  BY DEF Follows, EntryPrefix
<1>3. \A c \in Channel :
          c \in ChannelsOf(store, n) <=> \E p \in EntryPrefix : Entry(store, c, n, p)
  BY <1>1, ChannelsOfEntries
<1>4. \A s : WellFormed(s) => ChannelsOf(s, n) \subseteq Channel
  <2> SUFFICES ASSUME NEW s, WellFormed(s), KnowsUser(s, n)
               PROVE  s.chans[FindUser(s, n)] \subseteq Channel
    BY DEF ChannelsOf
  <2>1. FindUser(s, n) \in Uid
    BY FoundUser, ListedUids
  <2> QED BY <2>1 DEF WellFormed, Storage
<1>5. Told(n) \subseteq ChannelsOf(store, n)
  BY <1>2, <1>3 DEF Told
<1>6. ChannelsOf(store, n) \subseteq Sighted(n)
  BY <1>1, <1>2, <1>3, <1>4 DEF Sighted
<1>7. ASSUME Room(store, n)
      PROVE  ChannelsOf(AddUser(store, n), n) = ChannelsOf(store, n)
  <2>1. PICK s : s = AddUser(store, n)
    OBVIOUS
  <2>2. /\ WellFormed(s) /\ ~Dangling(s) /\ ~Clash(s)
        /\ \A c \in Channel : \A m, p : Entry(s, c, m, p) <=> Entry(store, c, m, p)
    BY <1>1, <1>7, <2>1, AfterAddUser
  <2>3. \A c \in Channel :
            c \in ChannelsOf(s, n) <=> \E p \in EntryPrefix : Entry(s, c, n, p)
    BY <2>2, ChannelsOfEntries
  <2> QED BY <1>1, <1>3, <1>4, <2>1, <2>2, <2>3
<1> QED BY <1>5, <1>6, <1>7

\* The handlers of seen go with messages of the network.
LEMMA SeenNextIsNext == IInv /\ [SeenNext]_seenVars => [Next]_vars
<1> SUFFICES ASSUME IInv, [SeenNext]_seenVars PROVE [Next]_vars
  OBVIOUS
<1>1. CASE UNCHANGED seenVars
  BY <1>1 DEF seenVars
<1>2. CASE SeenNext
  <2>1. ~Dangling(store) /\ me \in Nick
    BY <1>2 DEF IInv, SeenNext, NetworkTypeOK
  <2>2. CASE \E c \in Channel, n \in Nick : SeenJoin(c, n) \/ SeenPart(c, n)
    BY <2>1, <2>2 DEF SeenJoin, SeenPart, Next
  <2>3. CASE \E n \in Nick : SeenQuit(n)
    BY <2>1, <2>3 DEF SeenQuit, Next
  <2>4. CASE Unseen
    <3>1. CASE \E n \in Nick : Message(n)
      BY <2>1, <3>1 DEF Next
    <3>2. CASE \E c \in Channel, others \in SUBSET (Nick \ {me}) : JoinMyself(c, others, {})
      <4>1. PICK c \in Channel, others \in SUBSET (Nick \ {me}) : JoinMyself(c, others, {})
        BY <3>2
      <4>2. {} \in SUBSET ((others \cup {me}) \X Prefix)
        OBVIOUS
      <4> QED BY <2>1, <4>1, <4>2 DEF Next
    <3>3. CASE \E c \in Channel, n \in Nick : NameReply(c, n) \/ Kick(c, n, me)
      BY <2>1, <3>3 DEF Next
    <3>4. CASE \E c \in Channel : PartMyself(c) \/ KickMyself(c, me)
      BY <2>1, <3>4 DEF Next
    <3>5. CASE \E n \in Nick \ {me}, new \in Nick : ChangeNick(n, new)
      BY <2>1, <3>5 DEF Next
    <3>6. CASE Shutdown
      BY <2>1, <3>6 DEF Next
    <3> QED BY <2>4, <3>1, <3>2, <3>3, <3>4, <3>5, <3>6 DEF Unseen
  <2> QED BY <1>2, <2>2, <2>3, <2>4 DEF SeenNext
<1> QED BY <1>1, <1>2

\* A handler of seen for n: what it writes about n is right, and whoever else is
\* on channels stays there.
LEMMA WrittenDown ==
    ASSUME SeenTyped, Remembered, NEW n \in Nick, me' = me,
           NEW row \in SeenRow, db' = [db EXCEPT ![n] = row],
           NEW left \in SeenRow, gone' = gone \/ gone' = [gone EXCEPT ![n] = left],
           missed' = missed \/ missed' = missed \ {n},
           \A c \in Channel, m \in Nick \ {n} : m \in roster'[c] <=> m \in roster[c],
           row.action \in {"is on", "part", "quit"},
           row.action \in {"part", "quit"} =>
               gone'[n].action = row.action /\ row.channel \subseteq gone'[n].channel,
           row.action = "is on" => \E c \in Channel : n \in roster'[c]
    PROVE  SeenTyped' /\ Remembered'
<1>1. SeenTyped'
  BY DEF SeenTyped
<1>2. \A m \in Nick \ {n} : /\ db'[m] = db[m] /\ gone'[m] = gone[m]
                            /\ (m \in missed' <=> m \in missed)
                            /\ Sighted(m)' = Sighted(m)
  BY DEF SeenTyped, Sighted
<1>3. db'[n] = row
  BY DEF SeenTyped
<1>4. row.action = "is on" => Sighted(n)' # {}
  BY DEF Sighted
<1>5. ASSUME NEW m \in Nick \ {me}
      PROVE  /\ db'[m].action \in {"none", "is on", "part", "quit"}
             /\ db'[m].action \in {"part", "quit"} =>
                   gone'[m].action = db'[m].action /\ db'[m].channel \subseteq gone'[m].channel
             /\ Sighted(m)' = {} /\ db'[m].action = "is on" => m \in missed'
             /\ Sighted(m)' = {} /\ db'[m].action = "none" => m \in missed' \/ gone'[m] = NoRow
  <2>1. CASE m = n
    BY <1>3, <1>4, <2>1
  <2>2. CASE m # n
    <3>1. /\ db[m].action \in {"none", "is on", "part", "quit"}
          /\ db[m].action \in {"part", "quit"} =>
                gone[m].action = db[m].action /\ db[m].channel \subseteq gone[m].channel
          /\ Sighted(m) = {} /\ db[m].action = "is on" => m \in missed
          /\ Sighted(m) = {} /\ db[m].action = "none" => m \in missed \/ gone[m] = NoRow
      BY <1>5 DEF Remembered
    <3> QED BY <1>2, <2>2, <3>1
  <2> QED BY <2>1, <2>2
<1>6. Remembered'
  BY <1>5 DEF Remembered
<1> QED BY <1>1, <1>6

\* Every step keeps what the database and the histories say.
LEMMA NextRemembered ==
    IInv /\ Follows /\ SeenTyped /\ Remembered /\ [SeenNext]_seenVars => SeenTyped' /\ Remembered'
<1> SUFFICES ASSUME IInv, Follows, SeenTyped, Remembered, [SeenNext]_seenVars
             PROVE  SeenTyped' /\ Remembered'
  OBVIOUS
<1>0. /\ roster \in [Channel -> SUBSET Nick] /\ me \in Nick
      /\ db \in [Nick -> SeenRow] /\ gone \in [Nick -> SeenRow] /\ missed \subseteq Nick
  BY DEF IInv, NetworkTypeOK, SeenTyped
<1>1. CASE UNCHANGED seenVars
  BY <1>1 DEF seenVars, vars, SeenTyped, Remembered, Sighted
<1>2. CASE SeenNext
  <2>0. ~clashed
    BY <1>2 DEF SeenNext
  <2>1. ASSUME NEW c \in Channel, NEW n \in Nick, SeenJoin(c, n) PROVE SeenTyped' /\ Remembered'
    <3>1. /\ Join(c, n) /\ db' = [db EXCEPT ![n] = Row("is on", c)]
          /\ UNCHANGED <<gone, missed>>
      BY <2>1 DEF SeenJoin, UpdateLastSeen
    <3>2. me' = me /\ roster' = [roster EXCEPT ![c] = @ \cup {n}]
      BY <3>1 DEF Join
    <3>3. PICK row : row = Row("is on", c)
      OBVIOUS
    <3>4. row \in SeenRow /\ row.action = "is on"
      BY <3>3 DEF Row, SeenRow
    <3>5. n \in roster'[c] /\ \A d \in Channel, m \in Nick \ {n} : m \in roster'[d] <=> m \in roster[d]
      BY <1>0, <3>2
    <3>6. db' = [db EXCEPT ![n] = row] /\ gone' = gone /\ missed' = missed
      BY <3>1, <3>3
    <3> QED BY <3>2, <3>4, <3>5, <3>6, WrittenDown
  <2>2. ASSUME NEW c \in Channel, NEW n \in Nick, SeenPart(c, n) PROVE SeenTyped' /\ Remembered'
    <3>1. PICK known : known = ChannelsOf(store, n)
      OBVIOUS
    <3>2. /\ Part(c, n) /\ Room(store, n) /\ n \in roster[c]
          /\ ChannelsOf(AddUser(store, n), n) = known
          /\ Told(n) \subseteq known /\ known \subseteq Sighted(n)
      BY <2>0, <2>2, <3>1, KnownChannels DEF SeenPart, Part
    <3>3. /\ \/ known \ {c} = {} /\ db' = [db EXCEPT ![n] = Row("part", c)]
             \/ \E d \in known \ {c} : db' = [db EXCEPT ![n] = Row("is on", d)]
          /\ Parted(c, n)
      BY <2>2, <3>2 DEF SeenPart, UpdateLastSeen
    <3>4. /\ me' = me
          /\ \A d \in Channel : roster'[d] = IF d = c THEN roster[d] \ {n} ELSE roster[d]
      BY <3>2 DEF Part, Leave
    <3>5. /\ gone' = gone \/ gone' = [gone EXCEPT ![n] = Row("part", c)]
          /\ missed' = missed \/ missed' = missed \ {n}
          /\ Told(n) \subseteq {c} => gone'[n] = Row("part", c)
      BY <1>0, <3>3 DEF Parted
    <3>6. PICK left : left = Row("part", c)
      OBVIOUS
    <3>7. left \in SeenRow /\ left.action = "part" /\ left.channel = {c}
      BY <3>6 DEF Row, SeenRow
    <3>8. \A d \in Channel, m \in Nick \ {n} : m \in roster'[d] <=> m \in roster[d]
      BY <3>4
    <3>9. /\ gone' = gone \/ gone' = [gone EXCEPT ![n] = left]
          /\ missed' = missed \/ missed' = missed \ {n}
      BY <3>5, <3>6
    <3>10. CASE known \ {c} = {} /\ db' = [db EXCEPT ![n] = Row("part", c)]
      <4>1. Told(n) \subseteq {c}
        BY <3>2, <3>10
      <4>2. gone'[n] = left
        BY <3>5, <3>6, <4>1
      <4>3. db' = [db EXCEPT ![n] = left]
        BY <3>6, <3>10
      <4>4. me' = me /\ left.action \in {"is on", "part", "quit"} /\ left.action # "is on"
        BY <3>4, <3>7
      <4>5. gone'[n].action = left.action /\ left.channel \subseteq gone'[n].channel
        BY <4>2
      <4> QED BY <3>7, <3>8, <3>9, <4>3, <4>4, <4>5, WrittenDown
    <3>11. CASE \E d \in known \ {c} : db' = [db EXCEPT ![n] = Row("is on", d)]
      <4>1. PICK d \in known \ {c} : db' = [db EXCEPT ![n] = Row("is on", d)]
        BY <3>11
      <4>2. d \in Channel /\ n \in roster[d] /\ d # c
        BY <3>2, <4>1 DEF Sighted
      <4>3. n \in roster'[d]
        BY <3>4, <4>2
      <4>4. PICK row : row = Row("is on", d)
        OBVIOUS
      <4>5. row \in SeenRow /\ row.action = "is on"
        BY <4>2, <4>4 DEF Row, SeenRow
      <4>6. db' = [db EXCEPT ![n] = row]
        BY <4>1, <4>4
      <4>7. me' = me /\ row.action \notin {"part", "quit"} /\ \E e \in Channel : n \in roster'[e]
        BY <3>4, <4>2, <4>3, <4>5
      <4>8. row.action \in {"is on", "part", "quit"}
        BY <4>5
      <4> QED BY <3>7, <3>8, <3>9, <4>5, <4>6, <4>7, <4>8, WrittenDown
    <3> QED BY <3>3, <3>10, <3>11
  <2>3. ASSUME NEW n \in Nick, SeenQuit(n) PROVE SeenTyped' /\ Remembered'
    <3>1. PICK known : known = ChannelsOf(store, n)
      OBVIOUS
    <3>2. /\ Quit(n) /\ Room(store, n)
          /\ ChannelsOf(AddUser(store, n), n) = known
          /\ known \subseteq Sighted(n)
      BY <2>0, <2>3, <3>1, KnownChannels DEF SeenQuit, Quit
    <3>3. PICK left : left = [action |-> "quit",
                              channel |-> IF known = {} THEN db[n].channel ELSE Sighted(n)]
      OBVIOUS
    <3>4. /\ \/ known = {} /\ db' = [db EXCEPT ![n] = [db[n] EXCEPT !.action = "quit"]]
             \/ \E c \in known : db' = [db EXCEPT ![n] = Row("quit", c)]
          /\ gone' = [gone EXCEPT ![n] = left] /\ missed' = missed \ {n}
      BY <2>3, <3>2, <3>3 DEF SeenQuit, UpdateLastSeen
    <3>5. /\ me' = me
          /\ \A d \in Channel : roster'[d] = roster[d] \ {n}
      BY <3>2 DEF Quit, Leave
    <3>6. db[n] \in SeenRow /\ db[n].channel \subseteq Channel /\ Sighted(n) \subseteq Channel
      BY <1>0 DEF SeenRow, Sighted
    <3>7. /\ left \in SeenRow /\ left.action = "quit" /\ gone'[n] = left
          /\ left.channel = IF known = {} THEN db[n].channel ELSE Sighted(n)
      BY <1>0, <3>3, <3>4, <3>6 DEF SeenRow
    <3>8. \A d \in Channel, m \in Nick \ {n} : m \in roster'[d] <=> m \in roster[d]
      BY <3>5
    <3>9. CASE known = {} /\ db' = [db EXCEPT ![n] = [db[n] EXCEPT !.action = "quit"]]
      <4>1. PICK row : row = [db[n] EXCEPT !.action = "quit"]
        OBVIOUS
      <4>2. row \in SeenRow /\ row.action = "quit" /\ row.channel = db[n].channel
        BY <3>6, <4>1 DEF SeenRow
      <4>3. db' = [db EXCEPT ![n] = row]
        BY <3>9, <4>1
      <4>4. /\ me' = me /\ row.action \in {"is on", "part", "quit"} /\ row.action # "is on"
            /\ gone'[n].action = row.action /\ row.channel \subseteq gone'[n].channel
        BY <3>5, <3>7, <3>9, <4>2
      <4> QED BY <3>4, <3>7, <3>8, <4>2, <4>3, <4>4, WrittenDown
    <3>10. CASE \E c \in known : db' = [db EXCEPT ![n] = Row("quit", c)]
      <4>1. PICK c \in known : db' = [db EXCEPT ![n] = Row("quit", c)]
        BY <3>10
      <4>2. PICK row : row = Row("quit", c)
        OBVIOUS
      <4>3. c \in Sighted(n) /\ c \in Channel
        BY <3>2, <3>6
      <4>4. row \in SeenRow /\ row.action = "quit" /\ row.channel = {c}
        BY <4>2, <4>3 DEF Row, SeenRow
      <4>5. row.channel \subseteq gone'[n].channel
        BY <3>7, <4>1, <4>3, <4>4
      <4>6. db' = [db EXCEPT ![n] = row]
        BY <4>1, <4>2
      <4>7. /\ me' = me /\ row.action \in {"is on", "part", "quit"} /\ row.action # "is on"
            /\ gone'[n].action = row.action
        BY <3>5, <3>7, <4>4
      <4> QED BY <3>4, <3>7, <3>8, <4>4, <4>5, <4>6, <4>7, WrittenDown
    <3> QED BY <3>4, <3>9, <3>10
  <2>4. CASE Unseen
    <3>1. /\ db' = db /\ gone' = gone
          /\ missed' = missed \cup {n \in Nick : Sighted(n) # {}
                                                 /\ \A c \in Channel : n \notin roster'[c]}
      BY <2>4 DEF Unseen
    <3>2. me' = me
      <4>1. \A n \in Nick : Message(n) => me' = me
        BY DEF Message
      <4>2. \A c \in Channel : \A others : JoinMyself(c, others, {}) => me' = me
        BY DEF JoinMyself
      <4>3. \A c \in Channel, n \in Nick : NameReply(c, n) \/ Kick(c, n, me) => me' = me
        BY DEF NameReply, Kick
      <4>4. \A c \in Channel : PartMyself(c) \/ KickMyself(c, me) => me' = me
        BY DEF PartMyself, KickMyself
      <4>5. Shutdown => me' = me
        BY DEF Shutdown
      <4>6. \A n \in Nick \ {me}, new \in Nick : ChangeNick(n, new) => me' = me
        BY DEF ChangeNick
      <4> QED BY <1>0, <2>4, <4>1, <4>2, <4>3, <4>4, <4>5, <4>6 DEF Unseen
    <3>3. SeenTyped'
      BY <1>0, <3>1 DEF SeenTyped
    <3>4. ASSUME NEW m \in Nick \ {me}
          PROVE  /\ db'[m].action \in {"none", "is on", "part", "quit"}
                 /\ db'[m].action \in {"part", "quit"} =>
                       gone'[m].action = db'[m].action /\ db'[m].channel \subseteq gone'[m].channel
                 /\ Sighted(m)' = {} /\ db'[m].action = "is on" => m \in missed'
                 /\ Sighted(m)' = {} /\ db'[m].action = "none" => m \in missed' \/ gone'[m] = NoRow
      <4>1. Sighted(m)' = {} /\ Sighted(m) # {} => m \in missed'
        BY <3>1 DEF Sighted
      <4>2. m \in missed => m \in missed'
        BY <3>1
      <4> QED BY <3>1, <3>4, <4>1, <4>2 DEF Remembered
    <3> QED BY <3>2, <3>3, <3>4 DEF Remembered
  <2> QED BY <1>2, <2>1, <2>2, <2>3, <2>4 DEF SeenNext
<1> QED BY <1>1, <1>2

\* seen: whoever is known to be on a channel is said to be there, nobody is said
\* to be where he is not, a PART or QUIT that is told was the last one, and who
\* has left so is told of, for any number of nicknames, channels and records.
THEOREM SeenTellsTheTruth == SeenSpec => []SeenRight
<1>1. SeenInit => IInv /\ Follows /\ SeenTyped /\ Remembered
  <2> SUFFICES ASSUME SeenInit PROVE IInv /\ Follows /\ SeenTyped /\ Remembered
    OBVIOUS
  <2>1. Init /\ db = [n \in Nick |-> NoRow] /\ gone = [n \in Nick |-> NoRow] /\ missed = {}
    BY DEF SeenInit
  <2>2. NoRow \in SeenRow /\ NoRow.action = "none"
    BY DEF NoRow, SeenRow
  <2>3. SeenTyped
    BY <2>1, <2>2 DEF SeenTyped
  <2>4. Remembered
    BY <2>1, <2>2 DEF Remembered
  <2> QED BY <2>1, <2>3, <2>4, InitIInv, InitFollows
<1>2. IInv /\ Follows /\ SeenTyped /\ Remembered /\ [SeenNext]_seenVars
         => IInv' /\ Follows' /\ SeenTyped' /\ Remembered'
  BY SeenNextIsNext, NextIInv, NextFollows, NextRemembered
<1>3. IInv /\ Follows /\ SeenTyped /\ Remembered => SeenRight
  <2> SUFFICES ASSUME IInv, Follows, SeenTyped, Remembered, ~clashed,
                      NEW n \in Nick \ {me}, NEW a \in Answers(n)
               PROVE  /\ a.action = "is on" => a.channel \subseteq Sighted(n)
                      /\ Told(n) # {} => a.action = "is on"
                      /\ a.action \in {"part", "quit"} =>
                           a.action = gone[n].action /\ a.channel \subseteq gone[n].channel
                      /\ Sighted(n) = {} /\ a.action = "should be on" => n \in missed
                      /\ Sighted(n) = {} /\ a.action = "none" => n \in missed \/ gone[n] = NoRow
    BY DEF SeenRight
  <2>1. Told(n) \subseteq ChannelsOf(store, n) /\ ChannelsOf(store, n) \subseteq Sighted(n)
    BY KnownChannels
  <2>2. CASE ChannelsOf(store, n) # {}
    <3>1. PICK c \in ChannelsOf(store, n) : a = Row("is on", c)
      BY <2>2 DEF Answers
    <3>2. a.action = "is on" /\ a.channel = {c}
      BY <3>1 DEF Row
    <3> QED BY <2>1, <3>1, <3>2
  <2>3. CASE ChannelsOf(store, n) = {} /\ db[n].action = "is on"
    <3>1. a = [db[n] EXCEPT !.action = "should be on"] /\ db[n] \in SeenRow
      BY <2>3 DEF Answers, SeenTyped
    <3>2. a.action = "should be on"
      BY <3>1 DEF SeenRow
    <3> QED BY <2>1, <2>3, <3>2 DEF Remembered
  <2>4. CASE ChannelsOf(store, n) = {} /\ db[n].action # "is on"
    <3>1. a = db[n]
      BY <2>4 DEF Answers
    <3> QED BY <2>1, <2>4, <3>1 DEF Remembered
  <2> QED BY <2>2, <2>3, <2>4
<1> QED BY <1>1, <1>2, <1>3, PTL DEF SeenSpec

-----------------------------------------------------------------------------
(* The texts that calc takes apart.                                        *)

\* The least position of a set, if it is known.
LEMMA MinIs ==
    ASSUME NEW P \in SUBSET Nat, NEW k \in P, \A i \in P : k <= i
    PROVE  Min(P) = k
<1>1. PICK least : least = Min(P)
  OBVIOUS
<1>2. least \in P /\ \A i \in P : least <= i
  BY <1>1 DEF Min
<1>3. least \in Nat /\ k \in Nat /\ k <= least /\ least <= k
  BY <1>2
<1> QED BY <1>1, <1>3

\* The greatest position of a set, if it is known.
LEMMA MaxIs ==
    ASSUME NEW P \in SUBSET Nat, NEW k \in P, \A i \in P : i <= k
    PROVE  Max(P) = k
<1>1. PICK greatest : greatest = Max(P)
  OBVIOUS
<1>2. greatest \in P /\ \A i \in P : greatest >= i
  BY <1>1 DEF Max
<1>3. greatest \in Nat /\ k \in Nat /\ k <= greatest /\ greatest <= k
  BY <1>2
<1> QED BY <1>1, <1>3

\* A run of characters of a text is a text.
LEMMA PartOfText ==
    ASSUME NEW s, NEW m \in Nat, NEW n \in Nat, \A i \in 1..n : s[m + i] \in Char
    PROVE  /\ SubSeq(s, m + 1, m + n) \in Seq(Char) /\ Len(SubSeq(s, m + 1, m + n)) = n
           /\ \A i \in 1..n : SubSeq(s, m + 1, m + n)[i] = s[m + i]
<1>0. PICK c : c = SubSeq(s, m + 1, m + n)
  OBVIOUS
<1>1. ASSUME NEW i \in (m + 1)..(m + n) PROVE s[i] \in Char
  <2>1. i - m \in 1..n /\ m + (i - m) = i
    OBVIOUS
  <2> QED BY <2>1
<1>2. m + 1 \in Int /\ m + n \in Int
  OBVIOUS
<1>3. /\ c \in Seq(Char)
      /\ Len(c) = IF m + 1 <= m + n THEN (m + n) - (m + 1) + 1 ELSE 0
      /\ \A i \in 1..((m + n) - (m + 1) + 1) : c[i] = s[(m + 1) + i - 1]
  BY <1>0, <1>1, <1>2, SubSeqProperties
<1>4. (m + n) - (m + 1) + 1 = n /\ \A i \in 1..n : (m + 1) + i - 1 = m + i
  OBVIOUS
<1>5. Len(c) = n
  BY <1>3, <1>4
<1>6. \A i \in 1..n : c[i] = s[m + i]
  BY ONLY <1>3, <1>4
<1> QED BY ONLY <1>0, <1>3, <1>5, <1>6

\* The characters of a concatenation.
LEMMA CharsOfConcat ==
    ASSUME NEW a \in Seq(Char), NEW b \in Seq(Char)
    PROVE  /\ Len(a) \in Nat /\ Len(b) \in Nat
           /\ a \o b \in Seq(Char) /\ Len(a \o b) = Len(a) + Len(b)
           /\ DOMAIN (a \o b) = 1..(Len(a) + Len(b))
           /\ \A i \in 1..Len(a) : a[i] \in Char /\ (a \o b)[i] = a[i]
           /\ \A i \in 1..Len(b) : b[i] \in Char /\ (a \o b)[Len(a) + i] = b[i]
<1>1. PICK m : m = Len(a)
  OBVIOUS
<1>2. PICK n : n = Len(b)
  OBVIOUS
<1>3. PICK s : s = a \o b
  OBVIOUS
<1>4. m \in Nat /\ n \in Nat
  BY <1>1, <1>2, LenProperties
<1>5. /\ a \o b \in Seq(Char) /\ Len(a \o b) = Len(a) + Len(b)
      /\ \A i \in 1..(Len(a) + Len(b)) :
             (a \o b)[i] = IF i <= Len(a) THEN a[i] ELSE b[i - Len(a)]
  BY ConcatProperties
<1>6. /\ s \in Seq(Char) /\ Len(s) = m + n
      /\ \A i \in 1..(m + n) : s[i] = IF i <= m THEN a[i] ELSE b[i - m]
  BY ONLY <1>1, <1>2, <1>3, <1>5
<1>7. DOMAIN s = 1..(m + n)
  BY ONLY <1>6, LenProperties
<1>8. (\A i \in 1..m : a[i] \in Char) /\ (\A i \in 1..n : b[i] \in Char)
  BY <1>1, <1>2, ElementOfSeq
<1>9. \A i \in 1..m : s[i] = a[i]
  BY ONLY <1>4, <1>6
<1>10. ASSUME NEW i \in 1..n PROVE s[m + i] = b[i]
  <2>1. m + i \in 1..(m + n) /\ ~(m + i <= m) /\ (m + i) - m = i
    BY ONLY <1>4, i \in 1..n
  <2> QED BY ONLY <1>6, <2>1
<1> QED BY ONLY <1>1, <1>2, <1>3, <1>4, <1>6, <1>7, <1>8, <1>9, <1>10

\* Texts that are joined are a text.
LEMMA JoinedText == \A x \in Seq(Char) : \A y \in Seq(Char) : x \o y \in Seq(Char)
  BY ConcatProperties

\* It does not matter in what order they are joined.
LEMMA Associative ==
    \A x \in Seq(Char) : \A y \in Seq(Char) : \A z \in Seq(Char) :
        (x \o y) \o z = x \o (y \o z)
  BY ConcatAssociative

\* The two parts of a concatenation.
LEMMA PartsOfConcat ==
    ASSUME NEW a \in Seq(Char), NEW b \in Seq(Char)
    PROVE  /\ SubSeq(a \o b, 1, Len(a)) = a
           /\ SubSeq(a \o b, Len(a) + 1, Len(a \o b)) = b
<1>0. PICK s : s = a \o b
  OBVIOUS
<1>1. PICK m : m = Len(a)
  OBVIOUS
<1>2. PICK n : n = Len(b)
  OBVIOUS
<1>3. /\ m \in Nat /\ n \in Nat /\ Len(s) = m + n
      /\ \A i \in 1..m : a[i] \in Char /\ s[i] = a[i]
      /\ \A i \in 1..n : b[i] \in Char /\ s[m + i] = b[i]
  <2>1. /\ Len(a) \in Nat /\ Len(b) \in Nat /\ Len(a \o b) = Len(a) + Len(b)
        /\ \A i \in 1..Len(a) : a[i] \in Char /\ (a \o b)[i] = a[i]
        /\ \A i \in 1..Len(b) : b[i] \in Char /\ (a \o b)[Len(a) + i] = b[i]
    BY CharsOfConcat
  <2> QED BY ONLY <1>0, <1>1, <1>2, <2>1
<1>4. PICK c : c = SubSeq(s, 1, m)
  OBVIOUS
<1>5. c = a
  <2>1. 0 + 1 = 1 /\ 0 + m = m /\ \A i \in 1..m : 0 + i = i
    BY ONLY <1>3
  <2>2. c = SubSeq(s, 0 + 1, 0 + m) /\ (\A i \in 1..m : s[0 + i] \in Char) /\ 0 \in Nat /\ m \in Nat
    BY ONLY <1>3, <1>4, <2>1
  <2>3. c \in Seq(Char) /\ Len(c) = m /\ \A i \in 1..m : c[i] = s[0 + i]
    <3>1. /\ SubSeq(s, 0 + 1, 0 + m) \in Seq(Char) /\ Len(SubSeq(s, 0 + 1, 0 + m)) = m
          /\ \A i \in 1..m : SubSeq(s, 0 + 1, 0 + m)[i] = s[0 + i]
      BY ONLY <2>2, PartOfText
    <3> QED BY ONLY <2>2, <3>1
  <2>4. \A i \in 1..m : c[i] = a[i]
    BY ONLY <1>3, <2>1, <2>3
  <2> QED BY <1>1, <2>3, <2>4, SeqEqual
<1>6. PICK d : d = SubSeq(s, m + 1, m + n)
  OBVIOUS
<1>7. d = b
  <2>1. \A i \in 1..n : s[m + i] \in Char
    <3>1. \A i \in 1..n : b[i] \in Char /\ s[m + i] = b[i]
      BY ONLY <1>3
    <3> QED BY ONLY <3>1
  <2>2. m \in Nat /\ n \in Nat
    BY ONLY <1>3
  <2>3. d \in Seq(Char) /\ Len(d) = n /\ \A i \in 1..n : d[i] = s[m + i]
    <3>1. /\ SubSeq(s, m + 1, m + n) \in Seq(Char) /\ Len(SubSeq(s, m + 1, m + n)) = n
          /\ \A i \in 1..n : SubSeq(s, m + 1, m + n)[i] = s[m + i]
      BY ONLY <2>1, <2>2, PartOfText
    <3> QED BY ONLY <1>6, <3>1
  <2>4. \A i \in 1..n : d[i] = b[i]
    BY ONLY <1>3, <2>3
  <2> QED BY <1>2, <2>3, <2>4, SeqEqual
<1> QED BY ONLY <1>0, <1>1, <1>3, <1>4, <1>5, <1>6, <1>7

Blank(p) == p \in Seq(Char) /\ \A i \in 1..Len(p) : p[i] = " "

\* Blanks in front of a text are taken off.
LEMMA TrimLeftOf ==
    ASSUME NEW p, Blank(p), NEW s \in Seq(Char), s # <<>> => s[1] # " "
    PROVE  TrimLeft(p \o s) = s
<1>1. PICK m : m = Len(p)
  OBVIOUS
<1>2. PICK n : n = Len(s)
  OBVIOUS
<1>3. PICK t : t = p \o s
  OBVIOUS
<1>4. /\ m \in Nat /\ n \in Nat /\ Len(t) = m + n /\ DOMAIN t = 1..(m + n)
      /\ \A i \in 1..m : t[i] = p[i]
      /\ \A i \in 1..n : t[m + i] = s[i]
  <2>1. p \in Seq(Char)
    BY DEF Blank
  <2>2. /\ Len(p) \in Nat /\ Len(s) \in Nat /\ Len(p \o s) = Len(p) + Len(s)
        /\ DOMAIN (p \o s) = 1..(Len(p) + Len(s))
        /\ \A i \in 1..Len(p) : p[i] \in Char /\ (p \o s)[i] = p[i]
        /\ \A i \in 1..Len(s) : s[i] \in Char /\ (p \o s)[Len(p) + i] = s[i]
    BY <2>1, CharsOfConcat
  <2> QED BY ONLY <1>1, <1>2, <1>3, <2>2
<1>5. \A i \in 1..m : t[i] = " "
  <2>1. \A i \in 1..m : p[i] = " "
    BY <1>1 DEF Blank
  <2> QED BY ONLY <1>4, <2>1
<1>6. \A i \in Printed(t) : i \in Nat /\ m + 1 <= i /\ i <= m + n
  <2>1. ASSUME NEW i \in Printed(t) PROVE i \in 1..(m + n) /\ ~(i \in 1..m)
    BY ONLY <1>4, <1>5, i \in Printed(t) DEF Printed
  <2>2. ASSUME NEW i \in 1..(m + n), ~(i \in 1..m)
        PROVE  i \in Nat /\ m + 1 <= i /\ i <= m + n
    BY ONLY <1>4, i \in 1..(m + n), ~(i \in 1..m)
  <2> QED BY ONLY <2>1, <2>2
<1>7. CASE s = <<>>
  <2>1. n = 0
    BY <1>2, <1>7
  <2>2. Printed(t) = {}
    BY ONLY <1>4, <1>6, <2>1
  <2> QED BY <1>3, <1>7, <2>2 DEF TrimLeft
<1>8. CASE s # <<>>
  <2>0. (s = <<>>) <=> (Len(s) = 0)
    BY EmptySeq
  <2>1. Len(s) # 0 /\ s[1] # " "
    BY <1>2, <1>8, <2>0
  <2>2. n >= 1 /\ m + 1 \in 1..(m + n) /\ 1 \in 1..n
    <3>1. m \in Nat /\ n \in Nat /\ n # 0
      BY ONLY <1>2, <1>4, <2>1
    <3> QED BY ONLY <3>1
  <2>3. t[m + 1] # " "
    BY ONLY <1>4, <2>1, <2>2
  <2>4. m + 1 \in Printed(t)
    BY ONLY <1>4, <2>2, <2>3 DEF Printed
  <2>5. Printed(t) \in SUBSET Nat
    BY ONLY <1>6
  <2>6. Min(Printed(t)) = m + 1
    BY ONLY <1>6, <2>4, <2>5, MinIs
  <2>7. TrimLeft(t) = SubSeq(t, Len(p) + 1, Len(t))
    BY ONLY <1>1, <2>4, <2>6 DEF TrimLeft
  <2>8. p \in Seq(Char)
    BY DEF Blank
  <2>9. SubSeq(p \o s, Len(p) + 1, Len(p \o s)) = s
    BY <2>8, PartsOfConcat
  <2> QED BY ONLY <1>3, <2>7, <2>9
<1> QED BY <1>7, <1>8

\* Blanks behind a text are taken off.
LEMMA TrimRightOf ==
    ASSUME NEW p, Blank(p), NEW s \in Seq(Char), s # <<>> => s[Len(s)] # " "
    PROVE  TrimRight(s \o p) = s
<1>1. PICK m : m = Len(p)
  OBVIOUS
<1>2. PICK n : n = Len(s)
  OBVIOUS
<1>3. PICK t : t = s \o p
  OBVIOUS
<1>4. /\ m \in Nat /\ n \in Nat /\ Len(t) = n + m /\ DOMAIN t = 1..(n + m)
      /\ \A i \in 1..n : t[i] = s[i]
      /\ \A i \in 1..m : t[n + i] = p[i]
  <2>1. p \in Seq(Char)
    BY DEF Blank
  <2>2. /\ Len(s) \in Nat /\ Len(p) \in Nat /\ Len(s \o p) = Len(s) + Len(p)
        /\ DOMAIN (s \o p) = 1..(Len(s) + Len(p))
        /\ \A i \in 1..Len(s) : s[i] \in Char /\ (s \o p)[i] = s[i]
        /\ \A i \in 1..Len(p) : p[i] \in Char /\ (s \o p)[Len(s) + i] = p[i]
    BY <2>1, CharsOfConcat
  <2> QED BY ONLY <1>1, <1>2, <1>3, <2>2
<1>5. \A i \in 1..m : t[n + i] = " "
  <2>1. \A i \in 1..m : p[i] = " "
    BY <1>1 DEF Blank
  <2> QED BY ONLY <1>4, <2>1
<1>6. \A i \in Printed(t) : i \in Nat /\ 1 <= i /\ i <= n
  <2>1. ASSUME NEW i \in 1..(n + m), ~(i <= n) PROVE t[i] = " "
    <3>1. i - n \in 1..m /\ n + (i - n) = i
      BY ONLY <1>4, i \in 1..(n + m), ~(i <= n)
    <3> QED BY ONLY <1>5, <3>1
  <2>2. ASSUME NEW i \in Printed(t) PROVE i \in 1..(n + m) /\ t[i] # " "
    BY ONLY <1>4, i \in Printed(t) DEF Printed
  <2>3. \A i \in 1..(n + m) : i \in Nat /\ 1 <= i
    BY ONLY <1>4
  <2> QED BY ONLY <2>1, <2>2, <2>3
<1>7. CASE s = <<>>
  <2>1. n = 0
    BY <1>2, <1>7
  <2>2. Printed(t) = {}
    BY ONLY <1>4, <1>6, <2>1
  <2> QED BY <1>3, <1>7, <2>2 DEF TrimRight
<1>8. CASE s # <<>>
  <2>0. (s = <<>>) <=> (Len(s) = 0)
    BY EmptySeq
  <2>1. Len(s) # 0 /\ s[n] # " "
    BY <1>2, <1>8, <2>0
  <2>2. n >= 1 /\ n \in 1..(n + m) /\ n \in 1..n
    <3>1. m \in Nat /\ n \in Nat /\ n # 0
      BY ONLY <1>2, <1>4, <2>1
    <3> QED BY ONLY <3>1
  <2>3. t[n] # " "
    BY ONLY <1>4, <2>1, <2>2
  <2>4. n \in Printed(t)
    BY ONLY <1>4, <2>2, <2>3 DEF Printed
  <2>5. Printed(t) \in SUBSET Nat
    BY ONLY <1>6
  <2>6. Max(Printed(t)) = n
    BY ONLY <1>6, <2>4, <2>5, MaxIs
  <2>7. TrimRight(t) = SubSeq(t, 1, Len(s))
    BY ONLY <1>2, <2>4, <2>6 DEF TrimRight
  <2>8. p \in Seq(Char)
    BY DEF Blank
  <2>9. SubSeq(s \o p, 1, Len(s)) = s
    BY <2>8, PartsOfConcat
  <2> QED BY ONLY <1>3, <2>7, <2>9
<1> QED BY <1>7, <1>8

\* The sign that ends the name is a text of one character.
LEMMA EqualsSign == <<"=">> \in Seq(Char) /\ Len(<<"=">>) = 1 /\ <<"=">>[1] = "="
<1>1. "=" \in Char
  <2>1. "=" \in {"?", "=", " "}
    OBVIOUS
  <2>2. \A S : "=" \in S \cup {"?", "=", " "}
    BY ONLY <2>1
  <2> QED BY ONLY <2>2 DEF Char
<1> QED BY ONLY <1>1

\* The text is split at its first "=".
LEMMA Split ==
    ASSUME NEW a \in Seq(Char), \A i \in 1..Len(a) : a[i] # "=", NEW w \in Seq(Char),
           NEW s, s = a \o (<<"=">> \o w)
    PROVE  /\ Contains(s, "=")
           /\ NameOf(s) = TrimRight(a) /\ ValueOf(s) = TrimLeft(w)
<1>1. PICK sign : sign = <<"=">>
  OBVIOUS
<1>2. sign \in Seq(Char) /\ Len(sign) = 1 /\ sign[1] = "="
  BY <1>1, EqualsSign
<1>3. PICK b : b = sign \o w
  OBVIOUS
<1>4. PICK n : n = Len(w)
  OBVIOUS
<1>5. n \in Nat /\ b \in Seq(Char) /\ Len(b) = 1 + n /\ b[1] = "="
  <2>1. /\ Len(w) \in Nat /\ sign \o w \in Seq(Char) /\ Len(sign \o w) = Len(sign) + Len(w)
        /\ \A i \in 1..Len(sign) : sign[i] \in Char /\ (sign \o w)[i] = sign[i]
    BY <1>2, CharsOfConcat
  <2>2. 1 \in 1..1
    OBVIOUS
  <2> QED BY ONLY <1>2, <1>3, <1>4, <2>1, <2>2
<1>6. PICK m : m = Len(a)
  OBVIOUS
<1>7. /\ m \in Nat /\ Len(s) = m + (1 + n)
      /\ \A i \in 1..m : s[i] = a[i]
      /\ \A i \in 1..(1 + n) : s[m + i] = b[i]
  <2>1. s = a \o b
    BY <1>1, <1>3
  <2>2. /\ Len(a) \in Nat /\ Len(a \o b) = Len(a) + Len(b)
        /\ \A i \in 1..Len(a) : a[i] \in Char /\ (a \o b)[i] = a[i]
        /\ \A i \in 1..Len(b) : b[i] \in Char /\ (a \o b)[Len(a) + i] = b[i]
    BY <1>5, CharsOfConcat
  <2> QED BY ONLY <1>5, <1>6, <2>1, <2>2
<1>8. m + 1 \in 1..(m + (1 + n)) /\ 1 \in 1..(1 + n)
  BY ONLY <1>5, <1>7
<1>9. s[m + 1] = "="
  BY ONLY <1>5, <1>7, <1>8
<1>10. \A i \in 1..m : s[i] # "="
  BY <1>6, <1>7
<1>11. PICK P : P = {i \in 1..Len(s) : s[i] = "="}
  OBVIOUS
<1>12. P \in SUBSET Nat /\ m + 1 \in P /\ \A i \in P : m + 1 <= i
  BY ONLY <1>5, <1>7, <1>8, <1>9, <1>10, <1>11
<1>13. Equals(s) = m + 1
  <2>1. Min(P) = m + 1
    BY ONLY <1>12, MinIs
  <2>2. Equals(s) = IF P # {} THEN Min(P) ELSE 0
    BY ONLY <1>11 DEF Equals, SelectInSeq
  <2> QED BY ONLY <1>12, <2>1, <2>2
<1>14. Contains(s, "=")
  BY ONLY <1>7, <1>8, <1>9 DEF Contains
<1>15. NameOf(s) = TrimRight(a)
  <2>1. SubSeq(s, 1, m) = a
    BY <1>1, <1>3, <1>5, <1>6, PartsOfConcat
  <2>2. (m + 1) - 1 = m
    BY ONLY <1>7
  <2> QED BY ONLY <1>13, <2>1, <2>2 DEF NameOf
<1>16. ValueOf(s) = TrimLeft(w)
  <2>1. PICK c : c = a \o sign
    OBVIOUS
  <2>2. c \in Seq(Char) /\ Len(c) = m + 1
    <3>1. a \o sign \in Seq(Char) /\ Len(a \o sign) = Len(a) + Len(sign)
      BY <1>2, CharsOfConcat
    <3> QED BY ONLY <1>2, <1>6, <2>1, <3>1
  <2>3. s = c \o w
    BY <1>1, <1>2, <2>1, ConcatAssociative
  <2>4. SubSeq(s, (m + 1) + 1, Len(s)) = w
    BY <2>2, <2>3, PartsOfConcat
  <2> QED BY ONLY <1>13, <2>4 DEF ValueOf
<1> QED BY <1>14, <1>15, <1>16

\* So is the "??" in front of a message.
LEMMA MarksAreText == <<"?", "?">> \in Seq(Char) /\ Len(<<"?", "?">>) = 2
<1>1. "?" \in {"?", "=", " "}
  OBVIOUS
<1>2. \A S : "?" \in {"?", "=", " "} \cup S
  BY ONLY <1>1
<1>3. "?" \in Char
  BY ONLY <1>2 DEF Char
<1> QED BY ONLY <1>3

\* The characters at the two ends of a concatenation.
LEMMA EndsOfConcat ==
    ASSUME NEW a \in Seq(Char), NEW b \in Seq(Char)
    PROVE  /\ a # <<>> => a \o b # <<>> /\ (a \o b)[1] = a[1]
           /\ b # <<>> => a \o b # <<>> /\ (a \o b)[Len(a \o b)] = b[Len(b)]
<1>1. /\ Len(a) \in Nat /\ Len(b) \in Nat
      /\ a \o b \in Seq(Char) /\ Len(a \o b) = Len(a) + Len(b)
      /\ \A i \in 1..Len(a) : a[i] \in Char /\ (a \o b)[i] = a[i]
      /\ \A i \in 1..Len(b) : b[i] \in Char /\ (a \o b)[Len(a) + i] = b[i]
  BY CharsOfConcat
<1>2. Len(<<>>) = 0
  BY EmptySeq
<1>3. ASSUME a # <<>> PROVE a \o b # <<>> /\ (a \o b)[1] = a[1]
  <2>1. Len(a) \in Nat \ {0}
    BY <1>3, EmptySeq
  <2>2. 1 \in 1..Len(a) /\ Len(a) + Len(b) # 0
    BY ONLY <1>1, <2>1
  <2> QED BY ONLY <1>1, <1>2, <2>2
<1>4. ASSUME b # <<>> PROVE a \o b # <<>> /\ (a \o b)[Len(a \o b)] = b[Len(b)]
  <2>1. Len(b) \in Nat \ {0}
    BY <1>4, EmptySeq
  <2>2. Len(b) \in 1..Len(b) /\ Len(a) + Len(b) # 0
    BY ONLY <1>1, <2>1
  <2> QED BY ONLY <1>1, <1>2, <2>2
<1> QED BY <1>3, <1>4

\* The "??" in front of a request is taken off, and blanks around it.
LEMMA TextIs ==
    ASSUME NEW p, Blank(p), NEW q, Blank(q), NEW s \in Seq(Char),
           s # <<>>, s[1] # " ", s[Len(s)] # " "
    PROVE  Text(<<"?", "?">> \o (p \o (s \o q))) = s
<1>1. PICK marks : marks = <<"?", "?">>
  OBVIOUS
<1>2. marks \in Seq(Char) /\ Len(marks) = 2
  BY <1>1, MarksAreText
<1>3. p \in Seq(Char) /\ q \in Seq(Char)
  BY DEF Blank
<1>4. PICK t : t = s \o q
  OBVIOUS
<1>5. t \in Seq(Char)
  BY <1>3, <1>4, ConcatProperties
<1>6. PICK u : u = p \o t
  OBVIOUS
<1>7. u \in Seq(Char)
  BY <1>3, <1>5, <1>6, ConcatProperties
<1>8. PICK v : v = marks \o u
  OBVIOUS
<1>9. SubSeq(v, 3, Len(v)) = u
  <2>1. SubSeq(marks \o u, Len(marks) + 1, Len(marks \o u)) = u
    BY <1>2, <1>7, PartsOfConcat
  <2>2. Len(marks) + 1 = 3
    BY ONLY <1>2
  <2> QED BY ONLY <1>8, <2>1, <2>2
<1>10. t[1] # " "
  BY <1>3, <1>4, EndsOfConcat
<1>11. TrimLeft(u) = t
  BY <1>5, <1>6, <1>10, TrimLeftOf
<1>12. TrimRight(t) = s
  BY <1>4, TrimRightOf
<1>13. Text(v) = s
  BY ONLY <1>9, <1>11, <1>12 DEF Text
<1> QED BY ONLY <1>1, <1>4, <1>6, <1>8, <1>13

\* What is meant by a message is a word: no blank is at its ends.
Word(s) ==
    /\ s \in Seq(Char)
    /\ s # <<>> => s[1] # " "
    /\ s # <<>> => s[Len(s)] # " "

NoSign(s) == \A i \in 1..Len(s) : s[i] # "="

\* What a message is made of.
LEMMA Words ==
    /\ \A pad \in Pad : Blank(pad)
    /\ \A name \in Typed : Word(name) /\ NoSign(name)
    /\ \A value \in Value : Word(value)
<1>1. ASSUME NEW pad \in Pad PROVE Blank(pad)
  <2>1. pad \in Seq(Char) /\ Range(pad) \subseteq {" "}
    BY CalcAssumption
  <2>2. \A i \in 1..Len(pad) : pad[i] \in Range(pad)
    BY <2>1, LenProperties DEF Range
  <2> QED BY ONLY <2>1, <2>2 DEF Blank
<1>2. ASSUME NEW str \in Typed \cup Value PROVE Word(str)
  BY CalcAssumption DEF Word
<1>3. ASSUME NEW name \in Typed PROVE NoSign(name)
  <2>1. name \in Seq(Char) /\ "=" \notin Range(name)
    BY CalcAssumption
  <2>2. \A i \in 1..Len(name) : name[i] \in Range(name)
    BY <2>1, LenProperties DEF Range
  <2> QED BY ONLY <2>1, <2>2 DEF NoSign
<1> QED BY <1>1, <1>2, <1>3

\* A question is read as the name that is asked for.
LEMMA QuestionRead ==
    ASSUME NEW name \in Typed, name # <<>>, NEW pad \in Pad
    PROVE  LET text == Text(<<"?", "?">> \o pad \o name \o pad)
           IN  text = name /\ ~Contains(text, "=")
<1>1. PICK marks : marks = <<"?", "?">>
  OBVIOUS
<1>2. marks \in Seq(Char)
  BY <1>1, MarksAreText
<1>3. /\ Blank(pad) /\ name \in Seq(Char) /\ name[1] # " " /\ name[Len(name)] # " "
      /\ \A i \in 1..Len(name) : name[i] # "="
  BY Words DEF Word, NoSign
<1>4. pad \in Seq(Char) /\ marks \o pad \in Seq(Char)
  BY <1>2, <1>3, ConcatProperties DEF Blank
<1>5. (marks \o pad) \o name \in Seq(Char) /\ name \o pad \in Seq(Char)
  BY <1>3, <1>4, ConcatProperties
<1>6. ((marks \o pad) \o name) \o pad = marks \o (pad \o (name \o pad))
  <2>1. ((marks \o pad) \o name) \o pad = (marks \o pad) \o (name \o pad)
    <3>1. name \in Seq(Char)
      BY <1>3
    <3> QED BY <1>4, <3>1, ConcatAssociative
  <2>2. (marks \o pad) \o (name \o pad) = marks \o (pad \o (name \o pad))
    <3>1. pad \in Seq(Char)
      BY ONLY <1>4
    <3>2. name \o pad \in Seq(Char)
      BY ONLY <1>5
    <3> QED BY ONLY <1>2, <3>1, <3>2, Associative
  <2> QED BY ONLY <2>1, <2>2
<1>7. Text(<<"?", "?">> \o (pad \o (name \o pad))) = name
  BY <1>3, TextIs
<1>8. Text(<<"?", "?">> \o pad \o name \o pad) = name
  BY ONLY <1>1, <1>6, <1>7
<1>9. ~Contains(name, "=")
  BY ONLY <1>3 DEF Contains
<1> QED BY <1>8, <1>9


\* Blanks and blanks are blanks.
LEMMA BlankConcat ==
    ASSUME NEW l, Blank(l), NEW r, Blank(r)
    PROVE  Blank(l \o r)
<1>1. /\ l \in Seq(Char) /\ \A i \in 1..Len(l) : l[i] = " "
      /\ r \in Seq(Char) /\ \A i \in 1..Len(r) : r[i] = " "
  BY DEF Blank
<1>2. /\ Len(l) \in Nat /\ Len(r) \in Nat
      /\ l \o r \in Seq(Char) /\ Len(l \o r) = Len(l) + Len(r)
      /\ \A i \in 1..Len(l) : l[i] \in Char /\ (l \o r)[i] = l[i]
      /\ \A i \in 1..Len(r) : r[i] \in Char /\ (l \o r)[Len(l) + i] = r[i]
  BY <1>1, CharsOfConcat
<1>3. ASSUME NEW i \in 1..(Len(l) + Len(r)) PROVE (l \o r)[i] = " "
  <2>1. i \in 1..Len(l) \/ (i - Len(l) \in 1..Len(r) /\ Len(l) + (i - Len(l)) = i)
    <3>1. Len(l) \in Nat /\ Len(r) \in Nat
      BY ONLY <1>2
    <3> QED BY ONLY <3>1, i \in 1..(Len(l) + Len(r))
  <2> QED BY ONLY <1>1, <1>2, <2>1
<1> QED BY ONLY <1>2, <1>3 DEF Blank

\* A text of blanks and a rest, the trimmed form of which is a word.
NamePart(text, s, p, a) ==
    /\ Blank(p) /\ text = p \o a
    /\ TrimRight(a) = s
    /\ a # <<>> => a[1] # " "
    /\ NoSign(a)

ValuePart(text, s, p, w) ==
    /\ Blank(p) /\ text = w \o p
    /\ TrimLeft(w) = s
    /\ w # <<>> => w[Len(w)] # " "

\* The name in front of the "=", with blanks around it: all but the first
\* blanks are a text that gives the name again.
LEMMA NameHalf ==
    ASSUME NEW l, Blank(l), NEW r, Blank(r), NEW s, Word(s), NoSign(s)
    PROVE  \E p, a \in Seq(Char) : NamePart((l \o s) \o r, s, p, a)
<1>0. /\ s \in Seq(Char)
      /\ s # <<>> => s[1] # " "
      /\ s # <<>> => s[Len(s)] # " "
      /\ \A i \in 1..Len(s) : s[i] # "="
  BY DEF Word, NoSign
<1>s. s \in Seq(Char)
  BY ONLY <1>0
<1>1. l \in Seq(Char) /\ r \in Seq(Char)
  BY DEF Blank
<1>2. CASE s = <<>>
  <2>1. PICK p : p = l \o r
    OBVIOUS
  <2>2. Blank(p) /\ p \in Seq(Char)
    <3>1. Blank(l \o r)
      BY BlankConcat
    <3> QED BY ONLY <2>1, <3>1 DEF Blank
  <2>3. (l \o s) \o r = p /\ p \o s = p
    <3>1. l \o <<>> = l
      BY <1>0, <1>1, ConcatEmptySeq
    <3>2. p \in Seq(Char)
      BY ONLY <2>2 DEF Blank
    <3>3. p \o <<>> = p
      BY <3>2, ConcatEmptySeq
    <3> QED BY ONLY <1>2, <2>1, <3>1, <3>3
  <2>4. TrimRight(s) = s
    <3>1. Printed(s) = {}
      <4>1. DOMAIN s = 1..0
        <5>1. DOMAIN s = 1..Len(s)
          BY <1>0, LenProperties
        <5>2. (s = <<>>) <=> (Len(s) = 0)
          BY <1>0, EmptySeq
        <5> QED BY <1>2, <5>1, <5>2
      <4>2. \A i \in 1..0 : FALSE
        BY ONLY <4>1
      <4> QED BY ONLY <4>1, <4>2 DEF Printed
    <3> QED BY ONLY <1>2, <3>1 DEF TrimRight
  <2>5. /\ p \in Seq(Char) /\ s \in Seq(Char) /\ Blank(p) /\ (l \o s) \o r = p \o s
        /\ TrimRight(s) = s
        /\ s # <<>> => s[1] # " "
        /\ \A i \in 1..Len(s) : s[i] # "="
    BY <1>0, <1>2, <2>2, <2>3, <2>4
  <2> QED BY ONLY <2>5 DEF NamePart, NoSign
<1>3. CASE s # <<>>
  <2>1. PICK a : a = s \o r
    OBVIOUS
  <2>2. /\ a \in Seq(Char) /\ Len(a) = Len(s) + Len(r)
        /\ \A i \in 1..Len(s) : a[i] = s[i]
        /\ \A i \in 1..Len(r) : a[Len(s) + i] = r[i]
    <3>1. /\ Len(s) \in Nat /\ Len(r) \in Nat
          /\ s \o r \in Seq(Char) /\ Len(s \o r) = Len(s) + Len(r)
          /\ \A i \in 1..Len(s) : s[i] \in Char /\ (s \o r)[i] = s[i]
          /\ \A i \in 1..Len(r) : r[i] \in Char /\ (s \o r)[Len(s) + i] = r[i]
      BY <1>0, <1>1, CharsOfConcat
    <3> QED BY ONLY <2>1, <3>1
  <2>3. (l \o s) \o r = l \o a
    <3>1. (l \o s) \o r = l \o (s \o r)
      BY ONLY <1>1, <1>s, ConcatAssociative
    <3> QED BY ONLY <2>1, <3>1
  <2>4. TrimRight(a) = s
    BY <1>0, <2>1, TrimRightOf
  <2>5. a[1] # " "
    BY <1>0, <1>1, <1>3, <2>1, EndsOfConcat
  <2>6. ASSUME NEW i \in 1..Len(a) PROVE a[i] # "="
    <3>1. Len(s) \in Nat /\ Len(r) \in Nat
      BY <1>0, <1>1, LenProperties
    <3>2. i \in 1..Len(s) \/ (i - Len(s) \in 1..Len(r) /\ Len(s) + (i - Len(s)) = i)
      <4>1. i \in 1..(Len(s) + Len(r))
        BY <2>2
      <4> QED BY ONLY <3>1, <4>1
    <3>3. \A k \in 1..Len(r) : r[k] = " "
      BY DEF Blank
    <3>4. CASE i \in 1..Len(s)
      BY <1>0, <2>2, <3>4
    <3>5. CASE i - Len(s) \in 1..Len(r) /\ Len(s) + (i - Len(s)) = i
      <4>1. \A k \in 1..Len(r) : a[Len(s) + k] = " "
        BY ONLY <2>2, <3>3
      <4>2. a[Len(s) + (i - Len(s))] = " "
        BY ONLY <3>5, <4>1
      <4>3. a[i] = " "
        BY ONLY <3>5, <4>2
      <4> QED BY ONLY <4>3
    <3> QED BY ONLY <3>2, <3>4, <3>5
  <2>7. l \in Seq(Char) /\ a \in Seq(Char) /\ Blank(l)
    BY <1>0, <1>1, <2>2
  <2> QED BY ONLY <2>3, <2>4, <2>5, <2>6, <2>7 DEF NamePart, NoSign
<1> QED BY <1>2, <1>3

\* The value behind the "=", the same way.
LEMMA ValueHalf ==
    ASSUME NEW l, Blank(l), NEW r, Blank(r), NEW s, Word(s)
    PROVE  \E p, w \in Seq(Char) : ValuePart(l \o (s \o r), s, p, w)
<1>0. /\ s \in Seq(Char)
      /\ s # <<>> => s[1] # " "
      /\ s # <<>> => s[Len(s)] # " "
  BY DEF Word
<1>s. s \in Seq(Char)
  BY ONLY <1>0
<1>1. l \in Seq(Char) /\ r \in Seq(Char)
  BY DEF Blank
<1>2. CASE s = <<>>
  <2>1. PICK p : p = l \o r
    OBVIOUS
  <2>2. Blank(p) /\ p \in Seq(Char)
    <3>1. Blank(l \o r)
      BY BlankConcat
    <3> QED BY ONLY <2>1, <3>1 DEF Blank
  <2>3. l \o (s \o r) = p /\ s \o p = p
    <3>1. <<>> \o r = r
      BY <1>0, <1>1, ConcatEmptySeq
    <3>2. p \in Seq(Char)
      BY ONLY <2>2 DEF Blank
    <3>3. <<>> \o p = p
      BY <3>2, ConcatEmptySeq
    <3> QED BY ONLY <1>2, <2>1, <3>1, <3>3
  <2>4. TrimLeft(s) = s
    <3>1. Printed(s) = {}
      <4>1. DOMAIN s = 1..0
        <5>1. DOMAIN s = 1..Len(s)
          BY <1>0, LenProperties
        <5>2. (s = <<>>) <=> (Len(s) = 0)
          BY <1>0, EmptySeq
        <5> QED BY <1>2, <5>1, <5>2
      <4>2. \A i \in 1..0 : FALSE
        BY ONLY <4>1
      <4> QED BY ONLY <4>1, <4>2 DEF Printed
    <3> QED BY ONLY <1>2, <3>1 DEF TrimLeft
  <2>5. /\ p \in Seq(Char) /\ s \in Seq(Char) /\ Blank(p) /\ l \o (s \o r) = s \o p
        /\ TrimLeft(s) = s
        /\ s # <<>> => s[Len(s)] # " "
    BY <1>0, <1>2, <2>2, <2>3, <2>4
  <2> QED BY ONLY <2>5 DEF ValuePart
<1>3. CASE s # <<>>
  <2>1. PICK w : w = l \o s
    OBVIOUS
  <2>2. w \in Seq(Char)
    <3>1. l \o s \in Seq(Char)
      BY <1>0, <1>1, ConcatProperties
    <3> QED BY ONLY <2>1, <3>1
  <2>3. l \o (s \o r) = w \o r
    <3>1. (l \o s) \o r = l \o (s \o r)
      BY ONLY <1>1, <1>s, ConcatAssociative
    <3> QED BY ONLY <2>1, <3>1
  <2>4. TrimLeft(w) = s
    BY <1>0, <2>1, TrimLeftOf
  <2>5. w[Len(w)] # " "
    <3>1. (l \o s)[Len(l \o s)] = s[Len(s)]
      BY <1>0, <1>1, <1>3, EndsOfConcat
    <3>2. s[Len(s)] # " "
      BY <1>0, <1>3
    <3> QED BY ONLY <2>1, <3>1, <3>2
  <2>6. r \in Seq(Char) /\ w \in Seq(Char) /\ Blank(r)
    BY <1>0, <1>1, <2>2
  <2> QED BY ONLY <2>3, <2>4, <2>5, <2>6 DEF ValuePart
<1> QED BY <1>2, <1>3


\* The parts of an order, and how they may be put together otherwise.
Parts(m, r, n, l, e, v, p, a, w, q) ==
    /\ m \in Seq(Char) /\ r \in Seq(Char) /\ n \in Seq(Char) /\ l \in Seq(Char)
    /\ e \in Seq(Char) /\ v \in Seq(Char) /\ p \in Seq(Char) /\ a \in Seq(Char)
    /\ w \in Seq(Char) /\ q \in Seq(Char)
    /\ (r \o n) \o l = p \o a /\ r \o (v \o l) = w \o q

Rearrangement(m, r, n, l, e, v, p, a, w, q) ==
    m \o r \o n \o l \o e \o r \o v \o l = m \o (p \o ((a \o (e \o w)) \o q))

\* An order is "??", blanks, and a text that begins with the name or the "=".
LEMMA Rearranged ==
    ASSUME NEW m, NEW r, NEW n, NEW l, NEW e, NEW v, NEW p, NEW a, NEW w, NEW q,
           Parts(m, r, n, l, e, v, p, a, w, q)
    PROVE  Rearrangement(m, r, n, l, e, v, p, a, w, q)
<1>m. m \in Seq(Char)
  BY DEF Parts
<1>r. r \in Seq(Char)
  BY DEF Parts
<1>n. n \in Seq(Char)
  BY DEF Parts
<1>l. l \in Seq(Char)
  BY DEF Parts
<1>e. e \in Seq(Char)
  BY DEF Parts
<1>v. v \in Seq(Char)
  BY DEF Parts
<1>p. p \in Seq(Char)
  BY DEF Parts
<1>a. a \in Seq(Char)
  BY DEF Parts
<1>w. w \in Seq(Char)
  BY DEF Parts
<1>q. q \in Seq(Char)
  BY DEF Parts
<1>2. (r \o n) \o l = p \o a /\ r \o (v \o l) = w \o q
  BY DEF Parts
<1>3. ((m \o r) \o n) \o l = m \o (p \o a)
  <2>1. (m \o r) \o n = m \o (r \o n)
    BY ONLY Associative, <1>m, <1>r, <1>n
  <2>2. r \o n \in Seq(Char)
    BY ONLY JoinedText, <1>r, <1>n
  <2>3. (m \o (r \o n)) \o l = m \o ((r \o n) \o l)
    BY ONLY Associative, <2>2, <1>m, <1>l
  <2> QED BY ONLY <1>2, <2>1, <2>3
<1>4. PICK h : h = m \o (p \o a)
  OBVIOUS
<1>5. p \o a \in Seq(Char) /\ h \in Seq(Char)
  <2>1. p \o a \in Seq(Char)
    BY ONLY JoinedText, <1>p, <1>a
  <2>2. m \o (p \o a) \in Seq(Char)
    BY ONLY JoinedText, <2>1, <1>m
  <2> QED BY ONLY <1>4, <2>1, <2>2
<1>6. (((h \o e) \o r) \o v) \o l = h \o (e \o (w \o q))
  <2>1. PICK g : g = h \o e
    OBVIOUS
  <2>2. g \in Seq(Char)
    <3>1. h \o e \in Seq(Char)
      BY ONLY JoinedText, <1>5, <1>e
    <3> QED BY ONLY <2>1, <3>1
  <2>3. g \o r \in Seq(Char) /\ v \o l \in Seq(Char) /\ w \o q \in Seq(Char)
    <3>1. g \o r \in Seq(Char)
      BY ONLY JoinedText, <2>2, <1>r
    <3>2. v \o l \in Seq(Char)
      BY ONLY JoinedText, <1>v, <1>l
    <3>3. w \o q \in Seq(Char)
      BY ONLY JoinedText, <1>w, <1>q
    <3> QED BY ONLY <3>1, <3>2, <3>3
  <2>4. ((g \o r) \o v) \o l = (g \o r) \o (v \o l)
    BY ONLY Associative, <2>3, <1>v, <1>l
  <2>5. (g \o r) \o (v \o l) = g \o (r \o (v \o l))
    BY ONLY Associative, <2>2, <2>3, <1>r
  <2>6. (h \o e) \o (w \o q) = h \o (e \o (w \o q))
    BY ONLY Associative, <1>5, <2>3, <1>e
  <2> QED BY ONLY <1>2, <2>1, <2>4, <2>5, <2>6
<1>7. h \o (e \o (w \o q)) = m \o (p \o ((a \o (e \o w)) \o q))
  <2>1. e \o w \in Seq(Char) /\ w \o q \in Seq(Char)
    BY ONLY JoinedText, <1>e, <1>w, <1>q
  <2>2. e \o (w \o q) = (e \o w) \o q
    BY ONLY Associative, <1>e, <1>w, <1>q
  <2>3. (a \o (e \o w)) \o q = a \o ((e \o w) \o q)
    BY ONLY Associative, <2>1, <1>a, <1>q
  <2>4. (e \o w) \o q \in Seq(Char)
    BY ONLY JoinedText, <2>1, <1>q
  <2>5. a \o ((e \o w) \o q) \in Seq(Char)
    BY ONLY JoinedText, <2>4, <1>a
  <2>6. (m \o (p \o a)) \o ((e \o w) \o q) = m \o ((p \o a) \o ((e \o w) \o q))
    BY ONLY Associative, <1>5, <2>4, <1>m
  <2>7. (p \o a) \o ((e \o w) \o q) = p \o (a \o ((e \o w) \o q))
    BY ONLY Associative, <2>4, <1>p, <1>a
  <2> QED BY ONLY <1>4, <2>2, <2>3, <2>6, <2>7
<1> QED BY ONLY <1>3, <1>4, <1>6, <1>7 DEF Rearrangement

\* An order is read as the name and the value that were meant.
LEMMA OrderRead ==
    ASSUME NEW name \in Typed, NEW value \in Value,
           NEW left \in Pad, NEW right \in Pad
    PROVE  LET text == Text(<<"?", "?">> \o right \o name \o left
                                \o <<"=">> \o right \o value \o left)
           IN  Contains(text, "=") /\ NameOf(text) = name /\ ValueOf(text) = value
<1>1. PICK marks : marks = <<"?", "?">>
  OBVIOUS
<1>2. PICK sign : sign = <<"=">>
  OBVIOUS
<1>3. marks \in Seq(Char) /\ sign \in Seq(Char) /\ Len(sign) = 1 /\ sign[1] = "="
  BY <1>1, <1>2, MarksAreText, EqualsSign
<1>4. Blank(left) /\ Blank(right)
  BY Words
<1>5. left \in Seq(Char) /\ right \in Seq(Char)
  BY <1>4 DEF Blank
<1>6. Word(name) /\ NoSign(name) /\ Word(value)
  BY Words
<1>7. name \in Seq(Char) /\ value \in Seq(Char)
  BY <1>6 DEF Word
<1>8. PICK p, a \in Seq(Char) : NamePart((right \o name) \o left, name, p, a)
  BY ONLY <1>4, <1>6, NameHalf
<1>9. PICK q, w \in Seq(Char) : ValuePart(right \o (value \o left), value, q, w)
  BY ONLY <1>4, <1>6, ValueHalf
<1>a. /\ Blank(p) /\ (right \o name) \o left = p \o a
      /\ TrimRight(a) = name
      /\ a # <<>> => a[1] # " "
      /\ \A i \in 1..Len(a) : a[i] # "="
  BY ONLY <1>8 DEF NamePart, NoSign
<1>b. /\ Blank(q) /\ right \o (value \o left) = w \o q
      /\ TrimLeft(w) = value
      /\ w # <<>> => w[Len(w)] # " "
  BY ONLY <1>9 DEF ValuePart
<1>10. PICK text : text = a \o (sign \o w)
  OBVIOUS
<1>11. sign \o w \in Seq(Char)
  BY <1>3, <1>9, <1>b, ConcatProperties
<1>12. text \in Seq(Char)
  <2>1. a \o (sign \o w) \in Seq(Char)
    BY <1>8, <1>a, <1>11, ConcatProperties
  <2> QED BY ONLY <1>10, <2>1
<1>13. sign # <<>>
  <2>1. (sign = <<>>) <=> (Len(sign) = 0)
    BY <1>3, EmptySeq
  <2> QED BY ONLY <1>3, <2>1
<1>14. sign \o w # <<>> /\ (sign \o w)[1] # " "
  <2>1. sign \o w # <<>> /\ (sign \o w)[1] = sign[1]
    BY <1>3, <1>9, <1>b, <1>13, EndsOfConcat
  <2> QED BY ONLY <1>3, <2>1
<1>15. (sign \o w)[Len(sign \o w)] # " "
  <2>1. CASE w = <<>>
    <3>1. sign \o <<>> = sign
      BY <1>3, ConcatEmptySeq
    <3> QED BY ONLY <1>3, <2>1, <3>1
  <2>2. CASE w # <<>>
    <3>1. (sign \o w)[Len(sign \o w)] = w[Len(w)]
      BY <1>3, <1>9, <1>b, <2>2, EndsOfConcat
    <3> QED BY ONLY <1>9, <1>b, <2>2, <3>1
  <2> QED BY ONLY <2>1, <2>2
<1>16. text # <<>> /\ text[Len(text)] # " "
  <2>1. a \o (sign \o w) # <<>>
        /\ (a \o (sign \o w))[Len(a \o (sign \o w))] = (sign \o w)[Len(sign \o w)]
    BY <1>8, <1>a, <1>11, <1>14, EndsOfConcat
  <2> QED BY ONLY <1>10, <1>15, <2>1
<1>17. text[1] # " "
  <2>1. CASE a = <<>>
    <3>1. <<>> \o (sign \o w) = sign \o w
      BY <1>11, ConcatEmptySeq
    <3> QED BY ONLY <1>10, <1>14, <2>1, <3>1
  <2>2. CASE a # <<>>
    <3>1. (a \o (sign \o w))[1] = a[1]
      BY <1>8, <1>a, <1>11, <2>2, EndsOfConcat
    <3> QED BY ONLY <1>8, <1>a, <1>10, <2>2, <3>1
  <2> QED BY ONLY <2>1, <2>2
<1>18. marks \o right \o name \o left \o sign \o right \o value \o left
           = marks \o (p \o (text \o q))
  <2>1. Parts(marks, right, name, left, sign, value, p, a, w, q)
    BY ONLY <1>3, <1>5, <1>7, <1>8, <1>a, <1>9, <1>b DEF Parts
  <2>2. Rearrangement(marks, right, name, left, sign, value, p, a, w, q)
    BY ONLY <2>1, Rearranged
  <2> QED BY ONLY <1>10, <2>2 DEF Rearrangement
<1>19. Text(<<"?", "?">> \o (p \o (text \o q))) = text
  <2>1. Blank(p) /\ Blank(q) /\ text \in Seq(Char)
    BY ONLY <1>8, <1>a, <1>9, <1>b, <1>12
  <2> QED BY ONLY <2>1, <1>16, <1>17, TextIs, Zenon
<1>20. Text(<<"?", "?">> \o right \o name \o left \o <<"=">> \o right \o value \o left) = text
  BY ONLY <1>1, <1>2, <1>18, <1>19
<1>21. /\ Contains(text, "=")
       /\ NameOf(text) = TrimRight(a) /\ ValueOf(text) = TrimLeft(w)
  <2>1. text = a \o (<<"=">> \o w)
    BY ONLY <1>2, <1>10
  <2> QED BY ONLY <1>8, <1>a, <1>9, <1>b, <2>1, Split
<1> QED BY ONLY <1>8, <1>a, <1>9, <1>b, <1>20, <1>21

-----------------------------------------------------------------------------
(* The table, row by row.                                                  *)

Rows(t, n) == {r \in t : Fold(r.name) = Fold(n)}

MeaningIn(t, n) == IF Rows(t, n) = {} THEN <<>> ELSE (CHOOSE r \in Rows(t, n) : TRUE).value

\* The table of one row for a name at most, and none that says nothing.
OneRow(t) ==
    /\ t \in SUBSET [name : Typed \ {<<>>}, value : Value \ {<<>>}]
    /\ \A r, q \in t : Fold(r.name) = Fold(q.name) => r = q

CalcInv == OneRow(table)

Names == {Fold(n) : n \in Typed}
Entries(t) == [n \in Names |-> MeaningIn(t, n)]

\* A name in lower case is what its lower case is.
LEMMA FoldOfFold ==
    ASSUME NEW n
    PROVE  Fold(Fold(n)) = Fold(n)
<1>1. \A c \in DOMAIN Lower : Lower[c] \notin DOMAIN Lower
  BY CalcAssumption
<1>2. PICK f : f = Fold(n)
  OBVIOUS
<1>3. /\ f = [i \in DOMAIN n |-> f[i]] /\ DOMAIN f = DOMAIN n
      /\ \A i \in DOMAIN n : f[i] = IF n[i] \in DOMAIN Lower THEN Lower[n[i]] ELSE n[i]
  BY <1>2 DEF Fold
<1>4. \A i \in DOMAIN n : f[i] \notin DOMAIN Lower
  BY ONLY <1>1, <1>3
<1>5. Fold(f) = [i \in DOMAIN n |-> f[i]]
  BY ONLY <1>3, <1>4 DEF Fold
<1> QED BY ONLY <1>2, <1>3, <1>5

\* A name that is not empty is not so in lower case.
LEMMA FoldOfName ==
    ASSUME NEW n \in Typed, n # <<>>
    PROVE  Fold(n) # <<>>
<1>1. n \in Seq(Char)
  BY CalcAssumption
<1>2. Len(n) \in Nat \ {0} /\ DOMAIN n = 1..Len(n)
  BY <1>1, EmptySeq, LenProperties
<1>3. 1 \in DOMAIN n
  <2>1. 1 \in 1..Len(n)
    BY ONLY <1>2
  <2> QED BY ONLY <1>2, <2>1
<1>4. PICK e : e = <<>>
  OBVIOUS
<1>5. e \in Seq(Char) /\ Len(e) = 0
  BY <1>4, EmptySeq
<1>6. DOMAIN e = 1..0
  BY ONLY <1>5, LenProperties
<1>7. 1 \notin 1..0
  BY ONLY <1>2
<1>8. DOMAIN Fold(n) = DOMAIN n
  BY DEF Fold
<1> QED BY ONLY <1>3, <1>4, <1>6, <1>7, <1>8

\* The meaning of a name is what its row says.
LEMMA MeaningOfRow ==
    ASSUME NEW t, OneRow(t), NEW r \in t, NEW n, Fold(r.name) = Fold(n)
    PROVE  MeaningIn(t, n) = r.value /\ MeaningIn(t, n) # <<>>
<1>1. \A q \in t : Fold(q.name) = Fold(n) => q = r
  BY DEF OneRow
<1>2. Rows(t, n) = {r}
  BY ONLY <1>1, r \in t, Fold(r.name) = Fold(n) DEF Rows
<1>3. (CHOOSE q \in Rows(t, n) : TRUE) = r
  BY ONLY <1>2
<1>4. MeaningIn(t, n) = r.value
  BY ONLY <1>2, <1>3 DEF MeaningIn
<1>5. r.value # <<>>
  BY DEF OneRow
<1> QED BY ONLY <1>4, <1>5

\* Only a name with a row has a meaning.
LEMMA Known ==
    ASSUME NEW t, OneRow(t), NEW n
    PROVE  (MeaningIn(t, n) # <<>>) <=> (Rows(t, n) # {})
<1>1. CASE Rows(t, n) = {}
  BY ONLY <1>1 DEF MeaningIn
<1>2. CASE Rows(t, n) # {}
  <2>1. PICK r \in t : Fold(r.name) = Fold(n)
    BY ONLY <1>2 DEF Rows
  <2> QED BY <1>2, <2>1, MeaningOfRow
<1> QED BY ONLY <1>1, <1>2

\* What a change of one name does to the meanings of all.
Changed(t, u, name, value) ==
    \A n : MeaningIn(u, n) = IF Fold(n) = Fold(name) THEN value ELSE MeaningIn(t, n)

\* A row of a new name, which leaves the others.
LEMMA Inserted ==
    ASSUME NEW t, OneRow(t), NEW name \in Typed, name # <<>>, NEW value \in Value, value # <<>>,
           Rows(t, name) = {}, NEW u, u = t \cup {[name |-> name, value |-> value]}
    PROVE  OneRow(u) /\ Changed(t, u, name, value)
<1>1. PICK row : row = [name |-> name, value |-> value]
  OBVIOUS
<1>2. /\ row \in [name : Typed \ {<<>>}, value : Value \ {<<>>}]
      /\ row.name = name /\ row.value = value
  BY <1>1
<1>3. u = t \cup {row}
  BY <1>1
<1>4. \A r \in t : Fold(r.name) # Fold(name)
  BY DEF Rows
<1>5. OneRow(u)
  <2>1. u \in SUBSET [name : Typed \ {<<>>}, value : Value \ {<<>>}]
    BY <1>2, <1>3 DEF OneRow
  <2>2. \A r, q \in t : Fold(r.name) = Fold(q.name) => r = q
    BY DEF OneRow
  <2>3. ASSUME NEW r \in u, NEW q \in u, Fold(r.name) = Fold(q.name) PROVE r = q
    BY ONLY <1>2, <1>3, <1>4, <2>2, <2>3, r \in u, q \in u
  <2> QED BY ONLY <2>1, <2>3 DEF OneRow
<1>6. ASSUME NEW n, Fold(n) = Fold(name) PROVE MeaningIn(u, n) = value
  <2>1. row \in u /\ Fold(row.name) = Fold(n)
    BY ONLY <1>2, <1>3, <1>6
  <2>2. MeaningIn(u, n) = row.value
    BY ONLY <1>5, <2>1, MeaningOfRow
  <2> QED BY ONLY <1>2, <2>2
<1>7. ASSUME NEW n, Fold(n) # Fold(name) PROVE MeaningIn(u, n) = MeaningIn(t, n)
  <2>1. Rows(u, n) = Rows(t, n)
    BY ONLY <1>2, <1>3, <1>7 DEF Rows
  <2> QED BY ONLY <2>1 DEF MeaningIn
<1> QED BY ONLY <1>5, <1>6, <1>7 DEF Changed

\* A row that is given another value.
LEMMA Updated ==
    ASSUME NEW t, OneRow(t), NEW name, NEW value \in Value, value # <<>>,
           Rows(t, name) # {},
           NEW u, u = (t \ Rows(t, name)) \cup {[r EXCEPT !.value = value] : r \in Rows(t, name)}
    PROVE  OneRow(u) /\ Changed(t, u, name, value)
<1>1. PICK old \in t : Fold(old.name) = Fold(name)
  BY DEF Rows
<1>2. PICK row : row = [old EXCEPT !.value = value]
  OBVIOUS
<1>3. old \in [name : Typed \ {<<>>}, value : Value \ {<<>>}]
  BY DEF OneRow
<1>4. /\ row \in [name : Typed \ {<<>>}, value : Value \ {<<>>}]
      /\ row.name = old.name /\ row.value = value
  BY <1>2, <1>3
<1>5. \A r, q \in t : Fold(r.name) = Fold(q.name) => r = q
  BY DEF OneRow
<1>6. Rows(t, name) = {old}
  BY ONLY <1>1, <1>5 DEF Rows
<1>7. u = (t \ {old}) \cup {row}
  <2>1. {[r EXCEPT !.value = value] : r \in {old}} = {row}
    BY ONLY <1>2
  <2>2. u = (t \ Rows(t, name)) \cup {[r EXCEPT !.value = value] : r \in Rows(t, name)}
    OBVIOUS
  <2> QED BY ONLY <1>6, <2>1, <2>2
<1>8. \A r \in t \ {old} : Fold(r.name) # Fold(name)
  BY ONLY <1>1, <1>5
<1>9. OneRow(u)
  <2>1. u \in SUBSET [name : Typed \ {<<>>}, value : Value \ {<<>>}]
    <3>1. t \in SUBSET [name : Typed \ {<<>>}, value : Value \ {<<>>}]
      BY DEF OneRow
    <3> QED BY ONLY <1>4, <1>7, <3>1
  <2>2. ASSUME NEW r \in u, NEW q \in u, Fold(r.name) = Fold(q.name) PROVE r = q
    BY ONLY <1>1, <1>4, <1>5, <1>7, <1>8, <2>2, r \in u, q \in u
  <2> QED BY ONLY <2>1, <2>2 DEF OneRow
<1>10. ASSUME NEW n, Fold(n) = Fold(name) PROVE MeaningIn(u, n) = value
  <2>1. row \in u /\ Fold(row.name) = Fold(n)
    BY ONLY <1>1, <1>4, <1>7, <1>10
  <2>2. MeaningIn(u, n) = row.value
    BY ONLY <1>9, <2>1, MeaningOfRow
  <2> QED BY ONLY <1>4, <2>2
<1>11. ASSUME NEW n, Fold(n) # Fold(name) PROVE MeaningIn(u, n) = MeaningIn(t, n)
  <2>1. Rows(u, n) = Rows(t, n)
    BY ONLY <1>1, <1>4, <1>7, <1>11 DEF Rows
  <2> QED BY ONLY <2>1 DEF MeaningIn
<1> QED BY ONLY <1>9, <1>10, <1>11 DEF Changed

\* A row that is taken out.
LEMMA Deleted ==
    ASSUME NEW t, OneRow(t), NEW name, NEW u, u = t \ Rows(t, name)
    PROVE  OneRow(u) /\ Changed(t, u, name, <<>>)
<1>1. OneRow(u)
  BY DEF OneRow
<1>2. ASSUME NEW n, Fold(n) = Fold(name) PROVE MeaningIn(u, n) = <<>>
  <2>1. Rows(u, n) = {}
    BY <1>2 DEF Rows
  <2> QED BY ONLY <2>1 DEF MeaningIn
<1>3. ASSUME NEW n, Fold(n) # Fold(name) PROVE MeaningIn(u, n) = MeaningIn(t, n)
  <2>1. Rows(u, n) = Rows(t, n)
    BY <1>3 DEF Rows
  <2> QED BY ONLY <2>1 DEF MeaningIn
<1> QED BY ONLY <1>1, <1>2, <1>3 DEF Changed

\* A change of one name in the glossary.
LEMMA EntriesChanged ==
    ASSUME NEW t, NEW u, NEW name \in Typed, NEW value, Changed(t, u, name, value)
    PROVE  Entries(u) = [Entries(t) EXCEPT ![Fold(name)] = value]
<1>1. \A n \in Names : Fold(n) = n
  BY FoldOfFold DEF Names
<1>2. Fold(name) \in Names
  BY DEF Names
<1>3. ASSUME NEW n \in Names
      PROVE  MeaningIn(u, n) = IF n = Fold(name) THEN value ELSE MeaningIn(t, n)
  <2>1. Fold(Fold(name)) = Fold(name) /\ Fold(n) = n
    BY ONLY <1>1, <1>2, n \in Names
  <2>2. MeaningIn(u, n) = IF Fold(n) = Fold(name) THEN value ELSE MeaningIn(t, n)
    BY DEF Changed
  <2> QED BY ONLY <2>1, <2>2
<1> QED BY ONLY <1>2, <1>3 DEF Entries

-----------------------------------------------------------------------------
(* The steps of calc are steps of the glossary.                            *)

\* What calc selects are the rows of the name.
LEMMA TableRead ==
    /\ \A n : Select(n) = Rows(table, n)
    /\ \A n : EntryOf(n) = MeaningIn(table, n)
  BY DEF Select, Rows, EntryOf, MeaningIn

\* So are those of the next state.
LEMMA TableReadNext == \A n : EntryOf(n)' = MeaningIn(table', n)
  BY DEF Select, Rows, EntryOf, MeaningIn

\* The table begins empty.
LEMMA CalcInitOneRow == CalcInit => OneRow(table)
  BY DEF CalcInit, OneRow

\* So does the glossary.
LEMMA CalcInitRefines ==
    ASSUME CalcInit
    PROVE  G!Init
<1>1. table = {} /\ \A n : MeaningIn(table, n) = <<>>
  BY DEF CalcInit, MeaningIn, Rows
<1>2. [n \in {Fold(t) : t \in Typed} |-> EntryOf(n)] = [n \in {Fold(t) : t \in Typed} |-> <<>>]
  BY ONLY <1>1, TableRead
<1>3. /\ asked = [kind |-> "none", name |-> <<>>, value |-> <<>>, admin |-> FALSE]
      /\ said = [kind |-> "none", value |-> <<>>]
  BY DEF CalcInit
<1> QED BY ONLY <1>2, <1>3 DEF G!Init

\* A question.
LEMMA AskRefines ==
    ASSUME OneRow(table), NEW name \in Typed, NEW value \in Value,
           NEW pad \in Pad, NEW admin \in BOOLEAN, AskFor(name, pad, admin)
    PROVE  OneRow(table') /\ G!Next
<1>1. PICK text : text = Text(<<"?", "?">> \o pad \o name \o pad)
  OBVIOUS
<1>2. /\ name # <<>>
      /\ asked' = [kind |-> "ask", name |-> Fold(name), value |-> <<>>, admin |-> admin]
      /\ Calculate(text, admin)
  BY <1>1 DEF AskFor, Meant
<1>3. text = name /\ ~Contains(text, "=")
  BY <1>1, <1>2, QuestionRead
<1>4. Query(name)
  BY ONLY <1>2, <1>3 DEF Calculate
<1>5. table' = table
  BY ONLY <1>4 DEF Query
<1>6. PICK n : n = Fold(name)
  OBVIOUS
<1>7. n \in {Fold(t) : t \in Typed} /\ Fold(n) = Fold(name)
  BY <1>6, FoldOfFold
<1>8. MeaningIn(table, n) = MeaningIn(table, name)
  BY ONLY <1>7 DEF MeaningIn, Rows
<1>9. PICK entries : entries = [x \in {Fold(t) : t \in Typed} |-> EntryOf(x)]
  OBVIOUS
<1>10. entries[n] = MeaningIn(table, name)
  BY ONLY <1>7, <1>8, <1>9, TableRead
<1>11. [x \in {Fold(t) : t \in Typed} |-> EntryOf(x)]' = entries
  BY ONLY <1>5, <1>9, TableRead, TableReadNext
<1>12. IF entries[n] # <<>> THEN said' = [kind |-> "is", value |-> entries[n]]
                            ELSE said' = [kind |-> "unknown", value |-> <<>>]
  <2>1. CASE Select(name) = {}
    <3>1. said' = [kind |-> "unknown", value |-> <<>>]
      BY ONLY <1>4, <2>1 DEF Query, Reply
    <3>2. MeaningIn(table, name) = <<>>
      BY ONLY <2>1, TableRead DEF MeaningIn
    <3> QED BY ONLY <1>10, <3>1, <3>2
  <2>2. CASE Select(name) # {}
    <3>1. PICK r \in Select(name) : said' = [kind |-> "is", value |-> r.value]
      BY ONLY <1>4, <2>2 DEF Query, Reply
    <3>2. r \in table /\ Fold(r.name) = Fold(name)
      BY ONLY <3>1 DEF Select
    <3>3. MeaningIn(table, name) = r.value /\ MeaningIn(table, name) # <<>>
      BY <3>2, MeaningOfRow
    <3> QED BY ONLY <1>10, <3>1, <3>3
  <2> QED BY ONLY <2>1, <2>2
<1>13. G!Request("ask", n, <<>>, admin)
  BY ONLY <1>2, <1>6 DEF G!Request
<1>14. G!Ask(n)
  BY ONLY <1>9, <1>11, <1>12 DEF G!Ask, G!Known, G!Answer
<1>15. G!Next
  BY <1>7, <1>13, <1>14 DEF G!Next
<1>16. OneRow(table')
  BY <1>5
<1> QED BY ONLY <1>15, <1>16

\* What an order does to the table and what is said, in terms of its rows.
LEMMA OrderDone ==
    ASSUME NEW name \in Typed, NEW value \in Value,
           NEW left \in Pad, NEW right \in Pad, NEW admin \in BOOLEAN,
           Tell(name, value, left, right, admin)
    PROVE  /\ asked' = [kind |-> "tell", name |-> Fold(name), value |-> value, admin |-> admin]
           /\ IF Rows(table, name) = {} THEN Create(name, value) ELSE Modify(name, value, admin)
<1>1. PICK text : text = Text(<<"?", "?">> \o right \o name \o left
                                  \o <<"=">> \o right \o value \o left)
  OBVIOUS
<1>2. /\ asked' = [kind |-> "tell", name |-> Fold(name), value |-> value, admin |-> admin]
      /\ Calculate(text, admin)
  BY <1>1 DEF Tell, Meant
<1>3. Contains(text, "=") /\ NameOf(text) = name /\ ValueOf(text) = value
  BY <1>1, OrderRead
<1>4. IF Select(name) = {} THEN Create(name, value) ELSE Modify(name, value, admin)
  BY ONLY <1>2, <1>3 DEF Calculate
<1> QED BY ONLY <1>2, <1>4, TableRead

\* An order.
LEMMA TellRefines ==
    ASSUME OneRow(table), NEW name \in Typed, NEW value \in Value,
           NEW left \in Pad, NEW right \in Pad, NEW admin \in BOOLEAN,
           Tell(name, value, left, right, admin)
    PROVE  OneRow(table') /\ G!Next
<1>1. asked' = [kind |-> "tell", name |-> Fold(name), value |-> value, admin |-> admin]
  BY OrderDone
<1>2. IF Rows(table, name) = {} THEN Create(name, value) ELSE Modify(name, value, admin)
  BY OrderDone
<1>3. PICK n : n = Fold(name)
  OBVIOUS
<1>4. n \in {Fold(t) : t \in Typed} /\ Fold(n) = Fold(name)
  BY <1>3, FoldOfFold
<1>5. PICK entries : entries = [x \in {Fold(t) : t \in Typed} |-> EntryOf(x)]
  OBVIOUS
<1>6. PICK next : next = [x \in {Fold(t) : t \in Typed} |-> EntryOf(x)]'
  OBVIOUS
<1>7. entries = Entries(table) /\ next = Entries(table')
  BY ONLY <1>5, <1>6, TableRead, TableReadNext DEF Entries, Names
<1>8. (entries[n] # <<>>) <=> (Rows(table, name) # {})
  <2>1. entries[n] = MeaningIn(table, n)
    BY ONLY <1>4, <1>7 DEF Entries, Names
  <2>2. Rows(table, n) = Rows(table, name)
    BY ONLY <1>4 DEF Rows
  <2>3. (MeaningIn(table, n) # <<>>) <=> (Rows(table, n) # {})
    BY Known
  <2> QED BY ONLY <2>1, <2>2, <2>3
<1>9. ASSUME NEW v, Changed(table, table', name, v)
      PROVE  next = [entries EXCEPT ![n] = v]
  <2>1. Entries(table') = [Entries(table) EXCEPT ![Fold(name)] = v]
    BY <1>9, EntriesChanged
  <2> QED BY ONLY <1>3, <1>7, <2>1
<1>10. ASSUME table' = table PROVE OneRow(table') /\ next = entries
  <2>1. OneRow(table)
    OBVIOUS
  <2> QED BY ONLY <1>7, <1>10, <2>1
<1>11. G!Request("tell", n, value, admin)
  BY ONLY <1>1, <1>3 DEF G!Request
<1>12. SUFFICES OneRow(table') /\ G!Tell(n, value, admin)
  BY <1>4, <1>11 DEF G!Next
<1>13. CASE said' = [kind |-> "refused", value |-> <<>>] /\ table' = table
            /\ (Rows(table, name) # {} => admin)
  <2>1. G!Refuse(n, admin)
    BY ONLY <1>5, <1>6, <1>8, <1>10, <1>13 DEF G!Refuse, G!Known, G!Answer
  <2> QED BY <1>10, <1>13, <2>1 DEF G!Tell
<1>14. CASE Rows(table, name) = {}
  <2>1. Create(name, value)
    BY ONLY <1>2, <1>14
  <2>2. CASE Refused
    BY ONLY <1>13, <1>14, <2>2 DEF Refused, Reply
  <2>3. CASE /\ name # <<>> /\ value # <<>>
             /\ Insert(name, value) /\ Reply("now", value)
    <3>1. /\ table' = table \cup {[name |-> name, value |-> value]}
          /\ said' = [kind |-> "now", value |-> value]
      BY ONLY <2>3 DEF Insert, Reply
    <3>2. OneRow(table') /\ Changed(table, table', name, value)
      BY <1>14, <2>3, <3>1, Inserted
    <3>3. next = [entries EXCEPT ![n] = value]
      BY ONLY <1>9, <3>2
    <3>4. n # <<>>
      BY <1>3, <2>3, FoldOfName
    <3>5. G!Set(n, value, admin)
      BY ONLY <1>5, <1>6, <1>8, <1>14, <2>3, <3>1, <3>3, <3>4 DEF G!Set, G!Known, G!Answer
    <3> QED BY ONLY <3>2, <3>5 DEF G!Tell
  <2> QED BY ONLY <2>1, <2>2, <2>3 DEF Create
<1>15. CASE Rows(table, name) # {}
  <2>1. Modify(name, value, admin)
    BY ONLY <1>2, <1>15
  <2>2. CASE ~admin
    <3>1. said' = [kind |-> "known", value |-> <<>>] /\ table' = table
      BY ONLY <2>1, <2>2 DEF Modify, Reply
    <3>2. G!Keep(n, admin)
      BY ONLY <1>5, <1>6, <1>8, <1>10, <1>15, <2>2, <3>1 DEF G!Keep, G!Known, G!Answer
    <3> QED BY ONLY <1>10, <3>1, <3>2 DEF G!Tell
  <2>3. CASE admin /\ Refused
    BY ONLY <1>13, <2>3 DEF Refused, Reply
  <2>4. CASE admin /\ value = <<>> /\ Delete(name) /\ Reply("unknown", <<>>)
    <3>1. table' = table \ Rows(table, name) /\ said' = [kind |-> "unknown", value |-> <<>>]
      BY ONLY <2>4, TableRead DEF Delete, Reply
    <3>2. OneRow(table') /\ Changed(table, table', name, <<>>)
      BY <3>1, Deleted
    <3>3. next = [entries EXCEPT ![n] = <<>>]
      BY ONLY <1>9, <3>2
    <3>4. G!Remove(n, admin)
      BY ONLY <1>5, <1>6, <1>8, <1>15, <2>4, <3>1, <3>3 DEF G!Remove, G!Known, G!Answer
    <3> QED BY ONLY <2>4, <3>2, <3>4 DEF G!Tell
  <2>5. CASE admin /\ value # <<>> /\ Update(name, value) /\ Reply("now", value)
    <3>1. /\ table' = (table \ Rows(table, name))
                          \cup {[r EXCEPT !.value = value] : r \in Rows(table, name)}
          /\ said' = [kind |-> "now", value |-> value]
      BY ONLY <2>5, TableRead DEF Update, Reply
    <3>2. OneRow(table') /\ Changed(table, table', name, value)
      BY <1>15, <2>5, <3>1, Updated
    <3>3. next = [entries EXCEPT ![n] = value]
      BY ONLY <1>9, <3>2
    <3>4. n # <<>>
      <4>1. PICK r \in table : Fold(r.name) = Fold(name)
        BY ONLY <1>15 DEF Rows
      <4>2. r.name \in Typed /\ r.name # <<>>
        BY <4>1 DEF OneRow
      <4>3. Fold(r.name) # <<>>
        BY <4>2, FoldOfName
      <4> QED BY ONLY <1>3, <4>1, <4>3
    <3>5. G!Set(n, value, admin)
      BY ONLY <1>5, <1>6, <1>8, <1>15, <2>5, <3>1, <3>3, <3>4 DEF G!Set, G!Known, G!Answer
    <3> QED BY ONLY <3>2, <3>5 DEF G!Tell
  <2> QED BY ONLY <2>1, <2>2, <2>3, <2>4, <2>5 DEF Modify
<1> QED BY ONLY <1>14, <1>15

\* Calc is the glossary of the channel: ImplementsGlossary of Calc, for any
\* names, values, spaces and letters that the assumptions allow.
THEOREM CalcImplementsGlossary ==
    CalcSpec => ImplementsGlossary
<1>1. CalcInit => CalcInv /\ G!Init
  BY CalcInitOneRow, CalcInitRefines DEF CalcInv
<1>2. CalcInv /\ [CalcNext]_calcVars => CalcInv' /\ [G!Next]_G!vars
  <2>1. SUFFICES ASSUME CalcInv, [CalcNext]_calcVars
                 PROVE  CalcInv' /\ [G!Next]_G!vars
    OBVIOUS
  <2>2. OneRow(table)
    BY ONLY <2>1 DEF CalcInv
  <2>3. CASE UNCHANGED calcVars
    <3>1. table' = table /\ asked' = asked /\ said' = said
      BY ONLY <2>3 DEF calcVars
    <3>2. CalcInv'
      BY ONLY <2>2, <3>1 DEF CalcInv
    <3>3. UNCHANGED G!vars
      <4>1. [n \in {Fold(t) : t \in Typed} |-> EntryOf(n)]'
                = [n \in {Fold(t) : t \in Typed} |-> EntryOf(n)]
        BY ONLY <3>1, TableRead, TableReadNext
      <4> QED BY ONLY <3>1, <4>1 DEF G!vars
    <3> QED BY ONLY <3>2, <3>3
  <2>4. CASE CalcNext
    <3>1. PICK name \in Typed, value \in Value, left \in Pad, right \in Pad, admin \in BOOLEAN :
              AskFor(name, left, admin) \/ Tell(name, value, left, right, admin)
      BY ONLY <2>4 DEF CalcNext
    <3>2. OneRow(table') /\ G!Next
      BY <2>2, <3>1, AskRefines, TellRefines
    <3> QED BY ONLY <3>2 DEF CalcInv
  <2> QED BY ONLY <2>1, <2>3, <2>4
<1> QED BY <1>1, <1>2, PTL DEF CalcSpec, ImplementsGlossary, G!Spec
=============================================================================
