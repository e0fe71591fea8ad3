--------------------------- MODULE PluginsProofs ----------------------------
(***************************************************************************)
(* Proofs about Plugins, for every set of plugins, whatever they depend    *)
(* on, and whichever files are broken or invalid: the list of plugins is   *)
(* sound through every load and unload, also those that fail half way or   *)
(* end in a crash, and what the plugins register is there exactly while    *)
(* they are.  Then, for every directory that is Tidy: nothing that has     *)
(* been freed is used, and what a plugin depends on is loaded.             *)
(***************************************************************************)
EXTENDS Plugins, ListLemmas, FiniteSetTheorems

-----------------------------------------------------------------------------
(* The list of plugins.                                                    *)

\* The list l links the plugins of the sequence o, in this order.
Linked(l, o) ==
    /\ o \in Seq(Name) /\ IsInjective(o)
    /\ DOMAIN l.node = Range(o)
    /\ l.first = IF Len(o) = 0 THEN NoName ELSE o[1]
    /\ l.last = IF Len(o) = 0 THEN NoName ELSE o[Len(o)]
    /\ \A i \in DOMAIN o :
          l.node[o[i]] = [prev |-> IF i = 1 THEN NoName ELSE o[i - 1],
                          next |-> IF i = Len(o) THEN NoName ELSE o[i + 1]]

\* The elements of a list are names, and its ends are NULL when it is empty only.
LEMMA LinkedFacts ==
    ASSUME NEW l, NEW o, Linked(l, o)
    PROVE  /\ Len(o) \in Nat /\ DOMAIN o = 1..Len(o)
           /\ \A i \in DOMAIN o : o[i] \in Name /\ o[i] \in DOMAIN l.node /\ o[i] # NoName
           /\ \A n \in DOMAIN l.node : \E i \in DOMAIN o : n = o[i]
           /\ \A i, j \in DOMAIN o : o[i] = o[j] => i = j
           /\ l.last = NoName <=> Len(o) = 0
           /\ l.first = NoName <=> Len(o) = 0
<1>1. o \in Seq(Name) /\ IsInjective(o) /\ DOMAIN l.node = Range(o)
  BY DEF Linked
<1>2. Len(o) \in Nat /\ DOMAIN o = 1..Len(o)
  BY <1>1, LenProperties
<1>3. \A i \in DOMAIN o : o[i] \in Name /\ o[i] # NoName
  BY <1>1, <1>2, ElementOfSeq, PluginsAssumption DEF PluginsAssumption
<1>4. \A i \in DOMAIN o : o[i] \in DOMAIN l.node
  BY <1>1 DEF Range
<1>5. \A n \in DOMAIN l.node : \E i \in DOMAIN o : n = o[i]
  BY <1>1 DEF Range
<1>6. \A i, j \in DOMAIN o : o[i] = o[j] => i = j
  BY <1>1 DEF IsInjective
<1>7. l.last = NoName <=> Len(o) = 0
  BY <1>2, <1>3 DEF Linked
<1>8. l.first = NoName <=> Len(o) = 0
  BY <1>2, <1>3 DEF Linked
<1> QED BY <1>2, <1>3, <1>4, <1>5, <1>6, <1>7, <1>8

\* A new plugin is the last one.
LEMMA AppendedLinked ==
    ASSUME NEW l, NEW o, Linked(l, o), NEW n \in Name \ DOMAIN l.node
    PROVE  Linked(Appended(l, n), Append(o, n))
<1> DEFINE t == Appended(l, n)
           p == Append(o, n)
<1>0. o \in Seq(Name) /\ IsInjective(o) /\ DOMAIN l.node = Range(o)
  BY DEF Linked
<1>1. /\ p \in Seq(Name) /\ Range(p) = Range(o) \cup {n} /\ IsInjective(p)
  BY <1>0, AppendElement
<1>2. /\ Len(p) = Len(o) + 1
      /\ \A i \in 1..Len(o) : p[i] = o[i]
      /\ p[Len(o) + 1] = n
  BY <1>0, AppendProperties
<1>3. DOMAIN p = 1..Len(o) + 1 /\ Len(o) \in Nat /\ DOMAIN o = 1..Len(o)
  BY <1>1, <1>2, LenProperties, LinkedFacts
<1>4. DOMAIN t.node = Range(p)
  BY <1>0, <1>1 DEF Appended
<1>5. t.first = p[1] /\ t.last = p[Len(p)]
  <2>1. t.last = n
    BY DEF Appended
  <2>2. t.first = IF l.last = NoName THEN n ELSE l.first
    BY DEF Appended
  <2>3. l.last = NoName <=> Len(o) = 0
    BY LinkedFacts
  <2>4. Len(o) # 0 => l.first = o[1]
    BY DEF Linked
  <2> QED BY <1>2, <1>3, <2>1, <2>2, <2>3, <2>4
<1> HIDE DEF t, p
<1>6. ASSUME NEW i \in DOMAIN p
      PROVE  t.node[p[i]] = [prev |-> IF i = 1 THEN NoName ELSE p[i - 1],
                             next |-> IF i = Len(p) THEN NoName ELSE p[i + 1]]
  <2>0. p[i] \in DOMAIN t.node
    BY <1>4 DEF Range
  <2>1. t.node[p[i]] = IF p[i] = n THEN [prev |-> l.last, next |-> NoName]
                       ELSE IF p[i] = l.last THEN [l.node[p[i]] EXCEPT !.next = n]
                       ELSE l.node[p[i]]
    BY <2>0 DEF Appended, t
  <2>2. CASE i = Len(o) + 1
    <3>1. i # 1 => p[i - 1] = o[Len(o)]
      BY <1>2, <1>3, <2>2
    <3>2. l.last = IF Len(o) = 0 THEN NoName ELSE o[Len(o)]
      BY DEF Linked
    <3>3. i = 1 <=> Len(o) = 0
      BY <1>3, <2>2
    <3>4. t.node[p[i]] = [prev |-> l.last, next |-> NoName] /\ i = Len(p)
      BY <1>2, <2>1, <2>2
    <3> QED BY <3>1, <3>2, <3>3, <3>4
  <2>3. CASE i # Len(o) + 1
    <3>1. i \in DOMAIN o /\ p[i] = o[i] /\ o[i] # n /\ Len(o) # 0
      BY <1>2, <1>3, <2>3, LinkedFacts
    <3>2. l.last = o[Len(o)]
      BY <3>1 DEF Linked
    <3>3. o[i] = l.last <=> i = Len(o)
      BY <1>3, <3>1, <3>2, LinkedFacts
    <3>4. l.node[o[i]] = [prev |-> IF i = 1 THEN NoName ELSE o[i - 1],
                          next |-> IF i = Len(o) THEN NoName ELSE o[i + 1]]
      BY <3>1 DEF Linked
    <3>5. i # 1 => o[i - 1] = p[i - 1]
      BY <1>2, <1>3, <3>1
    <3>6. CASE i = Len(o)
      <4>1. t.node[p[i]] = [l.node[o[i]] EXCEPT !.next = n]
        <5>1. p[i] # n /\ p[i] = l.last
          BY <3>1, <3>3, <3>6
        <5>2. t.node[p[i]] = [l.node[p[i]] EXCEPT !.next = n]
          BY ONLY <2>1, <5>1
        <5> QED BY <3>1, <5>2
      <4>2. t.node[p[i]] = [prev |-> IF i = 1 THEN NoName ELSE o[i - 1], next |-> n]
        BY <3>4, <4>1
      <4>3. i # Len(p) /\ p[i + 1] = n
        <5>1. i + 1 = Len(o) + 1
          BY <3>6
        <5>2. i # Len(p)
          <6>1. Len(o) \in Nat /\ Len(p) = Len(o) + 1
            BY <1>2, <1>3
          <6> QED BY ONLY <3>6, <6>1
        <5> QED BY <1>2, <5>1, <5>2
      <4> QED BY <3>5, <4>2, <4>3
    <3>7. CASE i # Len(o)
      <4>1. t.node[p[i]] = l.node[o[i]]
        BY <2>1, <3>1, <3>3, <3>7
      <4>2. i # Len(p) /\ p[i + 1] = o[i + 1]
        BY <1>2, <1>3, <3>1, <3>7
      <4> QED BY <3>4, <3>5, <3>7, <4>1, <4>2
    <3> QED BY <3>6, <3>7
  <2> QED BY <2>2, <2>3
<1>7. Len(p) # 0
  BY <1>2, <1>3
<1>8. Linked(t, p)
  BY <1>1, <1>4, <1>5, <1>6, <1>7 DEF Linked
<1> QED BY <1>8 DEF t, p

\* A plugin that dlopen refuses leaves the list as it was.
LEMMA DroppedLinked ==
    ASSUME NEW l, NEW o, Linked(l, o), l.last # NoName, NEW n \in Name \ DOMAIN l.node
    PROVE  Linked(Dropped(Appended(l, n), n), o)
<1> DEFINE a == Appended(l, n)
           t == Dropped(a, n)
<1>1. /\ Len(o) \in Nat \ {0} /\ DOMAIN o = 1..Len(o)
      /\ o \in Seq(Name) /\ IsInjective(o) /\ DOMAIN l.node = Range(o)
  BY LinkedFacts DEF Linked
<1>2. /\ a.first = l.first
      /\ DOMAIN a.node = DOMAIN l.node \cup {n}
      /\ a.node[n] = [prev |-> l.last, next |-> NoName]
      /\ \A m \in DOMAIN l.node : a.node[m] = IF m = l.last THEN [l.node[m] EXCEPT !.next = n]
                                             ELSE l.node[m]
  BY DEF Appended
<1>3. /\ t.first = l.first /\ t.last = l.last
      /\ DOMAIN t.node = DOMAIN l.node
      /\ \A m \in DOMAIN l.node : t.node[m] = IF m = l.last
                                              THEN [a.node[m] EXCEPT !.next = NoName]
                                              ELSE a.node[m]
  <2>1. a.node[n].prev = l.last
    BY <1>2
  <2>2. a = [first |-> a.first, last |-> a.last, node |-> a.node]
    BY DEF Appended
  <2> HIDE DEF a
  <2>3. /\ t.first = a.first /\ t.last = l.last
        /\ t.node = [m \in DOMAIN a.node \ {n} |->
                       IF m = l.last THEN [a.node[m] EXCEPT !.next = NoName] ELSE a.node[m]]
    BY <2>1, <2>2 DEF Dropped
  <2>4. DOMAIN a.node \ {n} = DOMAIN l.node
    BY <1>2
  <2> QED BY <1>2, <2>3, <2>4
<1> HIDE DEF a, t
<1>4. ASSUME NEW i \in DOMAIN o PROVE t.node[o[i]] = l.node[o[i]]
  <2>1. o[i] \in DOMAIN l.node
    BY LinkedFacts
  <2>2. l.last = o[Len(o)]
    BY <1>1 DEF Linked
  <2>3. CASE o[i] = l.last
    <3>1. i = Len(o)
      BY <1>1, <2>2, <2>3, LinkedFacts
    <3>2. t.node[o[i]] = [[l.node[o[i]] EXCEPT !.next = n] EXCEPT !.next = NoName]
      BY <1>2, <1>3, <2>1, <2>3
    <3>3. l.node[o[i]] = [prev |-> IF i = 1 THEN NoName ELSE o[i - 1], next |-> NoName]
      BY <3>1 DEF Linked
    <3>4. PICK r : r = l.node[o[i]]
      OBVIOUS
    <3>5. PICK x : x = IF i = 1 THEN NoName ELSE o[i - 1]
      OBVIOUS
    <3>6. r = [prev |-> x, next |-> NoName]
      BY <3>3, <3>4, <3>5
    <3>7. PICK s : s = [r EXCEPT !.next = n]
      OBVIOUS
    <3>8. s = [prev |-> x, next |-> n]
      BY ONLY <3>6, <3>7
    <3>9. [s EXCEPT !.next = NoName] = r
      BY ONLY <3>6, <3>8
    <3> QED BY <3>2, <3>4, <3>7, <3>9
  <2>4. CASE o[i] # l.last
    BY <1>2, <1>3, <2>1, <2>4
  <2> QED BY <2>3, <2>4
<1>5. Linked(t, o)
  BY <1>1, <1>3, <1>4 DEF Linked
<1> QED BY <1>5 DEF a, t

\* The plugin that is unloaded goes from its place.
LEMMA UnlinkedLinked ==
    ASSUME NEW l, NEW o, Linked(l, o), NEW k \in DOMAIN o
    PROVE  Linked(Unlinked(l, o[k]), RemoveAt(o, k))
<1> DEFINE n == o[k]
           t == Unlinked(l, n)
           r == RemoveAt(o, k)
           at(i) == IF i < k THEN i ELSE i + 1
<1>1. /\ o \in Seq(Name) /\ IsInjective(o) /\ DOMAIN l.node = Range(o)
      /\ Len(o) \in Nat /\ DOMAIN o = 1..Len(o) /\ k \in 1..Len(o)
  BY LinkedFacts DEF Linked
<1>2. /\ r \in Seq(Name) /\ IsInjective(r) /\ Range(r) = Range(o) \ {n}
  BY <1>1, RemoveElement
<1>3. Len(r) = Len(o) - 1 /\ \A i \in 1..Len(o) - 1 : r[i] = o[at(i)]
  BY <1>1, RemoveAtPositions
<1>4. DOMAIN r = 1..Len(o) - 1
  BY <1>2, <1>3, LenProperties
<1>5. PICK p : p = IF k = 1 THEN NoName ELSE o[k - 1]
  OBVIOUS
<1>6. PICK q : q = IF k = Len(o) THEN NoName ELSE o[k + 1]
  OBVIOUS
<1>7. l.node[n].prev = p /\ l.node[n].next = q
  <2>1. l.node[n] = [prev |-> IF k = 1 THEN NoName ELSE o[k - 1],
                     next |-> IF k = Len(o) THEN NoName ELSE o[k + 1]]
    BY DEF Linked
  <2> QED BY <1>5, <1>6, <2>1
<1>8. /\ t.first = IF p = NoName THEN q ELSE l.first
      /\ t.last = IF q = NoName THEN p ELSE l.last
      /\ DOMAIN t.node = DOMAIN l.node \ {n}
      /\ \A m \in DOMAIN l.node \ {n} :
            t.node[m] = [prev |-> IF m = q THEN p ELSE l.node[m].prev,
                         next |-> IF m = p THEN q ELSE l.node[m].next]
  BY <1>7 DEF Unlinked
<1> HIDE DEF n, t, r
<1>9. p = NoName <=> k = 1
  BY <1>1, <1>5, LinkedFacts
<1>10. q = NoName <=> k = Len(o)
  BY <1>1, <1>6, LinkedFacts
<1>11. Len(r) \in Nat
  BY <1>1, <1>3
<1>12. t.first = IF Len(r) = 0 THEN NoName ELSE r[1]
  <2>1. l.first = o[1]
    BY <1>1 DEF Linked
  <2>2. CASE Len(r) = 0
    <3>1. k = 1 /\ k = Len(o)
      <4>1. Len(o) \in Nat /\ k \in 1..Len(o) /\ Len(o) - 1 = 0
        BY <1>1, <1>3, <2>2
      <4> QED BY ONLY <4>1
    <3> QED BY <1>8, <1>9, <1>10, <2>2, <3>1
  <2>3. CASE Len(r) # 0
    <3>1. r[1] = IF k = 1 THEN o[2] ELSE o[1]
      BY <1>1, <1>3, <2>3
    <3>2. k = 1 => q = o[2]
      BY <1>1, <1>3, <1>6, <2>3
    <3> QED BY <1>8, <1>9, <2>1, <2>3, <3>1, <3>2
  <2> QED BY <2>2, <2>3
<1>13. t.last = IF Len(r) = 0 THEN NoName ELSE r[Len(r)]
  <2>1. l.last = o[Len(o)]
    BY <1>1 DEF Linked
  <2>2. CASE Len(r) = 0
    <3>1. k = 1 /\ k = Len(o)
      <4>1. Len(o) \in Nat /\ k \in 1..Len(o) /\ Len(o) - 1 = 0
        BY <1>1, <1>3, <2>2
      <4> QED BY ONLY <4>1
    <3> QED BY <1>8, <1>9, <1>10, <2>2, <3>1
  <2>3. CASE Len(r) # 0
    <3>1. r[Len(r)] = IF k = Len(o) THEN o[Len(o) - 1] ELSE o[Len(o)]
      <4>1. Len(r) \in 1..Len(o) - 1
        BY <1>1, <1>3, <2>3
      <4>2. r[Len(r)] = o[at(Len(r))]
        BY <1>3, <4>1
      <4>3. at(Len(r)) = IF k = Len(o) THEN Len(o) - 1 ELSE Len(o)
        BY <1>1, <1>3
      <4> QED BY <4>2, <4>3
    <3>2. k = Len(o) => p = o[Len(o) - 1]
      BY <1>1, <1>3, <1>5, <2>3
    <3> QED BY <1>8, <1>10, <2>1, <2>3, <3>1, <3>2
  <2> QED BY <2>2, <2>3
<1>14. ASSUME NEW i \in DOMAIN r
       PROVE  t.node[r[i]] = [prev |-> IF i = 1 THEN NoName ELSE r[i - 1],
                              next |-> IF i = Len(r) THEN NoName ELSE r[i + 1]]
  <2>1. PICK j : j = at(i)
    OBVIOUS
  <2>2. /\ i \in 1..Len(o) - 1 /\ j \in 1..Len(o) /\ j # k
        /\ j = IF i < k THEN i ELSE i + 1
    BY <1>1, <1>4, <2>1
  <2>3. r[i] = o[j]
    BY <1>3, <2>1, <2>2
  <2>4. o[j] \in DOMAIN l.node \ {n}
    BY <1>1, <2>2, LinkedFacts DEF n
  <2>5. t.node[o[j]] = [prev |-> IF o[j] = q THEN p ELSE l.node[o[j]].prev,
                        next |-> IF o[j] = p THEN q ELSE l.node[o[j]].next]
    BY <1>8, <2>4
  <2>6. /\ l.node[o[j]].prev = IF j = 1 THEN NoName ELSE o[j - 1]
        /\ l.node[o[j]].next = IF j = Len(o) THEN NoName ELSE o[j + 1]
    <3>1. l.node[o[j]] = [prev |-> IF j = 1 THEN NoName ELSE o[j - 1],
                          next |-> IF j = Len(o) THEN NoName ELSE o[j + 1]]
      BY <1>1, <2>2 DEF Linked
    <3> QED BY ONLY <3>1
  <2>7. o[j] = q <=> i = k
    <3>1. o[j] # NoName
      BY <1>1, <2>2, LinkedFacts
    <3>2. k # Len(o) => (o[j] = o[k + 1] <=> j = k + 1)
      BY <1>1, <2>2, LinkedFacts
    <3>3. j = k + 1 <=> i = k
      BY <1>1, <2>2
    <3>4. i = k => k # Len(o)
      BY <1>1, <2>2
    <3> QED BY <1>6, <3>1, <3>2, <3>3, <3>4
  <2>8. o[j] = p <=> i = k - 1
    <3>1. o[j] # NoName
      BY <1>1, <2>2, LinkedFacts
    <3>2. k # 1 => (o[j] = o[k - 1] <=> j = k - 1)
      BY <1>1, <2>2, LinkedFacts
    <3>3. j = k - 1 <=> i = k - 1
      BY <1>1, <2>2
    <3>4. i = k - 1 => k # 1
      BY <1>1, <2>2
    <3> QED BY <1>5, <3>1, <3>2, <3>3, <3>4
  <2>9. (IF o[j] = q THEN p ELSE l.node[o[j]].prev) = IF i = 1 THEN NoName ELSE r[i - 1]
    <3>1. i # 1 => r[i - 1] = o[IF i - 1 < k THEN i - 1 ELSE i]
      BY <1>1, <1>3, <2>2
    <3>2. CASE i = k
      <4>1. i # 1 => r[i - 1] = o[k - 1]
        BY <1>1, <3>1, <3>2
      <4> QED BY <1>5, <2>7, <3>2, <4>1
    <3>3. CASE i # k
      <4>1. i = 1 <=> j = 1
        BY <1>1, <2>2, <3>3
      <4>2. i # 1 => r[i - 1] = o[j - 1]
        BY <1>1, <2>2, <3>1, <3>3
      <4> QED BY <2>6, <2>7, <3>3, <4>1, <4>2
    <3> QED BY <3>2, <3>3
  <2>10. (IF o[j] = p THEN q ELSE l.node[o[j]].next) = IF i = Len(r) THEN NoName ELSE r[i + 1]
    <3>1. i # Len(r) => r[i + 1] = o[IF i + 1 < k THEN i + 1 ELSE i + 2]
      BY <1>1, <1>3, <2>2
    <3>2. CASE i = k - 1
      <4>1. i = Len(r) <=> k = Len(o)
        BY <1>1, <1>3, <3>2
      <4>2. i # Len(r) => r[i + 1] = o[k + 1]
        BY <1>1, <3>1, <3>2
      <4> QED BY <1>6, <2>8, <3>2, <4>1, <4>2
    <3>3. CASE i # k - 1
      <4>1. i = Len(r) <=> j = Len(o)
        BY <1>1, <1>3, <2>2, <3>3
      <4>2. i # Len(r) => r[i + 1] = o[j + 1]
        BY <1>1, <2>2, <3>1, <3>3
      <4> QED BY <2>6, <2>8, <3>3, <4>1, <4>2
    <3> QED BY <3>2, <3>3
  <2> QED BY <2>3, <2>5, <2>9, <2>10
<1>15. DOMAIN t.node = Range(r)
  BY <1>1, <1>2, <1>8
<1>16. Linked(t, r)
  BY <1>2, <1>12, <1>13, <1>14, <1>15 DEF Linked
<1> QED BY <1>16 DEF n, t, r

-----------------------------------------------------------------------------
(* The loops over the list.                                                *)

\* f is where a loop over the list is after each number of steps.
Advances(f) ==
    f = [k \in Nat |-> IF k = 0 THEN list.first
                       ELSE IF f[k - 1] \in Loaded THEN list.node[f[k - 1]].next ELSE NoName]

\* A loop over a list sees its plugins in order, and then NULL.
LEMMA ReachedIs ==
    ASSUME NEW o, Linked(list, o), NEW k \in Nat
    PROVE  Reached[k] = IF k < Len(o) THEN o[k + 1] ELSE NoName
<1> DEFINE g == [i \in Nat |-> IF i < Len(o) THEN o[i + 1] ELSE NoName]
<1>1. Len(o) \in Nat /\ DOMAIN o = 1..Len(o)
  BY LinkedFacts
<1>2. ASSUME NEW i \in Nat
      PROVE  g[i] = IF i = 0 THEN list.first
                    ELSE IF g[i - 1] \in Loaded THEN list.node[g[i - 1]].next ELSE NoName
  <2>1. CASE i = 0
    BY <1>1, <2>1 DEF Linked
  <2>2. CASE i # 0 /\ i <= Len(o)
    <3>1. g[i - 1] = o[i] /\ i \in DOMAIN o
      BY <1>1, <2>2
    <3>2. o[i] \in Loaded
      BY <3>1, LinkedFacts DEF Loaded
    <3>3. list.node[o[i]].next = IF i = Len(o) THEN NoName ELSE o[i + 1]
      <4>1. list.node[o[i]] = [prev |-> IF i = 1 THEN NoName ELSE o[i - 1],
                               next |-> IF i = Len(o) THEN NoName ELSE o[i + 1]]
        BY <3>1 DEF Linked
      <4> QED BY ONLY <4>1
    <3>4. g[i] = IF i = Len(o) THEN NoName ELSE o[i + 1]
      <4>1. i < Len(o) <=> i # Len(o)
        <5>1. i \in Nat /\ Len(o) \in Nat /\ i <= Len(o)
          BY <1>1, <2>2
        <5> QED BY ONLY <5>1
      <4>2. g[i] = IF i < Len(o) THEN o[i + 1] ELSE NoName
        OBVIOUS
      <4> HIDE DEF g
      <4> QED BY <4>1, <4>2
    <3> QED BY <2>2, <3>1, <3>2, <3>3, <3>4
  <2>3. CASE i # 0 /\ i > Len(o)
    <3>1. g[i - 1] = NoName /\ g[i] = NoName
      BY <1>1, <2>3
    <3>2. NoName \notin Loaded
      BY LinkedFacts DEF Loaded
    <3> QED BY <2>3, <3>1, <3>2
  <2> QED BY <1>1, <2>1, <2>2, <2>3
<1>3. Advances(g)
  <2>1. g = [i \in Nat |-> g[i]]
    OBVIOUS
  <2> HIDE DEF g
  <2> QED BY <1>2, <2>1 DEF Advances
<1>4. Advances(Reached)
  <2>1. Reached = CHOOSE f : Advances(f)
    BY DEF Reached, Advances
  <2> QED BY <1>3, <2>1
<1>5. \A i \in Nat :
         Reached[i] = IF i = 0 THEN list.first
                      ELSE IF Reached[i - 1] \in Loaded THEN list.node[Reached[i - 1]].next
                      ELSE NoName
  <2> DEFINE f == Reached
  <2>1. f = [i \in Nat |-> IF i = 0 THEN list.first
                           ELSE IF f[i - 1] \in Loaded THEN list.node[f[i - 1]].next
                           ELSE NoName]
    BY <1>4 DEF Advances
  <2> HIDE DEF f
  <2>2. \A i \in Nat :
           f[i] = IF i = 0 THEN list.first
                  ELSE IF f[i - 1] \in Loaded THEN list.node[f[i - 1]].next ELSE NoName
    BY <2>1
  <2> QED BY <2>2 DEF f
<1>6. \A i \in Nat : Reached[i] = g[i]
  <2> DEFINE Differ == {i \in Nat : Reached[i] # g[i]}
  <2>1. SUFFICES ASSUME Differ # {} PROVE FALSE
    OBVIOUS
  <2>2. PICK i \in Differ : \A j \in Differ : i <= j
    <3>1. Differ \in SUBSET Nat
      OBVIOUS
    <3> HIDE DEF Differ
    <3> QED BY <2>1, <3>1, LeastPosition
  <2>3. i \in Nat /\ Reached[i] # g[i]
    BY <2>2
  <2>4. i # 0 => Reached[i - 1] = g[i - 1]
    <3>1. i # 0 => i - 1 \in Nat /\ i - 1 \notin Differ
      <4> HIDE DEF Differ
      <4> QED BY <2>2, <2>3
    <3> QED BY <3>1
  <2> HIDE DEF g, Differ
  <2> QED BY <1>2, <1>5, <2>3, <2>4
<1> QED BY <1>6

\* Walk is the sequence of the plugins that the list links.
LEMMA WalkIs ==
    ASSUME NEW o, Linked(list, o)
    PROVE  /\ Walk = o
           /\ IsFiniteSet(Loaded) /\ Cardinality(Loaded) = Len(o)
<1>1. /\ o \in Seq(Name) /\ IsInjective(o) /\ Loaded = Range(o)
      /\ Len(o) \in Nat /\ DOMAIN o = 1..Len(o)
  BY LinkedFacts DEF Linked, Loaded
<1>2. IsFiniteSet(Loaded) /\ Cardinality(Loaded) = Len(o)
  <2>1. o \in [1..Len(o) -> Loaded]
    <3>1. o = [i \in 1..Len(o) |-> o[i]]
      BY <1>1, SeqDef
    <3>2. \A i \in 1..Len(o) : o[i] \in Loaded
      BY <1>1 DEF Range
    <3> QED BY <3>1, <3>2
  <2>2. o \in Bijection(1..Len(o), Loaded)
    BY <1>1, <2>1 DEF Bijection, Injection, Surjection, IsInjective, Range
  <2>3. ExistsBijection(1..Len(o), Loaded)
    BY <2>2 DEF ExistsBijection
  <2> QED BY <1>1, <2>3, FS_CountingElements, FS_NatBijection
<1> DEFINE K == {k \in 0..Len(o) : Reached[k] # NoName}
<1>3. K = 0..Len(o) - 1
  <2>1. \A k \in 0..Len(o) : Reached[k] = IF k < Len(o) THEN o[k + 1] ELSE NoName
    BY <1>1, ReachedIs
  <2>2. \A k \in 0..Len(o) : k < Len(o) => o[k + 1] # NoName
    BY <1>1, LinkedFacts
  <2>3. \A k \in 0..Len(o) : Reached[k] # NoName <=> k < Len(o)
    BY <2>1, <2>2
  <2> QED BY <1>1, <2>3
<1>4. Cardinality(K) = Len(o)
  <2>1. Cardinality(0..Len(o) - 1) = IF 0 > Len(o) - 1 THEN 0 ELSE Len(o) - 1 - 0 + 1
    BY <1>1, FS_Interval
  <2>2. Cardinality(0..Len(o) - 1) = Len(o)
    BY <1>1, <2>1
  <2> HIDE DEF K
  <2> QED BY <1>3, <2>2
<1>5. Walk = [k \in 1..Len(o) |-> Reached[k - 1]]
  BY <1>2, <1>4 DEF Walk
<1>6. \A k \in 1..Len(o) : Reached[k - 1] = o[k]
  <2> SUFFICES ASSUME NEW k \in 1..Len(o) PROVE Reached[k - 1] = o[k]
    OBVIOUS
  <2>1. k - 1 \in Nat /\ k - 1 < Len(o) /\ k - 1 + 1 = k
    BY <1>1
  <2> QED BY <2>1, ReachedIs
<1>7. o = [k \in 1..Len(o) |-> o[k]]
  BY <1>1, SeqDef
<1> QED BY <1>2, <1>5, <1>6, <1>7

\* A list that links some sequence is sound.
LEMMA LinkedSound ==
    ASSUME NEW o, Linked(list, o), TypeOK
    PROVE  ListSound
<1>1. Walk = o /\ Cardinality(Loaded) = Len(o)
  BY WalkIs
<1>2. /\ o \in Seq(Name) /\ Loaded = Range(o) /\ Len(o) \in Nat /\ DOMAIN o = 1..Len(o)
  BY LinkedFacts DEF Linked, Loaded
<1>3. list.last = IF o = <<>> THEN NoName ELSE Last(o)
  <2>1. o = <<>> <=> Len(o) = 0
    BY <1>2, EmptySeq
  <2>2. list.last = IF Len(o) = 0 THEN NoName ELSE o[Len(o)]
    BY DEF Linked
  <2> QED BY <2>1, <2>2 DEF Last
<1>4. \A i \in DOMAIN o : list.node[o[i]].prev = IF i = 1 THEN NoName ELSE o[i - 1]
  <2> SUFFICES ASSUME NEW i \in DOMAIN o
               PROVE  list.node[o[i]].prev = IF i = 1 THEN NoName ELSE o[i - 1]
    OBVIOUS
  <2>1. list.node[o[i]] = [prev |-> IF i = 1 THEN NoName ELSE o[i - 1],
                           next |-> IF i = Len(o) THEN NoName ELSE o[i + 1]]
    BY DEF Linked
  <2> QED BY ONLY <2>1
<1> QED BY <1>1, <1>2, <1>3, <1>4 DEF ListSound

-----------------------------------------------------------------------------
(* The inductive invariant.                                                *)

Frames ==
    [proc : {"dir", "load", "unload", "close", "tel", "irc"}, name : Name \cup {NoName},
     at : Nat \ {0}, wait : BOOLEAN, done : BOOLEAN,
     ret : {"ok", "dependency", "load", "unload"}, ask : Name \cup {NoName}]

\* A call that loads a plugin, or gives up loading it.
Starting(f) == f.proc = "load" \/ ~f.done

\* Unless the innermost call is a load that has learnt of a failure, all plugins
\* that are being loaded are in the list, whose plugins are L.
Sure(s, L, r) ==
    Len(s) # 0 /\ s[Len(s)].proc = "load" /\ (s[Len(s)].wait => r = "ok") =>
        \A i \in DOMAIN s : s[i].proc = "load" => s[i].name \in L

\* The calls s under way: at the bottom main or an event, then loads, then
\* unloads.  A load waits for the one above it.  When its dependency has failed
\* it becomes an unload without PluginDone.
Nested(s, L, r) ==
    /\ \A i \in DOMAIN s : s[i].proc \in {"load", "unload"} <=> i > 1
    /\ \A i \in DOMAIN s : i > 1 => s[i].name \in Name
    /\ \A i \in DOMAIN s : s[i].proc = "tel" => s[i].ask \in Name
    /\ \A i \in DOMAIN s : i < Len(s) /\ s[i].proc = "load" => s[i].wait
    /\ \A i, j \in DOMAIN s : i < j /\ s[i].proc = "unload" => s[j].proc = "unload"
    /\ \A i \in DOMAIN s : ~s[i].done => s[i].proc = "unload" /\ s[i].ret = "dependency"
    /\ \A i \in DOMAIN s :
          i > 1 /\ s[i].proc = "unload" /\ s[i - 1].proc = "load" => ~s[i].done
    /\ \A i, j \in DOMAIN s :
          Starting(s[i]) /\ Starting(s[j]) /\ s[i].name = s[j].name => i = j
    /\ Sure(s, L, r)

\* The plugins of L whose PluginInit has run.
Started(s, L) == {n \in L : \A i \in DOMAIN s : Starting(s[i]) => s[i].name # n}

\* Of the plugins of R those of A are in q, each once, and nobody else is.
Enrolled(q, R, A) ==
    /\ q \in Seq(Name)
    /\ \A n \in Name : IF n \in R /\ n \in A THEN Once(q, n) ELSE n \notin Range(q)

Enlisted(c, t, A) ==
    /\ Enrolled(c.tel, TelListener, A)
    /\ Enrolled(c.irc, IrcListener, A)
    /\ Enrolled(t, Timed, A)

Typed ==
    /\ \E o \in Seq(Name) : Linked(list, o)
    /\ DOMAIN chains = {"tel", "irc"} /\ chains.tel \in Seq(Name) /\ chains.irc \in Seq(Name)
    /\ timerOwners \in Seq(Name)
    /\ stack \in Seq(Frames) /\ Len(stack) <= MaxDepth
    /\ mode \in {"starting", "running", "closing", "closed", "ended", "crashed"}

\* Until main has returned, what is registered is that of the plugins in the
\* list whose PluginInit has run.
Kept ==
    /\ mode \in {"closed", "ended"} => stack = <<>>
    /\ mode # "crashed" =>
         /\ Nested(stack, Loaded, result)
         /\ mode # "ended" => Enlisted(chains, timerOwners, Started(stack, Loaded))

IInv == Typed /\ Kept

-----------------------------------------------------------------------------
(* The calls under way.                                                    *)

\* A sequence without its last element.
LEMMA FrontOf ==
    ASSUME NEW S, NEW s \in Seq(S), s # <<>>
    PROVE  /\ Len(s) \in Nat /\ Len(s) # 0 /\ s[Len(s)] \in S
           /\ Front(s) \in Seq(S) /\ Len(Front(s)) = Len(s) - 1
           /\ \A i \in 1..Len(s) - 1 : Front(s)[i] = s[i]
<1>1. Len(s) \in Nat /\ Len(s) # 0 /\ DOMAIN s = 1..Len(s)
  BY LenProperties, EmptySeq
<1>2. s[Len(s)] \in S
  BY <1>1, ElementOfSeq
<1>3. /\ SubSeq(s, 1, Len(s) - 1) \in Seq(S)
      /\ Len(SubSeq(s, 1, Len(s) - 1)) = Len(s) - 1
      /\ \A i \in 1..Len(s) - 1 : SubSeq(s, 1, Len(s) - 1)[i] = s[i]
  <2>1. \A i \in 1..Len(s) - 1 : s[i] \in S
    BY <1>1, ElementOfSeq
  <2> QED BY <1>1, <2>1, SubSeqProperties
<1> QED BY <1>1, <1>2, <1>3 DEF Front

\* A sequence with another last element.
LEMMA Relaid ==
    ASSUME NEW S, NEW s \in Seq(S), s # <<>>, NEW f \in S
    PROVE  /\ Append(Front(s), f) \in Seq(S) /\ Len(Append(Front(s), f)) = Len(s)
           /\ \A i \in 1..Len(s) - 1 : Append(Front(s), f)[i] = s[i]
           /\ Append(Front(s), f)[Len(s)] = f
<1>1. /\ Len(s) \in Nat /\ Len(s) # 0
      /\ Front(s) \in Seq(S) /\ Len(Front(s)) = Len(s) - 1
      /\ \A i \in 1..Len(s) - 1 : Front(s)[i] = s[i]
  BY FrontOf
<1>2. /\ Append(Front(s), f) \in Seq(S)
      /\ Len(Append(Front(s), f)) = Len(Front(s)) + 1
      /\ \A i \in 1..Len(Front(s)) : Append(Front(s), f)[i] = Front(s)[i]
      /\ Append(Front(s), f)[Len(Front(s)) + 1] = f
  BY <1>1, AppendProperties
<1>3. Len(Front(s)) + 1 = Len(s)
  BY <1>1
<1> QED BY <1>1, <1>2, <1>3

\* The innermost call goes on, and nothing below it changes.
LEMMA GoesOn ==
    ASSUME NEW s \in Seq(Frames), NEW t \in Seq(Frames), NEW L, NEW r, NEW M, NEW q,
           NEW n \in Nat \ {0}, Len(s) = n, Len(t) = n, Nested(s, L, r),
           \A i \in 1..n - 1 : t[i] = s[i],
           t[n].proc = s[n].proc, t[n].done = s[n].done,
           t[n].ret = s[n].ret, t[n].ask = s[n].ask,
           n > 1 => t[n].name = s[n].name,
           Sure(t, M, q)
    PROVE  Nested(t, M, q) /\ \A K : Started(t, K) = Started(s, K)
<1>1. DOMAIN s = 1..n /\ DOMAIN t = 1..n
  BY LenProperties
<1>2. ASSUME NEW i \in 1..n
      PROVE  /\ t[i].proc = s[i].proc /\ t[i].done = s[i].done /\ t[i].ret = s[i].ret
             /\ t[i].ask = s[i].ask /\ (i > 1 => t[i].name = s[i].name)
             /\ (i < n => t[i] = s[i])
             /\ (Starting(t[i]) <=> Starting(s[i]))
  BY <1>1 DEF Starting
<1>3. ~Starting(s[1])
  BY <1>1 DEF Nested, Starting
<1>4. \A i \in DOMAIN t : t[i].proc \in {"load", "unload"} <=> i > 1
  BY <1>1, <1>2 DEF Nested
<1>5. \A i \in DOMAIN t : i > 1 => t[i].name \in Name
  BY <1>1, <1>2 DEF Nested
<1>6. \A i \in DOMAIN t : t[i].proc = "tel" => t[i].ask \in Name
  BY <1>1, <1>2 DEF Nested
<1>7. \A i \in DOMAIN t : i < Len(t) /\ t[i].proc = "load" => t[i].wait
  BY <1>1, <1>2 DEF Nested
<1>8. \A i, j \in DOMAIN t : i < j /\ t[i].proc = "unload" => t[j].proc = "unload"
  BY <1>1, <1>2 DEF Nested
<1>9. \A i \in DOMAIN t : ~t[i].done => t[i].proc = "unload" /\ t[i].ret = "dependency"
  BY <1>1, <1>2 DEF Nested
<1>10. \A i \in DOMAIN t :
          i > 1 /\ t[i].proc = "unload" /\ t[i - 1].proc = "load" => ~t[i].done
  <2> SUFFICES ASSUME NEW i \in 1..n, i > 1, t[i].proc = "unload", t[i - 1].proc = "load"
               PROVE  ~t[i].done
    BY <1>1
  <2>1. i - 1 \in 1..n
    BY <1>1
  <2>2. s[i].proc = "unload" /\ s[i - 1].proc = "load"
    BY <1>2, <2>1
  <2> QED BY <1>1, <1>2, <2>2 DEF Nested
<1>11. \A i, j \in DOMAIN t :
          Starting(t[i]) /\ Starting(t[j]) /\ t[i].name = t[j].name => i = j
  <2> SUFFICES ASSUME NEW i \in 1..n, NEW j \in 1..n,
                      Starting(t[i]), Starting(t[j]), t[i].name = t[j].name
               PROVE  i = j
    BY <1>1
  <2>1. Starting(s[i]) /\ Starting(s[j])
    BY <1>2
  <2>2. i > 1 /\ j > 1
    BY <1>1, <1>3, <2>1
  <2>3. s[i].name = s[j].name
    BY <1>2, <2>2
  <2> QED BY <1>1, <2>1, <2>3 DEF Nested
<1>12. ASSUME NEW K PROVE Started(t, K) = Started(s, K)
  <2>1. \A i \in 1..n : Starting(s[i]) => t[i].name = s[i].name
    BY <1>1, <1>2, <1>3
  <2>2. \A m : (\A i \in DOMAIN t : Starting(t[i]) => t[i].name # m)
               <=> (\A i \in DOMAIN s : Starting(s[i]) => s[i].name # m)
    <3> SUFFICES ASSUME NEW m
                 PROVE  (\A i \in 1..n : Starting(t[i]) => t[i].name # m)
                        <=> (\A i \in 1..n : Starting(s[i]) => s[i].name # m)
      BY <1>1
    <3>1. \A i \in 1..n : (Starting(t[i]) => t[i].name # m) <=> (Starting(s[i]) => s[i].name # m)
      <4> SUFFICES ASSUME NEW i \in 1..n
                   PROVE  (Starting(t[i]) => t[i].name # m) <=> (Starting(s[i]) => s[i].name # m)
        OBVIOUS
      <4>1. (Starting(t[i]) <=> Starting(s[i])) /\ (Starting(s[i]) => t[i].name = s[i].name)
        BY <1>2, <2>1
      <4>2. CASE Starting(s[i])
        BY <4>1, <4>2, Zenon
      <4>3. CASE ~Starting(s[i])
        BY <4>1, <4>3, Zenon
      <4> QED BY <4>2, <4>3
    <3> QED BY <3>1
  <2>3. \A m : m \in Started(t, K) <=> m \in Started(s, K)
    BY <2>2, Zenon DEF Started
  <2> QED BY <2>3, Zenon DEF Started
<1>13. Nested(t, M, q)
  BY <1>4, <1>5, <1>6, <1>7, <1>8, <1>9, <1>10, <1>11 DEF Nested
<1> QED BY <1>12, <1>13

\* A call of plugins_loadplugin or of plugins_unloadplugin.
LEMMA Called ==
    ASSUME NEW s \in Seq(Frames), NEW f \in Frames, NEW L, NEW r, NEW M, NEW q,
           NEW n \in Nat \ {0}, Len(s) = n, Nested(s, L, r),
           s[n].proc = "load" => s[n].wait,
           f.proc \in {"load", "unload"}, f.name \in Name, f.done,
           f.proc = "load" => /\ s[n].proc # "unload"
                              /\ \A i \in DOMAIN s : s[i].proc = "load" => s[i].name # f.name,
           f.proc = "unload" => s[n].proc # "load",
           Sure(Append(s, f), M, q)
    PROVE  /\ Nested(Append(s, f), M, q)
           /\ \A K : f.proc = "unload" => Started(Append(s, f), K) = Started(s, K)
           /\ \A K : f.proc = "load" => Started(Append(s, f), K) = Started(s, K) \ {f.name}
<1> DEFINE t == Append(s, f)
<1>1. /\ t \in Seq(Frames) /\ Len(t) = n + 1
      /\ \A i \in 1..n : t[i] = s[i]
      /\ t[n + 1] = f
  BY AppendProperties
<1>2. DOMAIN s = 1..n /\ DOMAIN t = 1..n + 1
  BY <1>1, LenProperties
<1> HIDE DEF t
<1>3. \A i \in 1..n + 1 : i = n + 1 \/ i \in 1..n
  BY <1>2
<1>4. \A i \in DOMAIN t : t[i].proc \in {"load", "unload"} <=> i > 1
  BY <1>1, <1>2, <1>3 DEF Nested
<1>5. \A i \in DOMAIN t : i > 1 => t[i].name \in Name
  BY <1>1, <1>2, <1>3 DEF Nested
<1>6. \A i \in DOMAIN t : t[i].proc = "tel" => t[i].ask \in Name
  BY <1>1, <1>2, <1>3 DEF Nested
<1>7. \A i \in DOMAIN t : i < Len(t) /\ t[i].proc = "load" => t[i].wait
  <2> SUFFICES ASSUME NEW i \in 1..n, t[i].proc = "load" PROVE t[i].wait
    BY <1>1, <1>2, <1>3
  <2> QED BY <1>1, <1>2 DEF Nested
<1>8. \A i, j \in DOMAIN t : i < j /\ t[i].proc = "unload" => t[j].proc = "unload"
  <2> SUFFICES ASSUME NEW i \in 1..n, NEW j \in 1..n + 1, i < j, t[i].proc = "unload"
               PROVE  t[j].proc = "unload"
    BY <1>2, <1>3
  <2>1. s[n].proc = "unload"
    <3>1. s[i].proc = "unload" /\ i \in DOMAIN s
      BY <1>1, <1>2
    <3>2. n \in DOMAIN s /\ (i < n \/ i = n)
      <4> QED BY <1>2
    <3>3. CASE i = n
      BY <3>1, <3>3
    <3>4. CASE i # n
      BY <3>1, <3>2, <3>4 DEF Nested
    <3> QED BY <3>3, <3>4
  <2>2. CASE j = n + 1
    BY <1>1, <2>1, <2>2
  <2>3. CASE j \in 1..n
    BY <1>1, <1>2, <2>3 DEF Nested
  <2> QED BY <1>3, <2>2, <2>3
<1>9. \A i \in DOMAIN t : ~t[i].done => t[i].proc = "unload" /\ t[i].ret = "dependency"
  BY <1>1, <1>2, <1>3 DEF Nested
<1>10. \A i \in DOMAIN t :
          i > 1 /\ t[i].proc = "unload" /\ t[i - 1].proc = "load" => ~t[i].done
  <2> SUFFICES ASSUME NEW i \in 1..n + 1, i > 1, t[i].proc = "unload", t[i - 1].proc = "load"
               PROVE  ~t[i].done
    BY <1>2
  <2>1. i - 1 \in 1..n /\ t[i - 1] = s[i - 1]
    BY <1>1, <1>2
  <2>2. i # n + 1
    BY <1>1, <1>2, <2>1
  <2>3. i \in 1..n /\ t[i] = s[i]
    BY <1>1, <1>3, <2>2
  <2> QED BY <1>2, <2>1, <2>3 DEF Nested
<1>11. \A i \in 1..n : Starting(s[i]) /\ f.proc = "load" => s[i].name # f.name
  <2>1. \A i \in 1..n : s[i].proc = "unload" => s[n].proc = "unload"
    BY <1>2 DEF Nested
  <2> QED BY <1>2, <2>1 DEF Nested, Starting
<1>12. Starting(f) => f.proc = "load"
  BY DEF Starting
<1>13. \A i, j \in DOMAIN t :
          Starting(t[i]) /\ Starting(t[j]) /\ t[i].name = t[j].name => i = j
  BY <1>1, <1>2, <1>3, <1>11, <1>12 DEF Nested
<1>14. ASSUME NEW K
       PROVE  Started(t, K) = IF f.proc = "load" THEN Started(s, K) \ {f.name} ELSE Started(s, K)
  <2>1. \A m : (\A i \in DOMAIN t : Starting(t[i]) => t[i].name # m)
               <=> /\ \A i \in DOMAIN s : Starting(s[i]) => s[i].name # m
                   /\ Starting(f) => f.name # m
    BY <1>1, <1>2, <1>3
  <2>2. Starting(f) <=> f.proc = "load"
    BY DEF Starting
  <2> QED BY <2>1, <2>2 DEF Started
<1>15. Nested(t, M, q)
  BY <1>4, <1>5, <1>6, <1>7, <1>8, <1>9, <1>10, <1>13 DEF Nested, t
<1> QED BY <1>14, <1>15 DEF t

\* The innermost call returns.
LEMMA Returned ==
    ASSUME NEW s \in Seq(Frames), NEW L, NEW r, NEW M, NEW q,
           Nested(s, L, r), s # <<>>, Sure(Front(s), M, q)
    PROVE  /\ Nested(Front(s), M, q)
           /\ \A K : ~Starting(s[Len(s)]) => Started(Front(s), K) = Started(s, K)
           /\ \A K : Starting(s[Len(s)]) =>
                 Started(Front(s), K) = Started(s, K) \cup (K \cap {s[Len(s)].name})
<1> DEFINE n == Len(s)
           t == Front(s)
<1>1. /\ n \in Nat \ {0} /\ t \in Seq(Frames) /\ Len(t) = n - 1
      /\ \A i \in 1..n - 1 : t[i] = s[i]
  BY FrontOf
<1>2. DOMAIN s = 1..n /\ DOMAIN t = 1..n - 1
  BY <1>1, LenProperties
<1> HIDE DEF t
<1>3. \A i \in 1..n - 1 : i \in 1..n /\ i # n
  BY <1>1
<1>4. \A i \in DOMAIN t : t[i].proc \in {"load", "unload"} <=> i > 1
  BY <1>1, <1>2, <1>3 DEF Nested
<1>5. \A i \in DOMAIN t : i > 1 => t[i].name \in Name
  BY <1>1, <1>2, <1>3 DEF Nested
<1>6. \A i \in DOMAIN t : t[i].proc = "tel" => t[i].ask \in Name
  BY <1>1, <1>2, <1>3 DEF Nested
<1>7. \A i \in DOMAIN t : i < Len(t) /\ t[i].proc = "load" => t[i].wait
  <2> SUFFICES ASSUME NEW i \in 1..n - 1, t[i].proc = "load" PROVE t[i].wait
    BY <1>2
  <2>1. i \in 1..n /\ i < n /\ s[i] = t[i]
    BY <1>1
  <2> QED BY <1>2, <2>1 DEF Nested
<1>8. \A i, j \in DOMAIN t : i < j /\ t[i].proc = "unload" => t[j].proc = "unload"
  BY <1>1, <1>2, <1>3 DEF Nested
<1>9. \A i \in DOMAIN t : ~t[i].done => t[i].proc = "unload" /\ t[i].ret = "dependency"
  BY <1>1, <1>2, <1>3 DEF Nested
<1>10. \A i \in DOMAIN t :
          i > 1 /\ t[i].proc = "unload" /\ t[i - 1].proc = "load" => ~t[i].done
  <2> SUFFICES ASSUME NEW i \in 1..n - 1, i > 1, t[i].proc = "unload", t[i - 1].proc = "load"
               PROVE  ~t[i].done
    BY <1>2
  <2>1. i - 1 \in 1..n - 1 /\ t[i - 1] = s[i - 1] /\ t[i] = s[i]
    BY <1>1
  <2> QED BY <1>2, <1>3, <2>1 DEF Nested
<1>11. \A i, j \in DOMAIN t :
          Starting(t[i]) /\ Starting(t[j]) /\ t[i].name = t[j].name => i = j
  BY <1>1, <1>2, <1>3 DEF Nested
<1>12. \A i \in 1..n : i \in 1..n - 1 \/ i = n
  BY <1>1
<1>13. \A m : (\A i \in DOMAIN s : Starting(s[i]) => s[i].name # m)
              <=> /\ \A i \in DOMAIN t : Starting(t[i]) => t[i].name # m
                  /\ Starting(s[n]) => s[n].name # m
  <2>1. n \in DOMAIN s
    BY <1>1, <1>2
  <2> QED BY <1>1, <1>2, <1>3, <1>12, <2>1
<1>14. Starting(s[n]) => \A i \in DOMAIN t : Starting(t[i]) => t[i].name # s[n].name
  <2>1. n \in DOMAIN s
    BY <1>1, <1>2
  <2> QED BY <1>1, <1>2, <1>3, <2>1 DEF Nested
<1>15. ASSUME NEW K
       PROVE  /\ ~Starting(s[n]) => Started(t, K) = Started(s, K)
              /\ Starting(s[n]) => Started(t, K) = Started(s, K) \cup (K \cap {s[n].name})
  BY <1>13, <1>14 DEF Started
<1>16. Nested(t, M, q)
  BY <1>4, <1>5, <1>6, <1>7, <1>8, <1>9, <1>10, <1>11 DEF Nested, t
<1> QED BY <1>15, <1>16 DEF t

\* A load whose dependency has failed becomes an unload without PluginDone.
LEMMA GivenUp ==
    ASSUME NEW s \in Seq(Frames), NEW t \in Seq(Frames), NEW L, NEW r, NEW M, NEW q,
           NEW n \in Nat \ {0}, Len(s) = n, Len(t) = n, Nested(s, L, r),
           \A i \in 1..n - 1 : t[i] = s[i],
           s[n].proc = "load", t[n].proc = "unload", t[n].name = s[n].name,
           ~t[n].done, t[n].ret = "dependency"
    PROVE  Nested(t, M, q) /\ \A K : Started(t, K) = Started(s, K)
<1>1. DOMAIN s = 1..n /\ DOMAIN t = 1..n
  BY LenProperties
<1>2. ASSUME NEW i \in 1..n
      PROVE  /\ t[i].name = s[i].name
             /\ i < n => t[i] = s[i]
             /\ Starting(t[i]) <=> Starting(s[i])
  <2>1. CASE i = n
    BY <1>1, <2>1 DEF Starting
  <2>2. CASE i # n
    <3>1. i \in 1..n - 1
      BY <1>1, <2>2
    <3>2. t[i] = s[i]
      BY <1>1, <3>1
    <3> QED BY <2>2, <3>2
  <2> QED BY <2>1, <2>2
<1>3. \A i \in 1..n : (i < n /\ t[i] = s[i]) \/ i = n
  BY <1>1, <1>2
<1>4. \A i \in DOMAIN t : t[i].proc \in {"load", "unload"} <=> i > 1
  BY <1>1, <1>2, <1>3 DEF Nested
<1>5. \A i \in DOMAIN t : i > 1 => t[i].name \in Name
  BY <1>1, <1>2 DEF Nested
<1>6. \A i \in DOMAIN t : t[i].proc = "tel" => t[i].ask \in Name
  BY <1>1, <1>2, <1>3 DEF Nested
<1>7. \A i \in DOMAIN t : i < Len(t) /\ t[i].proc = "load" => t[i].wait
  BY <1>1, <1>2 DEF Nested
<1>8. \A i, j \in DOMAIN t : i < j /\ t[i].proc = "unload" => t[j].proc = "unload"
  <2> SUFFICES ASSUME NEW i \in 1..n, NEW j \in 1..n, i < j, t[i].proc = "unload"
               PROVE  t[j].proc = "unload"
    BY <1>1
  <2>1. i < n /\ t[i] = s[i]
    BY <1>1, <1>3
  <2>2. n \in DOMAIN s /\ i \in DOMAIN s
    BY <1>1
  <2>3. s[n].proc = "unload"
    BY <2>1, <2>2 DEF Nested
  <2> QED BY <2>3
<1>9. \A i \in DOMAIN t : ~t[i].done => t[i].proc = "unload" /\ t[i].ret = "dependency"
  BY <1>1, <1>2, <1>3 DEF Nested
<1>10. \A i \in DOMAIN t :
          i > 1 /\ t[i].proc = "unload" /\ t[i - 1].proc = "load" => ~t[i].done
  <2> SUFFICES ASSUME NEW i \in 1..n, i > 1, t[i].proc = "unload", t[i - 1].proc = "load"
               PROVE  ~t[i].done
    BY <1>1
  <2>1. i - 1 \in 1..n /\ i - 1 < n
    BY <1>1
  <2> QED BY <1>1, <1>2, <1>3, <2>1 DEF Nested
<1>11. \A i, j \in DOMAIN t :
          Starting(t[i]) /\ Starting(t[j]) /\ t[i].name = t[j].name => i = j
  BY <1>1, <1>2 DEF Nested
<1>12. ASSUME NEW K PROVE Started(t, K) = Started(s, K)
  BY <1>1, <1>2 DEF Started
<1>13. Sure(t, M, q)
  BY <1>1 DEF Sure
<1>14. Nested(t, M, q)
  BY <1>4, <1>5, <1>6, <1>7, <1>8, <1>9, <1>10, <1>11, <1>13 DEF Nested
<1> QED BY <1>12, <1>14

\* The first call of a stack: main's or an event's.
LEMMA First ==
    ASSUME NEW f \in Frames, f.proc \in {"dir", "close", "tel", "irc"}, f.done,
           f.proc = "tel" => f.ask \in Name, NEW L, NEW r
    PROVE  /\ <<f>> \in Seq(Frames) /\ Len(<<f>>) = 1
           /\ Nested(<<f>>, L, r) /\ Nested(<<>>, L, r)
           /\ Started(<<f>>, L) = L /\ Started(<<>>, L) = L
<1> DEFINE t == <<f>>
<1>1. t \in Seq(Frames) /\ Len(t) = 1 /\ DOMAIN t = {1} /\ t[1] = f
  OBVIOUS
<1>2. DOMAIN <<>> = {} /\ Len(<<>>) = 0
  BY EmptySeq
<1> HIDE DEF t
<1>3. Nested(t, L, r)
  BY <1>1 DEF Nested, Sure, Starting
<1>4. Nested(<<>>, L, r)
  BY <1>2 DEF Nested, Sure
<1>5. Started(t, L) = L
  BY <1>1 DEF Started, Starting
<1>6. Started(<<>>, L) = L
  BY <1>2 DEF Started
<1> QED BY <1>1, <1>3, <1>4, <1>5, <1>6 DEF t

-----------------------------------------------------------------------------
(* What the plugins register.                                              *)

\* A name that is added to those that have registered.
LEMMA Registers ==
    ASSUME NEW q \in Seq(Name), NEW n \in Name, NEW R, NEW A, Enrolled(q, R, A), n \notin A,
           NEW p, n \in R => p = <<n>> \o q \/ p = Append(q, n), n \notin R => p = q
    PROVE  Enrolled(p, R, A \cup {n})
<1>1. Len(q) \in Nat /\ DOMAIN q = 1..Len(q)
  BY LenProperties
<1>2. n \notin Range(q)
  BY DEF Enrolled
<1>3. CASE n \notin R
  BY <1>3 DEF Enrolled
<1>4. CASE n \in R
  <2>1. PICK k : (p = <<n>> \o q /\ k = 1) \/ (p = Append(q, n) /\ k = Len(q) + 1)
    BY <1>4
  <2>2. /\ p \in Seq(Name) /\ Len(p) = Len(q) + 1 /\ p[k] = n /\ k \in 1..Len(q) + 1
        /\ \A i \in 1..Len(q) : p[IF i < k THEN i ELSE i + 1] = q[i]
    <3>1. CASE p = Append(q, n) /\ k = Len(q) + 1
      <4>1. /\ p \in Seq(Name) /\ Len(p) = Len(q) + 1
            /\ \A i \in 1..Len(q) : p[i] = q[i]
            /\ p[Len(q) + 1] = n
        BY <3>1, AppendProperties
      <4>0. Len(q) \in Nat /\ k = Len(q) + 1
        BY <1>1, <3>1
      <4>2. \A i \in 1..Len(q) : (IF i < k THEN i ELSE i + 1) = i
        BY ONLY <4>0
      <4>3. k \in 1..Len(q) + 1
        BY ONLY <4>0
      <4>4. p[k] = n
        BY <4>0, <4>1
      <4> QED BY <4>1, <4>2, <4>3, <4>4
    <3>2. CASE p = <<n>> \o q /\ k = 1
      <4>1. <<n>> \in Seq(Name) /\ Len(<<n>>) = 1 /\ <<n>>[1] = n
        OBVIOUS
      <4>2. /\ p \in Seq(Name) /\ Len(p) = 1 + Len(q)
            /\ \A i \in 1..1 + Len(q) : p[i] = IF i <= 1 THEN <<n>>[i] ELSE q[i - 1]
        BY <3>2, <4>1, ConcatProperties
      <4>3. p[1] = n
        BY <1>1, <4>1, <4>2
      <4>4. \A i \in 1..Len(q) : p[i + 1] = q[i]
        <5> SUFFICES ASSUME NEW i \in 1..Len(q) PROVE p[i + 1] = q[i]
          OBVIOUS
        <5>0. Len(q) \in Nat /\ i \in 1..Len(q)
          BY <1>1
        <5>1. i + 1 \in 1..1 + Len(q) /\ ~(i + 1 <= 1) /\ i + 1 - 1 = i
          BY ONLY <5>0
        <5> QED BY <4>2, <5>1
      <4>0. Len(q) \in Nat /\ k = 1
        BY <1>1, <3>2
      <4>5. \A i \in 1..Len(q) : (IF i < k THEN i ELSE i + 1) = i + 1
        BY ONLY <4>0
      <4>6. k \in 1..Len(q) + 1 /\ 1 + Len(q) = Len(q) + 1
        BY ONLY <4>0
      <4>7. Len(p) = Len(q) + 1 /\ p[k] = n
        BY <4>0, <4>2, <4>3, <4>6
      <4> QED BY <4>2, <4>4, <4>5, <4>6, <4>7
    <3> QED BY <2>1, <3>1, <3>2
  <2> DEFINE to(i) == IF i < k THEN i ELSE i + 1
             from(j) == IF j < k THEN j ELSE j - 1
  <2>3. DOMAIN p = 1..Len(q) + 1
    BY <2>2, LenProperties
  <2>4. /\ \A i \in DOMAIN q : to(i) \in DOMAIN p /\ to(i) # k /\ p[to(i)] = q[i] /\ from(to(i)) = i
        /\ \A j \in DOMAIN p : j # k => from(j) \in DOMAIN q /\ to(from(j)) = j
    BY <1>1, <2>2, <2>3
  <2> HIDE DEF to, from
  <2>5. ASSUME NEW m \in Name, m # n
        PROVE  (Once(q, m) => Once(p, m)) /\ (m \notin Range(q) => m \notin Range(p))
    <3>1. \A j \in DOMAIN p : p[j] = m => j # k /\ q[from(j)] = m /\ from(j) \in DOMAIN q
      BY <2>2, <2>4, <2>5
    <3>2. ASSUME Once(q, m) PROVE Once(p, m)
      <4>1. PICK i \in DOMAIN q : \A j \in DOMAIN q : q[j] = m <=> j = i
        BY <3>2 DEF Once
      <4>2. to(i) \in DOMAIN p /\ p[to(i)] = m
        BY <2>4, <4>1
      <4>3. \A j \in DOMAIN p : p[j] = m => j = to(i)
        BY <2>4, <3>1, <4>1
      <4> QED BY <4>2, <4>3 DEF Once
    <3>3. m \notin Range(q) => m \notin Range(p)
      BY <3>1 DEF Range
    <3> QED BY <3>2, <3>3
  <2>6. Once(p, n)
    <3>1. \A j \in DOMAIN p : j # k => p[j] # n
      <4> SUFFICES ASSUME NEW j \in DOMAIN p, j # k PROVE p[j] # n
        OBVIOUS
      <4>1. from(j) \in DOMAIN q /\ p[j] = q[from(j)]
        BY <2>4
      <4> QED BY <1>2, <4>1 DEF Range
    <3>2. k \in DOMAIN p /\ p[k] = n
      BY <2>2, <2>3
    <3> QED BY <3>1, <3>2 DEF Once
  <2> QED BY <1>4, <2>2, <2>5, <2>6 DEF Enrolled
<1> QED BY <1>3, <1>4

\* A name that is taken from those that have registered, if it has.
LEMMA Resigns ==
    ASSUME NEW q \in Seq(Name), NEW n \in Name, NEW R, NEW A, Enrolled(q, R, A)
    PROVE  Others(q, n) \in Seq(Name) /\ Enrolled(Others(q, n), R, A \ {n})
<1>1. Len(q) \in Nat /\ DOMAIN q = 1..Len(q)
  BY LenProperties
<1>2. CASE n \notin Range(q)
  <2>1. Others(q, n) = q
    BY <1>1, <1>2 DEF Others, RemoveFirst, Range
  <2> QED BY <1>2, <2>1 DEF Enrolled
<1>3. CASE n \in Range(q)
  <2>1. Once(q, n)
    BY <1>3 DEF Enrolled
  <2> DEFINE I == {i \in 1..Len(q) : q[i] = n}
  <2>2. I \in SUBSET Nat /\ I # {}
    BY <1>1, <1>3 DEF Range
  <2>3. \E i \in I : \A j \in I : i <= j
    <3> HIDE DEF I
    <3> QED BY <2>2, LeastPosition
  <2>4. PICK k : k = Min(I)
    OBVIOUS
  <2>5. k \in I
    BY <2>3, <2>4 DEF Min
  <2>6. Others(q, n) = RemoveAt(q, k)
    BY <2>2, <2>4 DEF Others, RemoveFirst, SelectInSeq
  <2>7. k \in 1..Len(q) /\ q[k] = n
    BY <2>5
  <2> DEFINE p == RemoveAt(q, k)
  <2>8. PICK from : from = Origin(q, k)
    OBVIOUS
  <2>9. /\ p \in Seq(Name)
        /\ \A i \in DOMAIN p : from[i] \in DOMAIN q /\ from[i] # k /\ p[i] = q[from[i]]
        /\ \A i, j \in DOMAIN p : from[i] = from[j] => i = j
        /\ \A m \in DOMAIN q : m # k => \E i \in DOMAIN p : from[i] = m
    BY <2>7, <2>8, RemoveAtOrigin
  <2> HIDE DEF I, p
  <2>10. n \notin Range(p)
    BY <1>1, <2>1, <2>7, <2>9 DEF Once, Range
  <2>11. ASSUME NEW m \in Name, m # n
         PROVE  (Once(q, m) => Once(p, m)) /\ (m \notin Range(q) => m \notin Range(p))
    <3>1. ASSUME Once(q, m) PROVE Once(p, m)
      <4>1. PICK i \in DOMAIN q : \A j \in DOMAIN q : q[j] = m <=> j = i
        BY <3>1 DEF Once
      <4>2. i # k
        BY <2>7, <2>11, <4>1
      <4>3. PICK h \in DOMAIN p : from[h] = i
        BY <2>9, <4>2
      <4>4. \A j \in DOMAIN p : p[j] = m <=> j = h
        BY <2>9, <4>1, <4>3
      <4> QED BY <4>4 DEF Once
    <3>2. m \notin Range(q) => m \notin Range(p)
      BY <2>9 DEF Range
    <3> QED BY <3>1, <3>2
  <2>12. Enrolled(p, R, A \ {n})
    BY <2>9, <2>10, <2>11 DEF Enrolled
  <2> QED BY <2>6, <2>9, <2>12 DEF p
<1> QED BY <1>2, <1>3

-----------------------------------------------------------------------------
(* Every step keeps the invariant.                                         *)

\* The innermost call.
LEMMA Innermost ==
    ASSUME IInv, mode # "crashed", stack # <<>>
    PROVE  /\ Len(stack) \in Nat \ {0} /\ DOMAIN stack = 1..Len(stack)
           /\ Top = stack[Len(stack)] /\ Top \in Frames
           /\ mode \in {"starting", "running", "closing"}
           /\ Nested(stack, Loaded, result)
           /\ Enlisted(chains, timerOwners, Started(stack, Loaded))
           /\ stack \in Seq(Frames) /\ Len(stack) <= MaxDepth
<1>1. /\ stack \in Seq(Frames) /\ Len(stack) <= MaxDepth
      /\ mode \in {"starting", "running", "closing"}
      /\ Nested(stack, Loaded, result)
      /\ Enlisted(chains, timerOwners, Started(stack, Loaded))
  BY DEF IInv, Typed, Kept
<1>2. Len(stack) \in Nat /\ Len(stack) # 0 /\ stack[Len(stack)] \in Frames
  BY <1>1, FrontOf
<1>3. DOMAIN stack = 1..Len(stack)
  BY <1>1, LenProperties
<1> QED BY <1>1, <1>2, <1>3 DEF Top

\* An undefined step ends the behaviour.
LEMMA CrashKeeps == IInv /\ Crash => IInv'
BY DEF IInv, Typed, Kept, Crash, Loaded

\* Only the calls under way change.
LEMMA CallsKeep ==
    ASSUME IInv, mode # "crashed", NEW t \in Seq(Frames), Len(t) <= MaxDepth,
           Nested(t, Loaded, result'), Started(t, Loaded) = Started(stack, Loaded),
           mode \notin {"closed", "ended"}, mode' = mode, stack' = t,
           UNCHANGED <<list, chains, timerOwners>>
    PROVE  IInv'
<1>1. Loaded' = Loaded
  BY DEF Loaded
<1>2. Typed'
  BY DEF IInv, Typed
<1>3. Enlisted(chains, timerOwners, Started(stack, Loaded))
  BY DEF IInv, Kept, Typed
<1>4. Enlisted(chains', timerOwners', Started(stack', Loaded'))
  BY <1>1, <1>3
<1>5. Kept'
  BY <1>1, <1>4 DEF Kept
<1> QED BY <1>2, <1>5 DEF IInv

\* The calls change at the top, and the innermost one stays what it was.
LEMMA TopKeeps ==
    ASSUME IInv, mode # "crashed", stack # <<>>, NEW f \in Frames,
           f.proc = Top.proc, f.done = Top.done, f.ret = Top.ret, f.ask = Top.ask,
           Len(stack) > 1 => f.name = Top.name, NEW M, NEW q,
           f.proc = "load" /\ (f.wait => q = "ok") =>
               \A i \in DOMAIN stack : stack[i].proc = "load" => stack[i].name \in M
    PROVE  /\ Under(f) \in Seq(Frames) /\ Len(Under(f)) = Len(stack)
           /\ \A i \in 1..Len(stack) - 1 : Under(f)[i] = stack[i]
           /\ Under(f)[Len(stack)] = f
           /\ Nested(Under(f), M, q)
           /\ \A K : Started(Under(f), K) = Started(stack, K)
<1> DEFINE t == Under(f)
<1>1. PICK n \in Nat \ {0} : n = Len(stack)
  BY Innermost
<1>2. /\ stack \in Seq(Frames) /\ Nested(stack, Loaded, result)
      /\ DOMAIN stack = 1..n /\ Top = stack[n]
  BY <1>1, Innermost
<1>3. /\ t \in Seq(Frames) /\ Len(t) = n /\ t[n] = f
      /\ \A i \in 1..n - 1 : t[i] = stack[i]
  BY <1>1, <1>2, Relaid DEF Under
<1>4. DOMAIN t = 1..n
  BY <1>3, LenProperties
<1> HIDE DEF t
<1>5. \A i \in 1..n : t[i].proc = stack[i].proc /\ (i > 1 => t[i].name = stack[i].name)
  <2> SUFFICES ASSUME NEW i \in 1..n
               PROVE  t[i].proc = stack[i].proc /\ (i > 1 => t[i].name = stack[i].name)
    OBVIOUS
  <2>1. CASE i = n
    BY <1>1, <1>2, <1>3, <2>1
  <2>2. CASE i # n
    <3>1. i \in 1..n - 1
      BY <1>1, <2>2
    <3> QED BY <1>3, <3>1
  <2> QED BY <2>1, <2>2
<1>6. Sure(t, M, q)
  <2>1. \A i \in 1..n : stack[i].proc = "load" => i > 1
    BY <1>2 DEF Nested
  <2>2. \A i \in 1..n : t[i].proc = "load" => stack[i].proc = "load" /\ t[i].name = stack[i].name
    BY <1>5, <2>1
  <2> QED BY <1>2, <1>3, <1>4, <2>2 DEF Sure
<1>7. Nested(t, M, q) /\ \A K : Started(t, K) = Started(stack, K)
  BY <1>1, <1>2, <1>3, <1>6, GoesOn
<1> QED BY <1>1, <1>3, <1>7 DEF t

\* Where the list is, plugins are found under names.
LEMMA Found ==
    ASSUME NEW n
    PROVE  /\ File(n) # 0 => File(n) \in DOMAIN Dir /\ Dir[File(n)] \in Name
           /\ IInv /\ Matching(n) # 0 => Walk[Matching(n)] \in Loaded /\ Walk[Matching(n)] \in Name
<1>1. ASSUME NEW s, Len(s) \in Nat, NEW P, P = {i \in 1..Len(s) : s[i] \in StartsWith[n]}
      PROVE  P # {} => Min(P) \in 1..Len(s)
  <2> SUFFICES ASSUME P # {} PROVE Min(P) \in P
    BY <1>1
  <2>1. \E i \in P : \A j \in P : i <= j
    <3>1. P \in SUBSET Nat
      BY <1>1
    <3> QED BY <3>1, LeastPosition
  <2> QED BY <2>1 DEF Min
<1>2. Dir \in Seq(Name) /\ Len(Dir) \in Nat /\ DOMAIN Dir = 1..Len(Dir)
  BY PluginsAssumption, LenProperties DEF PluginsAssumption
<1>3. ASSUME File(n) # 0 PROVE File(n) \in DOMAIN Dir /\ Dir[File(n)] \in Name
  <2>1. PICK P : P = {i \in 1..Len(Dir) : Dir[i] \in StartsWith[n]}
    OBVIOUS
  <2>2. File(n) = IF P # {} THEN Min(P) ELSE 0
    BY <2>1 DEF File, SelectInSeq
  <2>3. File(n) \in 1..Len(Dir)
    BY <1>1, <1>2, <1>3, <2>1, <2>2
  <2> QED BY <1>2, <2>3, ElementOfSeq
<1>4. ASSUME IInv, Matching(n) # 0
      PROVE  Walk[Matching(n)] \in Loaded /\ Walk[Matching(n)] \in Name
  <2>1. PICK o \in Seq(Name) : Linked(list, o)
    BY <1>4 DEF IInv, Typed
  <2>2. /\ Walk = o /\ Len(o) \in Nat
        /\ \A i \in 1..Len(o) : o[i] \in Name /\ o[i] \in Loaded
    BY <2>1, WalkIs, LinkedFacts DEF Loaded
  <2>3. PICK P : P = {i \in 1..Len(Walk) : Walk[i] \in StartsWith[n]}
    OBVIOUS
  <2>4. Matching(n) = IF P # {} THEN Min(P) ELSE 0
    BY <2>3 DEF Matching, SelectInSeq
  <2>5. Matching(n) \in 1..Len(o)
    BY <1>1, <1>4, <2>2, <2>3, <2>4
  <2> QED BY <2>2, <2>5
<1> QED BY <1>3, <1>4

\* A call of plugins_loadplugin from the innermost call, which becomes f.
LEMMA LoadPluginKeeps ==
    ASSUME IInv, mode # "crashed", stack # <<>>, NEW n \in Name, NEW f \in Frames,
           f.proc = Top.proc, f.done = Top.done, f.ret = Top.ret, f.ask = Top.ask,
           Len(stack) > 1 => f.name = Top.name,
           f.proc = "load" => f.wait, f.proc # "unload",
           \A i \in DOMAIN stack : stack[i].proc = "load" => stack[i].name \in Loaded,
           LoadPlugin(n, f)
    PROVE  IInv'
<1> DEFINE t == Under(f)
<1>0. /\ Len(stack) \in Nat \ {0} /\ Len(stack) <= MaxDepth
      /\ mode \in {"starting", "running", "closing"}
      /\ Enlisted(chains, timerOwners, Started(stack, Loaded))
      /\ MaxDepth \in Nat
  BY Innermost, PluginsAssumption DEF PluginsAssumption
<1>1. PICK o \in Seq(Name) : Linked(list, o)
  BY DEF IInv, Typed
<1>2. ASSUME NEW M, NEW q, q # "ok"
      PROVE  /\ t \in Seq(Frames) /\ Len(t) = Len(stack) /\ t[Len(stack)] = f
             /\ \A i \in 1..Len(stack) - 1 : t[i] = stack[i]
             /\ Nested(t, M, q) /\ \A K : Started(t, K) = Started(stack, K)
  BY <1>2, TopKeeps
<1> HIDE DEF t
<1>3. CASE n \in Loaded
  <2>1. result' = "already loaded" /\ stack' = t /\ UNCHANGED <<list, chains, timerOwners, mode>>
    BY <1>3 DEF LoadPlugin, t
  <2>2. result' # "ok"
    BY <2>1
  <2>3. Nested(t, Loaded, result') /\ Started(t, Loaded) = Started(stack, Loaded)
    BY <1>2, <2>2
  <2> QED BY <1>0, <1>2, <2>1, <2>2, <2>3, CallsKeep
<1>4. CASE n \notin Loaded /\ n \in Broken /\ list.last # NoName
  <2>1. /\ list' = Dropped(Appended(list, n), n)
        /\ result' = "dl error" /\ stack' = t
        /\ UNCHANGED <<chains, timerOwners, mode>>
    BY <1>4 DEF LoadPlugin, t
  <2>2. Linked(list', o)
    BY <1>1, <1>4, <2>1, DroppedLinked DEF Loaded
  <2>3. Loaded' = Loaded
    BY <1>1, <2>2 DEF Loaded, Linked
  <2>4. result' # "ok"
    BY <2>1
  <2>5. /\ t \in Seq(Frames) /\ Len(t) = Len(stack)
        /\ Nested(t, Loaded, result') /\ Started(t, Loaded) = Started(stack, Loaded)
    BY <1>2, <2>4
  <2>6. Typed'
    BY <1>0, <2>1, <2>2, <2>5 DEF IInv, Typed
  <2>7. Enlisted(chains', timerOwners', Started(stack', Loaded'))
    BY <1>0, <2>1, <2>3, <2>5
  <2>8. Kept'
    BY <1>0, <2>1, <2>3, <2>5, <2>7 DEF Kept
  <2> QED BY <2>6, <2>8 DEF IInv
<1>5. CASE n \notin Loaded /\ (n \in Invalid \ Broken \/ (n \in Broken /\ list.last = NoName))
  BY <1>5, CrashKeeps DEF LoadPlugin
<1>6. CASE n \notin Loaded \cup Broken \cup Invalid
  <2> DEFINE g == Frame("load", n)
             u == Append(t, g)
  <2>1. /\ list' = Appended(list, n)
        /\ IF Len(stack) = MaxDepth THEN mode' = "crashed" /\ UNCHANGED stack
           ELSE stack' = u /\ UNCHANGED mode
        /\ UNCHANGED <<chains, timerOwners, result>>
    BY <1>6 DEF LoadPlugin, t
  <2>2. Linked(list', Append(o, n))
    BY <1>1, <1>6, <2>1, AppendedLinked DEF Loaded
  <2>3. Append(o, n) \in Seq(Name)
    BY <2>2 DEF Linked
  <2>4. Loaded' = Loaded \cup {n}
    BY <2>1 DEF Loaded, Appended
  <2>5. CASE Len(stack) = MaxDepth
    BY <2>1, <2>2, <2>3, <2>5 DEF IInv, Typed, Kept
  <2>6. CASE Len(stack) # MaxDepth
    <3>1. /\ t \in Seq(Frames) /\ Len(t) = Len(stack) /\ t[Len(stack)] = f
          /\ \A i \in 1..Len(stack) - 1 : t[i] = stack[i]
          /\ Nested(t, Loaded, "dependency") /\ \A K : Started(t, K) = Started(stack, K)
      BY <1>2
    <3>2. g \in Frames /\ g.proc = "load" /\ g.name = n /\ g.done /\ ~g.wait
      BY DEF Frames, Frame
    <3>3. PICK k \in Nat \ {0} : k = Len(stack)
      BY <1>0
    <3>4. /\ u \in Seq(Frames) /\ Len(u) = k + 1 /\ u[k + 1] = g
          /\ \A i \in 1..k : u[i] = t[i]
      BY <3>1, <3>2, <3>3, AppendProperties
    <3>5. DOMAIN t = 1..k /\ DOMAIN stack = 1..k /\ Top = stack[k]
      BY <3>1, <3>3, LenProperties, Innermost
    <3> HIDE DEF g, u
    <3>6. \A i \in 1..k : t[i].proc = "load" => t[i].name \in Loaded
      <4> SUFFICES ASSUME NEW i \in 1..k, t[i].proc = "load" PROVE t[i].name \in Loaded
        OBVIOUS
      <4>1. i > 1
        BY <3>1, <3>5 DEF Nested
      <4>2. stack[i].proc = "load" /\ stack[i].name = t[i].name
        <5>1. CASE i = k
          BY <3>1, <3>3, <3>5, <4>1, <5>1
        <5>2. CASE i # k
          <6>1. i \in 1..k - 1
            BY <5>2
          <6> QED BY <3>1, <3>3, <6>1
        <5> QED BY <5>1, <5>2
      <4> QED BY <3>5, <4>2
    <3>7. \A i \in DOMAIN t : t[i].proc = "load" => t[i].name # n
      BY <1>6, <3>5, <3>6
    <3>8. Sure(u, Loaded', result')
      <4>1. DOMAIN u = 1..k + 1
        BY <3>4, LenProperties
      <4>2. \A i \in 1..k + 1 : i \in 1..k \/ i = k + 1
        BY <3>3
      <4> QED BY <2>4, <3>2, <3>4, <3>6, <4>1, <4>2 DEF Sure
    <3>9. /\ Nested(u, Loaded', result')
          /\ \A K : Started(u, K) = Started(t, K) \ {n}
      <4>1. t[k].proc = "load" => t[k].wait
        BY <3>1, <3>3
      <4>2. t[k].proc # "unload"
        BY <3>1, <3>3
      <4>3. PICK M : M = Loaded'
        OBVIOUS
      <4>4. PICK q : q = result'
        OBVIOUS
      <4>5. Sure(u, M, q)
        BY <3>8, <4>3, <4>4
      <4>6. /\ Nested(u, M, q)
            /\ \A K : Started(u, K) = Started(t, K) \ {n}
        BY <3>1, <3>2, <3>3, <3>7, <4>1, <4>2, <4>5, Called DEF u
      <4> QED BY <4>3, <4>4, <4>6
    <3>10. Started(u, Loaded') = Started(stack, Loaded)
      <4>1. Started(u, Loaded') = Started(stack, Loaded \cup {n}) \ {n}
        BY <2>4, <3>1, <3>9
      <4>2. Started(stack, Loaded \cup {n}) \ {n} = Started(stack, Loaded)
        BY <1>6 DEF Started
      <4> QED BY <4>1, <4>2
    <3>11. Len(u) <= MaxDepth
      <4>1. k \in Nat /\ MaxDepth \in Nat /\ k <= MaxDepth /\ k # MaxDepth
        BY <1>0, <2>6, <3>3
      <4>2. k + 1 <= MaxDepth
        BY ONLY <4>1
      <4> QED BY <3>4, <4>2
    <3>12. stack' = u /\ mode' = mode
      BY <2>1, <2>6
    <3>13. Typed'
      BY <1>0, <2>1, <2>2, <2>3, <3>4, <3>11, <3>12 DEF IInv, Typed
    <3>14. Enlisted(chains', timerOwners', Started(stack', Loaded'))
      BY <1>0, <2>1, <3>10, <3>12
    <3>15. Kept'
      BY <1>0, <3>9, <3>12, <3>14 DEF Kept
    <3> QED BY <3>13, <3>15 DEF IInv
  <2> QED BY <2>5, <2>6
<1> QED BY <1>3, <1>4, <1>5, <1>6

\* A call of plugins_load.
LEMMA LoadKeeps ==
    ASSUME IInv, mode # "crashed", stack # <<>>, NEW n \in Name, NEW f \in Frames,
           f.proc = Top.proc, f.done = Top.done, f.ret = Top.ret, f.ask = Top.ask,
           Len(stack) > 1 => f.name = Top.name,
           f.proc = "load" => f.wait, f.proc # "unload",
           \A i \in DOMAIN stack : stack[i].proc = "load" => stack[i].name \in Loaded,
           Load(n, f)
    PROVE  IInv'
<1>1. CASE File(n) = 0
  <2>1. /\ result' = "file not found" /\ stack' = Under(f)
        /\ UNCHANGED <<list, chains, timerOwners, mode>>
    BY <1>1 DEF Load
  <2>2. PICK q : q = result'
    OBVIOUS
  <2>3. q # "ok"
    BY <2>1, <2>2
  <2>4. /\ Under(f) \in Seq(Frames) /\ Len(Under(f)) = Len(stack)
        /\ Nested(Under(f), Loaded, q) /\ Started(Under(f), Loaded) = Started(stack, Loaded)
    BY <2>3, TopKeeps
  <2>5. PICK t : t = Under(f)
    OBVIOUS
  <2> QED BY <2>1, <2>2, <2>4, <2>5, Innermost, CallsKeep
<1>2. CASE File(n) # 0
  <2>1. PICK m : m = Dir[File(n)]
    OBVIOUS
  <2>2. m \in Name
    BY <1>2, <2>1, Found
  <2>3. LoadPlugin(m, f)
    BY <1>2, <2>1 DEF Load
  <2> QED BY <2>2, <2>3, LoadPluginKeeps
<1> QED BY <1>1, <1>2

\* A call of plugins_unload.
LEMMA UnloadKeeps ==
    ASSUME IInv, mode # "crashed", stack # <<>>, NEW n, NEW f \in Frames,
           f.proc = Top.proc, f.done = Top.done, f.ret = Top.ret, f.ask = Top.ask,
           Len(stack) > 1 => f.name = Top.name, f.proc # "load",
           Unload(n, f)
    PROVE  IInv'
<1> DEFINE t == Under(f)
<1>0. /\ Len(stack) \in Nat \ {0} /\ Len(stack) <= MaxDepth
      /\ mode \in {"starting", "running", "closing"}
      /\ MaxDepth \in Nat
  BY Innermost, PluginsAssumption DEF PluginsAssumption
<1>1. UNCHANGED <<list, chains, timerOwners, result>>
  BY DEF Unload
<1>2. /\ t \in Seq(Frames) /\ Len(t) = Len(stack) /\ t[Len(stack)] = f
      /\ Nested(t, Loaded, result) /\ \A K : Started(t, K) = Started(stack, K)
  BY TopKeeps
<1>3. CASE Matching(n) = 0
  <2>1. stack' = t /\ mode' = mode
    BY <1>3 DEF Unload
  <2> HIDE DEF t
  <2>2. Nested(t, Loaded, result')
    BY <1>1, <1>2
  <2> QED BY <1>0, <1>1, <1>2, <2>1, <2>2, CallsKeep
<1>4. CASE Matching(n) # 0 /\ Len(stack) = MaxDepth
  <2>1. Crash
    BY <1>1, <1>4 DEF Unload, Crash
  <2> QED BY <2>1, CrashKeeps
<1>5. CASE Matching(n) # 0 /\ Len(stack) # MaxDepth
  <2>1. PICK m : m = Walk[Matching(n)]
    OBVIOUS
  <2>2. m \in Name
    BY <1>5, <2>1, Found
  <2> DEFINE g == Frame("unload", m)
             u == Append(t, g)
  <2>3. stack' = u /\ mode' = mode
    BY <1>5, <2>1 DEF Unload
  <2>4. g \in Frames /\ g.proc = "unload" /\ g.name = m /\ g.done
    BY <2>2 DEF Frames, Frame
  <2>5. PICK k \in Nat \ {0} : k = Len(stack)
    BY <1>0
  <2> HIDE DEF g, t
  <2>6. /\ u \in Seq(Frames) /\ Len(u) = k + 1 /\ u[k + 1] = g
    BY <1>2, <2>4, <2>5, AppendProperties
  <2> HIDE DEF u
  <2>7. Sure(u, Loaded, result)
    BY <2>4, <2>6 DEF Sure
  <2>8. t[k].proc # "load" /\ Len(t) = k
    BY <1>2, <2>5
  <2>9. /\ Nested(u, Loaded, result)
        /\ \A K : Started(u, K) = Started(t, K)
    BY <1>2, <2>2, <2>4, <2>7, <2>8, Called DEF u
  <2>10. Len(u) <= MaxDepth
    <3>1. k \in Nat /\ MaxDepth \in Nat /\ k <= MaxDepth /\ k # MaxDepth
      BY <1>0, <1>5, <2>5
    <3>2. k + 1 <= MaxDepth
      BY ONLY <3>1
    <3> QED BY <2>6, <3>2
  <2>11. Nested(u, Loaded, result') /\ Started(u, Loaded) = Started(stack, Loaded)
    BY <1>1, <1>2, <2>9
  <2> QED BY <1>0, <1>1, <2>3, <2>6, <2>10, <2>11, CallsKeep
<1> QED BY <1>3, <1>4, <1>5

\* A frame in which only the name, the place or the wait has changed.
LEMMA Changed ==
    ASSUME NEW f \in Frames
    PROVE  /\ [f EXCEPT !.at = @ + 1] \in Frames
           /\ [f EXCEPT !.wait = TRUE] \in Frames
           /\ [f EXCEPT !.at = @ + 1, !.wait = FALSE] \in Frames
           /\ \A m \in Name \cup {NoName} : /\ [f EXCEPT !.name = m] \in Frames
                                           /\ [f EXCEPT !.wait = FALSE, !.name = m] \in Frames
<1>1. f.at \in Nat \ {0}
  BY DEF Frames
<1>2. f.at + 1 \in Nat \ {0}
  BY <1>1
<1>3. PICK a : a = [f EXCEPT !.at = @ + 1]
  OBVIOUS
<1>4. a \in Frames
  BY <1>2, <1>3 DEF Frames
<1>5. [a EXCEPT !.wait = FALSE] \in Frames
  BY <1>4 DEF Frames
<1>6. [f EXCEPT !.at = @ + 1, !.wait = FALSE] = [a EXCEPT !.wait = FALSE]
  BY <1>3 DEF Frames
<1>7. [f EXCEPT !.wait = TRUE] \in Frames
  BY DEF Frames
<1>8. ASSUME NEW m \in Name \cup {NoName}
      PROVE  /\ [f EXCEPT !.name = m] \in Frames
             /\ [f EXCEPT !.wait = FALSE, !.name = m] \in Frames
  <2>1. PICK b : b = [f EXCEPT !.wait = FALSE]
    OBVIOUS
  <2>2. b \in Frames
    BY <2>1 DEF Frames
  <2>3. [b EXCEPT !.name = m] \in Frames
    BY <2>2 DEF Frames
  <2>4. [f EXCEPT !.wait = FALSE, !.name = m] = [b EXCEPT !.name = m]
    BY <2>1 DEF Frames
  <2>5. [f EXCEPT !.name = m] \in Frames
    BY DEF Frames
  <2> QED BY <2>3, <2>4, <2>5
<1> QED BY <1>3, <1>4, <1>5, <1>6, <1>7, <1>8

\* plugins_loaddir, plugins_close and an event are at the bottom of the calls.
LEMMA AtBottom ==
    ASSUME IInv, mode # "crashed", stack # <<>>, Top.proc \notin {"load", "unload"}
    PROVE  /\ Len(stack) = 1
           /\ \A i \in DOMAIN stack : stack[i].proc # "load"
           /\ Top.done /\ ~Starting(Top) /\ (Top.proc = "tel" => Top.ask \in Name)
<1>1. PICK n \in Nat \ {0} : n = Len(stack)
  BY Innermost
<1>2. Nested(stack, Loaded, result) /\ DOMAIN stack = 1..n /\ Top = stack[n]
  BY <1>1, Innermost
<1>3. n = 1
  BY <1>2 DEF Nested
<1>4. \A i \in 1..n : stack[i].proc # "load"
  BY <1>2, <1>3 DEF Nested
<1>5. Top.done /\ (Top.proc = "tel" => Top.ask \in Name)
  BY <1>2 DEF Nested
<1> QED BY <1>1, <1>2, <1>3, <1>4, <1>5 DEF Starting

\* A load or an unload is of a plugin with a name.
LEMMA Above ==
    ASSUME IInv, mode # "crashed", stack # <<>>, Top.proc \in {"load", "unload"}
    PROVE  /\ Len(stack) > 1 /\ Top.name \in Name
           /\ Top.proc = "load" => Top.done
           /\ ~Top.done => Top.ret = "dependency"
           /\ Top.proc = "load" /\ (Top.wait => result = "ok") =>
                \A i \in DOMAIN stack : stack[i].proc = "load" => stack[i].name \in Loaded
<1>1. PICK n \in Nat \ {0} : n = Len(stack)
  BY Innermost
<1>2. Nested(stack, Loaded, result) /\ DOMAIN stack = 1..n /\ Top = stack[n]
  BY <1>1, Innermost
<1>3. n > 1 /\ Top.name \in Name
  BY <1>2 DEF Nested
<1>4. (Top.proc = "load" => Top.done) /\ (~Top.done => Top.ret = "dependency")
  BY <1>2 DEF Nested
<1>5. Sure(stack, Loaded, result)
  BY <1>2 DEF Nested
<1> QED BY <1>1, <1>2, <1>3, <1>4, <1>5 DEF Sure

\* The dependencies of a plugin have names.
LEMMA Dependencies ==
    ASSUME NEW n \in Name, NEW i \in Nat \ {0}, i <= Len(Deps[n])
    PROVE  Deps[n][i] \in Name
<1>1. Deps[n] \in Seq(Name)
  BY PluginsAssumption DEF PluginsAssumption
<1>2. Len(Deps[n]) \in Nat
  BY <1>1, LenProperties
<1> QED BY <1>1, <1>2, ElementOfSeq

\* A call that returns leaves the calls below it.
LEMMA ReturnKeeps ==
    ASSUME IInv, mode # "crashed", stack # <<>>, NEW M, NEW q, Sure(Front(stack), M, q)
    PROVE  /\ Front(stack) \in Seq(Frames) /\ Len(Front(stack)) = Len(stack) - 1
           /\ Len(Front(stack)) <= MaxDepth
           /\ Nested(Front(stack), M, q)
           /\ \A K : ~Starting(Top) => Started(Front(stack), K) = Started(stack, K)
           /\ \A K : Starting(Top) =>
                 Started(Front(stack), K) = Started(stack, K) \cup (K \cap {Top.name})
<1>1. /\ stack \in Seq(Frames) /\ Nested(stack, Loaded, result)
      /\ Len(stack) \in Nat \ {0} /\ Len(stack) <= MaxDepth /\ Top = stack[Len(stack)]
      /\ MaxDepth \in Nat
  BY Innermost, PluginsAssumption DEF PluginsAssumption
<1>2. Front(stack) \in Seq(Frames) /\ Len(Front(stack)) = Len(stack) - 1
  BY <1>1, FrontOf
<1>3. Len(Front(stack)) <= MaxDepth
  BY <1>1, <1>2
<1>4. /\ Nested(Front(stack), M, q)
      /\ \A K : ~Starting(Top) => Started(Front(stack), K) = Started(stack, K)
      /\ \A K : Starting(Top) =>
            Started(Front(stack), K) = Started(stack, K) \cup (K \cap {Top.name})
  BY <1>1, Returned
<1> QED BY <1>2, <1>3, <1>4

\* The innermost call below one that returns is the one before it.
LEMMA BelowTop ==
    ASSUME IInv, mode # "crashed", stack # <<>>
    PROVE  /\ DOMAIN Front(stack) = 1..Len(stack) - 1
           /\ \A i \in 1..Len(stack) - 1 : Front(stack)[i] = stack[i] /\ i \in DOMAIN stack
           /\ Len(Front(stack)) = Len(stack) - 1
<1>1. stack \in Seq(Frames) /\ Len(stack) \in Nat \ {0} /\ DOMAIN stack = 1..Len(stack)
  BY Innermost
<1>2. /\ Front(stack) \in Seq(Frames) /\ Len(Front(stack)) = Len(stack) - 1
      /\ \A i \in 1..Len(stack) - 1 : Front(stack)[i] = stack[i]
  BY <1>1, FrontOf
<1>3. \A i \in 1..Len(stack) - 1 : i \in DOMAIN stack
  BY <1>1
<1> QED BY <1>2, <1>3, LenProperties

\* A step of the innermost call alone.
LEMMA TopMoves ==
    ASSUME IInv, mode # "crashed", stack # <<>>, NEW f \in Frames,
           f.proc = Top.proc, f.done = Top.done, f.ret = Top.ret, f.ask = Top.ask,
           Len(stack) > 1 => f.name = Top.name,
           f.proc = "load" /\ (f.wait => result = "ok") =>
               \A i \in DOMAIN stack : stack[i].proc = "load" => stack[i].name \in Loaded,
           stack' = Under(f), UNCHANGED <<list, chains, timerOwners, result, mode>>
    PROVE  IInv'
<1>1. PICK t : t = Under(f)
  OBVIOUS
<1>2. /\ t \in Seq(Frames) /\ Len(t) = Len(stack)
      /\ Nested(t, Loaded, result) /\ Started(t, Loaded) = Started(stack, Loaded)
  BY <1>1, TopKeeps
<1>3. Nested(t, Loaded, result')
  BY <1>2
<1> QED BY <1>1, <1>2, <1>3, Innermost, CallsKeep

\* plugins_loaddir.
LEMMA LoadDirIInv == IInv /\ LoadDir => IInv'
<1> SUFFICES ASSUME IInv, LoadDir PROVE IInv'
  OBVIOUS
<1>1. mode # "crashed" /\ stack # <<>> /\ Top.proc = "dir" /\ Top.at <= Len(Dir)
  BY DEF LoadDir, Running
<1>2. Top \in Frames
  BY <1>1, Innermost
<1>3. PICK f : f = [Top EXCEPT !.at = @ + 1]
  OBVIOUS
<1>4. /\ f \in Frames /\ f.proc = "dir" /\ f.done = Top.done /\ f.ret = Top.ret
      /\ f.ask = Top.ask /\ f.name = Top.name
  BY <1>1, <1>2, <1>3, Changed DEF Frames
<1>5. PICK n : n = Dir[Top.at]
  OBVIOUS
<1>6. n \in Name
  <2>1. Dir \in Seq(Name) /\ Top.at \in Nat \ {0}
    BY <1>2, PluginsAssumption DEF PluginsAssumption, Frames
  <2>2. Len(Dir) \in Nat
    BY <2>1, LenProperties
  <2> QED BY <1>1, <1>5, <2>1, <2>2, ElementOfSeq
<1>7. LoadPlugin(n, f)
  BY <1>3, <1>5 DEF LoadDir
<1>8. \A i \in DOMAIN stack : stack[i].proc = "load" => stack[i].name \in Loaded
  BY <1>1, AtBottom
<1>9. f.proc # "load" /\ f.proc # "unload" /\ f.proc = Top.proc
  BY <1>1, <1>4
<1> QED BY <1>1, <1>4, <1>6, <1>7, <1>8, <1>9, LoadPluginKeeps

\* The end of plugins_loaddir.
LEMMA LoadDirEndsIInv == IInv /\ LoadDirEnds => IInv'
<1> SUFFICES ASSUME IInv, LoadDirEnds PROVE IInv'
  OBVIOUS
<1>1. /\ mode # "crashed" /\ stack # <<>> /\ Top.proc = "dir"
      /\ stack' = Front(stack) /\ mode' = "running"
      /\ UNCHANGED <<list, chains, timerOwners, result>>
  BY DEF LoadDirEnds, Running
<1>2. Len(stack) = 1 /\ ~Starting(Top)
  BY <1>1, AtBottom
<1>3. Sure(Front(stack), Loaded, result)
  BY <1>1, <1>2, BelowTop DEF Sure
<1>4. /\ Front(stack) \in Seq(Frames) /\ Len(Front(stack)) <= MaxDepth
      /\ Nested(Front(stack), Loaded, result)
      /\ Started(Front(stack), Loaded) = Started(stack, Loaded)
  BY <1>1, <1>2, <1>3, ReturnKeeps
<1>5. Loaded' = Loaded
  BY <1>1 DEF Loaded
<1>6. Typed'
  BY <1>1, <1>4 DEF IInv, Typed
<1>7. Enlisted(chains', timerOwners', Started(stack', Loaded'))
  BY <1>1, <1>4, <1>5, Innermost
<1>8. Kept'
  BY <1>1, <1>4, <1>5, <1>7 DEF Kept
<1> QED BY <1>6, <1>8 DEF IInv

\* A dependency is looked for, and loaded when it is not there.
LEMMA LoadDepIInv == IInv /\ LoadDep => IInv'
<1> SUFFICES ASSUME IInv, LoadDep PROVE IInv'
  OBVIOUS
<1>1. /\ mode # "crashed" /\ stack # <<>> /\ Top.proc = "load" /\ ~Top.wait
      /\ Top.at <= Len(Deps[Top.name])
  BY DEF LoadDep, Running
<1>2. Top \in Frames /\ Top.at \in Nat \ {0}
  BY <1>1, Innermost DEF Frames
<1>3. /\ Len(stack) > 1 /\ Top.name \in Name
      /\ \A i \in DOMAIN stack : stack[i].proc = "load" => stack[i].name \in Loaded
  BY <1>1, Above
<1>4. CASE NextDep \in Loaded
  <2>1. PICK f : f = [Top EXCEPT !.at = @ + 1]
    OBVIOUS
  <2>2. /\ f \in Frames /\ f.proc = Top.proc /\ f.done = Top.done /\ f.ret = Top.ret
        /\ f.ask = Top.ask /\ f.name = Top.name
    BY <1>2, <2>1, Changed DEF Frames
  <2>3. stack' = Under(f) /\ UNCHANGED <<list, chains, timerOwners, result, mode>>
    BY <1>4, <2>1 DEF LoadDep
  <2> QED BY <1>1, <1>3, <2>2, <2>3, TopMoves
<1>5. CASE NextDep \notin Loaded
  <2>1. PICK f : f = [Top EXCEPT !.wait = TRUE]
    OBVIOUS
  <2>2. /\ f \in Frames /\ f.proc = Top.proc /\ f.done = Top.done /\ f.ret = Top.ret
        /\ f.ask = Top.ask /\ f.name = Top.name /\ f.wait
    BY <1>2, <2>1, Changed DEF Frames
  <2>3. PICK n : n = NextDep
    OBVIOUS
  <2>4. n \in Name
    BY <1>1, <1>2, <1>3, <2>3, Dependencies DEF NextDep
  <2>5. Load(n, f)
    BY <1>5, <2>1, <2>3 DEF LoadDep
  <2>6. f.proc # "unload"
    BY <1>1, <2>2
  <2> QED BY <1>1, <1>3, <2>2, <2>4, <2>5, <2>6, LoadKeeps
<1> QED BY <1>4, <1>5

\* A dependency has been loaded, or could not be.
LEMMA DepLoadedIInv == IInv /\ DepLoaded => IInv'
<1> SUFFICES ASSUME IInv, DepLoaded PROVE IInv'
  OBVIOUS
<1>1. /\ mode # "crashed" /\ stack # <<>> /\ Top.proc = "load" /\ Top.wait
      /\ UNCHANGED <<list, chains, timerOwners, result, mode>>
  BY DEF DepLoaded, Running
<1>2. Top \in Frames
  BY <1>1, Innermost
<1>3. CASE result = "ok"
  <2>1. PICK f : f = [Top EXCEPT !.at = @ + 1, !.wait = FALSE]
    OBVIOUS
  <2>2. /\ f \in Frames /\ f.proc = Top.proc /\ f.done = Top.done /\ f.ret = Top.ret
        /\ f.ask = Top.ask /\ f.name = Top.name
    <3>1. f \in Frames
      BY <1>2, <2>1, Changed
    <3>2. /\ f.proc = Top.proc /\ f.done = Top.done /\ f.ret = Top.ret
          /\ f.ask = Top.ask /\ f.name = Top.name
      BY <1>2, <2>1 DEF Frames
    <3> QED BY <3>1, <3>2
  <2>3. stack' = Under(f)
    BY <1>3, <2>1 DEF DepLoaded
  <2>4. \A i \in DOMAIN stack : stack[i].proc = "load" => stack[i].name \in Loaded
    BY <1>1, <1>3, Above
  <2> QED BY <1>1, <2>2, <2>3, <2>4, TopMoves
<1>4. CASE result # "ok"
  <2>1. PICK f : f = [Frame("unload", Top.name) EXCEPT !.done = FALSE, !.ret = "dependency"]
    OBVIOUS
  <2>2. Top.name \in Name
    BY <1>1, Above
  <2>3. /\ f \in Frames /\ f.proc = "unload" /\ f.name = Top.name
        /\ ~f.done /\ f.ret = "dependency"
    <3>1. PICK n : n = Top.name
      OBVIOUS
    <3>2. f = [proc |-> "unload", name |-> n, at |-> 1, wait |-> FALSE, done |-> FALSE,
               ret |-> "dependency", ask |-> NoName]
      BY <2>1, <3>1 DEF Frame
    <3> QED BY <2>2, <3>1, <3>2 DEF Frames
  <2>4. PICK t : t = Under(f)
    OBVIOUS
  <2>5. stack' = t
    BY <1>4, <2>1, <2>4 DEF DepLoaded
  <2>6. PICK n \in Nat \ {0} : n = Len(stack)
    BY <1>1, Innermost
  <2>7. /\ stack \in Seq(Frames) /\ Nested(stack, Loaded, result) /\ Top = stack[n]
        /\ n <= MaxDepth /\ mode \in {"starting", "running", "closing"}
    BY <1>1, <2>6, Innermost
  <2>8. /\ t \in Seq(Frames) /\ Len(t) = n /\ t[n] = f
        /\ \A i \in 1..n - 1 : t[i] = stack[i]
    BY <1>1, <2>3, <2>4, <2>6, <2>7, Relaid DEF Under
  <2>9. Nested(t, Loaded, result) /\ Started(t, Loaded) = Started(stack, Loaded)
    BY <1>1, <2>3, <2>6, <2>7, <2>8, GivenUp
  <2>10. Nested(t, Loaded, result')
    BY <1>1, <2>9
  <2> QED BY <1>1, <2>5, <2>7, <2>8, <2>9, <2>10, CallsKeep
<1> QED BY <1>3, <1>4

\* PluginInit registers the listeners and the timer of a plugin.
LEMMA InitEnlists ==
    ASSUME NEW A, Enlisted(chains, timerOwners, A), NEW n \in Name, n \notin A, InitPlugin(n)
    PROVE  /\ DOMAIN chains' = {"tel", "irc"}
           /\ chains'.tel \in Seq(Name) /\ chains'.irc \in Seq(Name) /\ timerOwners' \in Seq(Name)
           /\ Enlisted(chains', timerOwners', A \cup {n})
<1> DEFINE tel == (IF n \in TelListener THEN <<n>> ELSE <<>>) \o chains.tel
           irc == (IF n \in IrcListener THEN <<n>> ELSE <<>>) \o chains.irc
<1>1. /\ Enrolled(chains.tel, TelListener, A) /\ Enrolled(chains.irc, IrcListener, A)
      /\ Enrolled(timerOwners, Timed, A)
      /\ chains.tel \in Seq(Name) /\ chains.irc \in Seq(Name) /\ timerOwners \in Seq(Name)
  BY DEF Enlisted, Enrolled
<1>2. chains' = [tel |-> tel, irc |-> irc]
  BY DEF InitPlugin
<1>3. timerOwners' = IF n \in Timed THEN Append(timerOwners, n) ELSE timerOwners
  BY DEF InitPlugin
<1>4. \A q \in Seq(Name) : <<>> \o q = q
  BY ConcatEmptySeq
<1>5. n \notin TelListener => tel = chains.tel
  BY <1>1, <1>4
<1>6. n \notin IrcListener => irc = chains.irc
  BY <1>1, <1>4
<1>7. n \in TelListener => tel = <<n>> \o chains.tel
  OBVIOUS
<1>8. n \in IrcListener => irc = <<n>> \o chains.irc
  OBVIOUS
<1> HIDE DEF tel, irc
<1>9. Enrolled(tel, TelListener, A \cup {n})
  BY <1>1, <1>5, <1>7, Registers
<1>10. Enrolled(irc, IrcListener, A \cup {n})
  BY <1>1, <1>6, <1>8, Registers
<1>11. PICK p : p = timerOwners'
  OBVIOUS
<1>12. Enrolled(p, Timed, A \cup {n})
  <2>1. n \in Timed => p = Append(timerOwners, n)
    BY <1>3, <1>11
  <2>2. n \notin Timed => p = timerOwners
    BY <1>3, <1>11
  <2> QED BY <1>1, <2>1, <2>2, Registers
<1>13. DOMAIN chains' = {"tel", "irc"} /\ chains'.tel = tel /\ chains'.irc = irc
  BY <1>2
<1>14. tel \in Seq(Name) /\ irc \in Seq(Name) /\ timerOwners' \in Seq(Name)
  BY <1>9, <1>10, <1>11, <1>12 DEF Enrolled
<1> QED BY <1>9, <1>10, <1>11, <1>12, <1>13, <1>14 DEF Enlisted

\* PluginDone removes them.
LEMMA DoneResigns ==
    ASSUME NEW A, Enlisted(chains, timerOwners, A), NEW n \in Name, DonePlugin(n),
           DOMAIN chains = {"tel", "irc"}
    PROVE  /\ DOMAIN chains' = {"tel", "irc"}
           /\ chains'.tel \in Seq(Name) /\ chains'.irc \in Seq(Name) /\ timerOwners' \in Seq(Name)
           /\ Enlisted(chains', timerOwners', A \ {n})
<1>1. /\ Enrolled(chains.tel, TelListener, A) /\ Enrolled(chains.irc, IrcListener, A)
      /\ Enrolled(timerOwners, Timed, A)
      /\ chains.tel \in Seq(Name) /\ chains.irc \in Seq(Name) /\ timerOwners \in Seq(Name)
  BY DEF Enlisted, Enrolled
<1>2. /\ DOMAIN chains' = {"tel", "irc"}
      /\ chains'.tel = Others(chains.tel, n) /\ chains'.irc = Others(chains.irc, n)
      /\ timerOwners' = Others(timerOwners, n)
  BY DEF DonePlugin
<1>3. /\ Others(chains.tel, n) \in Seq(Name)
      /\ Enrolled(Others(chains.tel, n), TelListener, A \ {n})
  BY <1>1, Resigns
<1>4. /\ Others(chains.irc, n) \in Seq(Name)
      /\ Enrolled(Others(chains.irc, n), IrcListener, A \ {n})
  BY <1>1, Resigns
<1>5. /\ Others(timerOwners, n) \in Seq(Name)
      /\ Enrolled(Others(timerOwners, n), Timed, A \ {n})
  BY <1>1, Resigns
<1> QED BY <1>2, <1>3, <1>4, <1>5 DEF Enlisted

\* All dependencies are there: PluginInit, and back to the caller.
LEMMA LoadEndsIInv == IInv /\ LoadEnds => IInv'
<1> SUFFICES ASSUME IInv, LoadEnds PROVE IInv'
  OBVIOUS
<1>1. /\ mode # "crashed" /\ stack # <<>> /\ Top.proc = "load" /\ ~Top.wait
      /\ InitPlugin(Top.name) /\ result' = "ok" /\ stack' = Front(stack)
      /\ list' = list /\ mode' = mode
  BY DEF LoadEnds, Running
<1>2. PICK n : n = Top.name
  OBVIOUS
<1>3. /\ n \in Name
      /\ \A i \in DOMAIN stack : stack[i].proc = "load" => stack[i].name \in Loaded
  BY <1>1, <1>2, Above
<1>4. /\ Len(stack) \in Nat \ {0} /\ DOMAIN stack = 1..Len(stack) /\ Top = stack[Len(stack)]
      /\ mode \in {"starting", "running", "closing"}
      /\ Enlisted(chains, timerOwners, Started(stack, Loaded))
  BY <1>1, Innermost
<1>5. Len(stack) \in DOMAIN stack
  BY <1>4
<1>6. n \in Loaded
  BY <1>1, <1>2, <1>3, <1>4, <1>5
<1>7. Starting(Top)
  BY <1>1 DEF Starting
<1>8. n \notin Started(stack, Loaded)
  BY <1>2, <1>4, <1>5, <1>7 DEF Started
<1>9. Sure(Front(stack), Loaded, "ok")
  BY <1>1, <1>3, BelowTop DEF Sure
<1>10. /\ Front(stack) \in Seq(Frames) /\ Len(Front(stack)) <= MaxDepth
       /\ Nested(Front(stack), Loaded, "ok")
       /\ Started(Front(stack), Loaded) = Started(stack, Loaded) \cup (Loaded \cap {n})
  BY <1>1, <1>2, <1>7, <1>9, ReturnKeeps
<1>11. Started(Front(stack), Loaded) = Started(stack, Loaded) \cup {n}
  BY <1>6, <1>10
<1>12. /\ DOMAIN chains' = {"tel", "irc"}
       /\ chains'.tel \in Seq(Name) /\ chains'.irc \in Seq(Name) /\ timerOwners' \in Seq(Name)
       /\ Enlisted(chains', timerOwners', Started(stack, Loaded) \cup {n})
  BY <1>1, <1>2, <1>3, <1>4, <1>8, InitEnlists
<1>13. Loaded' = Loaded
  BY <1>1 DEF Loaded
<1>14. Typed'
  BY <1>1, <1>10, <1>12 DEF IInv, Typed
<1>15. Enlisted(chains', timerOwners', Started(stack', Loaded'))
  BY <1>1, <1>11, <1>12, <1>13
<1>16. Nested(stack', Loaded', result')
  BY <1>1, <1>10, <1>13
<1>17. Kept'
  BY <1>1, <1>4, <1>15, <1>16 DEF Kept
<1> QED BY <1>14, <1>17 DEF IInv

\* A dependency is taken along when it is loaded.
LEMMA UnloadDepIInv == IInv /\ UnloadDep => IInv'
<1> SUFFICES ASSUME IInv, UnloadDep PROVE IInv'
  OBVIOUS
<1>1. mode # "crashed" /\ stack # <<>> /\ Top.proc = "unload"
  BY DEF UnloadDep, Running
<1>2. Top \in Frames
  BY <1>1, Innermost
<1>3. PICK f : f = [Top EXCEPT !.at = @ + 1]
  OBVIOUS
<1>4. /\ f \in Frames /\ f.proc = Top.proc /\ f.done = Top.done /\ f.ret = Top.ret
      /\ f.ask = Top.ask /\ f.name = Top.name
  BY <1>2, <1>3, Changed DEF Frames
<1>5. f.proc # "load"
  BY <1>1, <1>4
<1>6. CASE NextDep \in Loaded
  <2>1. Unload(NextDep, f)
    BY <1>3, <1>6 DEF UnloadDep
  <2>2. PICK n : n = NextDep
    OBVIOUS
  <2>3. Unload(n, f)
    BY <2>1, <2>2
  <2> QED BY <1>1, <1>4, <1>5, <2>3, UnloadKeeps
<1>7. CASE NextDep \notin Loaded
  <2>1. stack' = Under(f) /\ UNCHANGED <<list, chains, timerOwners, result, mode>>
    BY <1>3, <1>7 DEF UnloadDep
  <2> QED BY <1>1, <1>4, <1>5, <2>1, TopMoves
<1> QED BY <1>6, <1>7

\* The plugin goes, after PluginDone if it had come so far.
LEMMA UnloadEndsIInv == IInv /\ UnloadEnds => IInv'
<1> SUFFICES ASSUME IInv, UnloadEnds PROVE IInv'
  OBVIOUS
<1>1. mode # "crashed" /\ stack # <<>> /\ Top.proc = "unload"
  BY DEF UnloadEnds, Running
<1>2. CASE Top.name \notin Loaded
  BY <1>2, CrashKeeps DEF UnloadEnds
<1>3. CASE Top.name \in Loaded
  <2>1. PICK n : n = Top.name
    OBVIOUS
  <2>2. /\ IF Top.done THEN DonePlugin(n) ELSE UNCHANGED <<chains, timerOwners>>
        /\ list' = Unlinked(list, n)
        /\ result' = Top.ret /\ stack' = Front(stack)
        /\ mode' = mode
    BY <1>3, <2>1 DEF UnloadEnds
  <2>3. n \in Name /\ n \in Loaded
    BY <1>1, <1>3, <2>1, Above
  <2>4. /\ Len(stack) \in Nat \ {0} /\ DOMAIN stack = 1..Len(stack) /\ Top = stack[Len(stack)]
        /\ mode \in {"starting", "running", "closing"}
        /\ Nested(stack, Loaded, result)
        /\ Enlisted(chains, timerOwners, Started(stack, Loaded))
    BY <1>1, Innermost
  <2>5. \E o \in Seq(Name) : Linked(list', o)
    <3>1. PICK o \in Seq(Name) : Linked(list, o)
      BY DEF IInv, Typed
    <3>2. PICK k \in DOMAIN o : n = o[k]
      BY <2>3, <3>1, LinkedFacts DEF Loaded
    <3>3. Linked(Unlinked(list, n), RemoveAt(o, k))
      BY <3>1, <3>2, UnlinkedLinked
    <3>4. RemoveAt(o, k) \in Seq(Name)
      BY <3>3 DEF Linked
    <3> QED BY <2>2, <3>3, <3>4
  <2>6. Loaded' = Loaded \ {n}
    BY <2>2 DEF Loaded, Unlinked
  <2>7. PICK q : q = Top.ret
    OBVIOUS
  <2>8. PICK M : M = Loaded \ {n}
    OBVIOUS
  <2>9. Sure(Front(stack), M, q)
    <3> SUFFICES ASSUME Len(Front(stack)) # 0,
                        Front(stack)[Len(Front(stack))].proc = "load",
                        Front(stack)[Len(Front(stack))].wait => q = "ok"
                 PROVE  FALSE
      BY DEF Sure
    <3>1. PICK k : k = Len(stack) - 1
      OBVIOUS
    <3>2. /\ Len(Front(stack)) = k
          /\ \A i \in 1..k : Front(stack)[i] = stack[i] /\ i \in DOMAIN stack
      BY <1>1, <3>1, BelowTop
    <3>3. Len(stack) \in Nat \ {0} /\ k # 0 /\ k = Len(stack) - 1
      BY <2>4, <3>1, <3>2
    <3>4. k \in 1..k /\ k < Len(stack) /\ k + 1 = Len(stack) /\ k + 1 > 1 /\ k + 1 - 1 = k
      BY ONLY <3>3
    <3>5. stack[k].proc = "load" /\ (stack[k].wait => q = "ok") /\ k \in DOMAIN stack
      BY <3>2, <3>4
    <3>6. stack[k].wait
      BY <2>4, <3>4, <3>5 DEF Nested
    <3>7. Top = stack[k + 1] /\ k + 1 \in DOMAIN stack
      BY <2>4, <3>4
    <3>8. ~Top.done
      BY <1>1, <2>4, <3>4, <3>5, <3>7 DEF Nested
    <3>9. q = "dependency"
      BY <1>1, <2>7, <3>8, Above
    <3> QED BY <3>5, <3>6, <3>9
  <2>10. /\ Front(stack) \in Seq(Frames) /\ Len(Front(stack)) <= MaxDepth
         /\ Nested(Front(stack), M, q)
         /\ ~Starting(Top) => Started(Front(stack), M) = Started(stack, M)
         /\ Starting(Top) => Started(Front(stack), M) = Started(stack, M) \cup (M \cap {Top.name})
    BY <1>1, <2>9, ReturnKeeps
  <2>11. Started(stack, M) = Started(stack, Loaded) \ {n}
    BY <2>8 DEF Started
  <2>12. Started(Front(stack), M) = Started(stack, Loaded) \ {n}
    <3>1. M \cap {Top.name} = {}
      BY <2>1, <2>8
    <3> QED BY <2>10, <2>11, <3>1
  <2>13. /\ DOMAIN chains' = {"tel", "irc"}
         /\ chains'.tel \in Seq(Name) /\ chains'.irc \in Seq(Name) /\ timerOwners' \in Seq(Name)
         /\ Enlisted(chains', timerOwners', Started(stack, Loaded) \ {n})
    <3>1. /\ DOMAIN chains = {"tel", "irc"}
          /\ chains.tel \in Seq(Name) /\ chains.irc \in Seq(Name) /\ timerOwners \in Seq(Name)
      BY DEF IInv, Typed
    <3>2. CASE Top.done
      BY <2>2, <2>3, <2>4, <3>1, <3>2, DoneResigns
    <3>3. CASE ~Top.done
      <4>1. Starting(Top) /\ Len(stack) \in DOMAIN stack
        BY <2>4, <3>3 DEF Starting
      <4>2. n \notin Started(stack, Loaded)
        BY <2>1, <2>4, <4>1 DEF Started
      <4>3. Started(stack, Loaded) \ {n} = Started(stack, Loaded)
        BY <4>2
      <4>4. chains' = chains /\ timerOwners' = timerOwners
        BY <2>2, <3>3
      <4> QED BY <2>4, <3>1, <4>3, <4>4
    <3> QED BY <3>2, <3>3
  <2>14. Typed'
    BY <2>2, <2>5, <2>10, <2>13 DEF IInv, Typed
  <2>15. Enlisted(chains', timerOwners', Started(stack', Loaded'))
    BY <2>2, <2>6, <2>8, <2>12, <2>13
  <2>16. Nested(stack', Loaded', result')
    BY <2>2, <2>6, <2>7, <2>8, <2>10
  <2>17. Kept'
    BY <2>2, <2>4, <2>15, <2>16 DEF Kept
  <2> QED BY <2>14, <2>17 DEF IInv
<1> QED BY <1>2, <1>3

\* plugins_close unloads a plugin, and has the next one in hand.
LEMMA CloseIInv == IInv /\ Close => IInv'
<1> SUFFICES ASSUME IInv, Close PROVE IInv'
  OBVIOUS
<1>1. mode # "crashed" /\ stack # <<>> /\ Top.proc = "close" /\ Top.name # NoName
  BY DEF Close, Running
<1>2. CASE Top.name \notin Loaded
  BY <1>2, CrashKeeps DEF Close
<1>3. CASE Top.name \in Loaded
  <2>1. PICK n : n = Top.name
    OBVIOUS
  <2>2. PICK m : m = list.node[n].next
    OBVIOUS
  <2>3. PICK f : f = [Top EXCEPT !.name = m]
    OBVIOUS
  <2>4. PICK g : g = Frame("unload", n)
    OBVIOUS
  <2>5. PICK t : t = Under(f)
    OBVIOUS
  <2>6. stack' = Append(t, g) /\ UNCHANGED <<list, chains, timerOwners, result, mode>>
    BY <1>3, <2>1, <2>2, <2>3, <2>4, <2>5 DEF Close
  <2>7. n \in Name /\ m \in Name \cup {NoName}
    <3>1. PICK o \in Seq(Name) : Linked(list, o)
      BY DEF IInv, Typed
    <3>2. /\ Len(o) \in Nat /\ DOMAIN o = 1..Len(o)
          /\ \A i \in DOMAIN o : o[i] \in Name
      BY <3>1, LinkedFacts
    <3>3. PICK k \in DOMAIN o : n = o[k]
      BY <1>3, <2>1, <3>1, LinkedFacts DEF Loaded
    <3>4. m = IF k = Len(o) THEN NoName ELSE o[k + 1]
      <4>1. list.node[n] = [prev |-> IF k = 1 THEN NoName ELSE o[k - 1],
                            next |-> IF k = Len(o) THEN NoName ELSE o[k + 1]]
        BY <3>1, <3>3 DEF Linked
      <4> QED BY <2>2, <4>1
    <3>5. CASE k = Len(o)
      BY <3>2, <3>3, <3>4, <3>5
    <3>6. CASE k # Len(o)
      <4>1. k + 1 \in DOMAIN o
        BY <3>2, <3>6
      <4> QED BY <3>2, <3>3, <3>4, <3>6, <4>1
    <3> QED BY <3>5, <3>6
  <2>8. Top \in Frames /\ mode \in {"starting", "running", "closing"} /\ Len(stack) = 1
    BY <1>1, Innermost, AtBottom
  <2>9. f \in Frames
    BY <2>3, <2>7, <2>8, Changed
  <2>10. /\ f.proc = Top.proc /\ f.done = Top.done /\ f.ret = Top.ret /\ f.ask = Top.ask
    BY <2>3, <2>8 DEF Frames
  <2>11. f.proc # "load"
    BY <1>1, <2>10
  <2>12. /\ t \in Seq(Frames) /\ Len(t) = 1 /\ t[1] = f
         /\ Nested(t, Loaded, result)
         /\ \A K : Started(t, K) = Started(stack, K)
    BY <1>1, <2>5, <2>8, <2>9, <2>10, <2>11, TopKeeps
  <2>13. g \in Frames /\ g.proc = "unload" /\ g.name = n /\ g.done
    BY <2>4, <2>7 DEF Frames, Frame
  <2>14. PICK u : u = Append(t, g)
    OBVIOUS
  <2>15. u \in Seq(Frames) /\ Len(u) = 2 /\ u[2] = g
    <3>0. t \in Seq(Frames) /\ g \in Frames
      BY <2>12, <2>13
    <3>1. /\ Append(t, g) \in Seq(Frames) /\ Len(Append(t, g)) = Len(t) + 1
          /\ Append(t, g)[Len(t) + 1] = g
      BY ONLY <3>0, AppendProperties
    <3>2. Len(t) + 1 = 2
      BY <2>12
    <3> QED BY <2>14, <3>1, <3>2
  <2>16. Sure(u, Loaded, result)
    BY <2>13, <2>15 DEF Sure
  <2>17. /\ Nested(u, Loaded, result)
         /\ \A K : Started(u, K) = Started(t, K)
    <3>1. PICK k \in Nat \ {0} : k = 1
      OBVIOUS
    <3>2. Len(t) = k /\ t[k].proc # "load" /\ Sure(Append(t, g), Loaded, result)
      BY <2>11, <2>12, <2>14, <2>16, <3>1
    <3> QED BY <2>7, <2>12, <2>13, <2>14, <3>2, Called
  <2>18. Len(u) <= MaxDepth
    <3>1. MaxDepth \in Nat \ {0, 1}
      BY PluginsAssumption DEF PluginsAssumption
    <3>2. 2 <= MaxDepth
      BY ONLY <3>1
    <3> QED BY <2>15, <3>2
  <2>19. Nested(u, Loaded, result') /\ Started(u, Loaded) = Started(stack, Loaded)
    BY <2>6, <2>12, <2>17
  <2> QED BY <1>1, <2>6, <2>8, <2>14, <2>15, <2>18, <2>19, CallsKeep
<1> QED BY <1>2, <1>3

\* What is at the bottom of the calls returns.
LEMMA BottomReturns ==
    ASSUME IInv, mode # "crashed", stack # <<>>, Top.proc \notin {"load", "unload"},
           stack' = Front(stack), UNCHANGED <<list, chains, timerOwners, result>>,
           mode' \in {"starting", "running", "closing", "closed"}
    PROVE  IInv'
<1>1. Len(stack) = 1 /\ ~Starting(Top)
  BY AtBottom
<1>2. Sure(Front(stack), Loaded, result)
  BY <1>1, BelowTop DEF Sure
<1>3. /\ Front(stack) \in Seq(Frames) /\ Len(Front(stack)) <= MaxDepth
      /\ Nested(Front(stack), Loaded, result)
      /\ Started(Front(stack), Loaded) = Started(stack, Loaded)
  BY <1>1, <1>2, ReturnKeeps
<1>4. Front(stack) = <<>>
  BY <1>1, <1>3, BelowTop, EmptySeq
<1>5. Loaded' = Loaded
  BY DEF Loaded
<1>6. Typed'
  BY <1>3 DEF IInv, Typed
<1>7. Enlisted(chains', timerOwners', Started(stack', Loaded'))
  BY <1>3, <1>5, Innermost
<1>8. Kept'
  BY <1>3, <1>4, <1>5, <1>7 DEF Kept
<1> QED BY <1>6, <1>8 DEF IInv

\* The end of plugins_close.
LEMMA CloseEndsIInv == IInv /\ CloseEnds => IInv'
<1> SUFFICES ASSUME IInv, CloseEnds PROVE IInv'
  OBVIOUS
<1>1. /\ mode # "crashed" /\ stack # <<>> /\ Top.proc = "close"
      /\ stack' = Front(stack) /\ mode' = "closed"
      /\ UNCHANGED <<list, chains, timerOwners, result>>
  BY DEF CloseEnds, Running
<1> QED BY <1>1, BottomReturns

\* A listener is called, that of the commander loads or unloads.
LEMMA CallListenerIInv == IInv /\ CallListener => IInv'
<1> SUFFICES ASSUME IInv, CallListener PROVE IInv'
  OBVIOUS
<1>1. mode # "crashed" /\ stack # <<>> /\ Top.proc \in {"tel", "irc"}
  BY DEF CallListener, Running
<1>2. CASE Top.name \notin Loaded
  BY <1>2, CrashKeeps DEF CallListener
<1>3. CASE Top.name \in Loaded
  <2>1. PICK f : f = [Top EXCEPT !.wait = TRUE]
    OBVIOUS
  <2>2. Top \in Frames
    BY <1>1, Innermost
  <2>3. /\ f \in Frames /\ f.proc = Top.proc /\ f.done = Top.done /\ f.ret = Top.ret
        /\ f.ask = Top.ask /\ f.name = Top.name
    BY <2>1, <2>2, Changed DEF Frames
  <2>4. f.proc # "load" /\ f.proc # "unload"
    BY <1>1, <2>3
  <2>5. CASE Top.proc = "tel" /\ Top.name = Commander
    <3>1. PICK n : n = Top.ask
      OBVIOUS
    <3>2. n \in Name
      BY <1>1, <2>5, <3>1, AtBottom
    <3>3. CASE Top.ret = "load"
      <4>1. Load(n, f)
        BY <1>3, <2>1, <2>5, <3>1, <3>3 DEF CallListener
      <4>2. \A i \in DOMAIN stack : stack[i].proc = "load" => stack[i].name \in Loaded
        BY <1>1, AtBottom
      <4> QED BY <1>1, <2>3, <2>4, <3>2, <4>1, <4>2, LoadKeeps
    <3>4. CASE Top.ret # "load"
      <4>1. Unload(n, f)
        BY <1>3, <2>1, <2>5, <3>1, <3>4 DEF CallListener
      <4> QED BY <1>1, <2>3, <2>4, <4>1, UnloadKeeps
    <3> QED BY <3>3, <3>4
  <2>6. CASE ~(Top.proc = "tel" /\ Top.name = Commander)
    <3>1. stack' = Under(f) /\ UNCHANGED <<list, chains, timerOwners, result, mode>>
      BY <1>3, <2>1, <2>6 DEF CallListener
    <3> QED BY <1>1, <2>3, <2>4, <3>1, TopMoves
  <2> QED BY <2>5, <2>6
<1> QED BY <1>2, <1>3

\* A listener in a chain is a plugin, and so is the one behind it.
LEMMA Listener ==
    ASSUME IInv, NEW e \in {"tel", "irc"}
    PROVE  /\ HeadOf(e) \in Name \cup {NoName}
           /\ \A n : InChain(e, n) => NextListener(e, n) \in Name \cup {NoName}
<1>1. PICK c : c = chains[e]
  OBVIOUS
<1>2. c \in Seq(Name)
  BY <1>1 DEF IInv, Typed
<1>3. Len(c) \in Nat
  BY <1>2, LenProperties
<1>4. HeadOf(e) \in Name \cup {NoName}
  BY <1>1, <1>2 DEF HeadOf
<1>5. ASSUME NEW n, InChain(e, n) PROVE NextListener(e, n) \in Name \cup {NoName}
  <2>1. PICK I : I = {i \in 1..Len(c) : c[i] = n}
    OBVIOUS
  <2>2. PICK i : i = SelectInSeq(c, LAMBDA m : m = n)
    OBVIOUS
  <2>3. i = IF I # {} THEN Min(I) ELSE 0
    BY <2>1, <2>2 DEF SelectInSeq
  <2>4. i # 0
    BY <1>1, <1>5, <2>2 DEF InChain
  <2>5. \E j \in I : \A k \in I : j <= k
    <3>1. I \in SUBSET Nat /\ I # {}
      BY <1>3, <2>1, <2>3, <2>4
    <3> QED BY <3>1, LeastPosition
  <2>6. i \in 1..Len(c)
    BY <2>1, <2>3, <2>4, <2>5 DEF Min
  <2>7. NextListener(e, n) = IF i = Len(c) THEN NoName ELSE c[i + 1]
    BY <1>1, <2>2 DEF NextListener
  <2>8. i # Len(c) => i + 1 \in 1..Len(c)
    BY <1>3, <2>6
  <2> QED BY <1>2, <2>7, <2>8, ElementOfSeq
<1> QED BY <1>4, <1>5

\* The loop of events_fireEvent goes on with the next listener.
LEMMA ListenerReturnsIInv == IInv /\ ListenerReturns => IInv'
<1> SUFFICES ASSUME IInv, ListenerReturns PROVE IInv'
  OBVIOUS
<1>1. mode # "crashed" /\ stack # <<>> /\ Top.proc \in {"tel", "irc"}
  BY DEF ListenerReturns, Running
<1>2. CASE Top.name \notin Loaded \/ ~InChain(Top.proc, Top.name)
  BY <1>2, CrashKeeps DEF ListenerReturns
<1>3. CASE ~(Top.name \notin Loaded \/ ~InChain(Top.proc, Top.name))
  <2>1. PICK e \in {"tel", "irc"} : e = Top.proc
    BY <1>1
  <2>2. PICK next : next = NextListener(e, Top.name)
    OBVIOUS
  <2>3. InChain(e, Top.name)
    BY <1>3, <2>1
  <2>4. next \in Name \cup {NoName}
    BY <2>2, <2>3, Listener
  <2>5. /\ UNCHANGED <<list, chains, timerOwners, result, mode>>
        /\ \E cancel \in BOOLEAN :
              stack' = Under([Top EXCEPT !.wait = FALSE,
                                         !.name = IF cancel THEN NoName ELSE next])
    BY <1>3, <2>1, <2>2 DEF ListenerReturns
  <2>6. PICK m \in Name \cup {NoName} :
            stack' = Under([Top EXCEPT !.wait = FALSE, !.name = m])
    <3>1. PICK cancel \in BOOLEAN :
              stack' = Under([Top EXCEPT !.wait = FALSE,
                                         !.name = IF cancel THEN NoName ELSE next])
      BY <2>5
    <3>2. CASE cancel
      BY <3>1, <3>2
    <3>3. CASE ~cancel
      BY <2>4, <3>1, <3>3
    <3> QED BY <3>2, <3>3
  <2>7. PICK f : f = [Top EXCEPT !.wait = FALSE, !.name = m]
    OBVIOUS
  <2>8. Top \in Frames /\ Len(stack) = 1
    BY <1>1, Innermost, AtBottom
  <2>9. f \in Frames
    BY <2>6, <2>7, <2>8, Changed
  <2>10. f.proc = Top.proc /\ f.done = Top.done /\ f.ret = Top.ret /\ f.ask = Top.ask
    BY <2>7, <2>8 DEF Frames
  <2>11. f.proc # "load" /\ stack' = Under(f)
    BY <1>1, <2>6, <2>7, <2>10
  <2> QED BY <1>1, <2>5, <2>8, <2>9, <2>10, <2>11, TopMoves
<1> QED BY <1>2, <1>3

\* An event has been fired.
LEMMA FireEndsIInv == IInv /\ FireEnds => IInv'
<1> SUFFICES ASSUME IInv, FireEnds PROVE IInv'
  OBVIOUS
<1>1. mode # "crashed" /\ stack # <<>> /\ Top.proc \in {"tel", "irc"}
  BY DEF FireEnds, Running
<1>2. CASE Top.proc = "tel" /\ Telnet \notin Loaded
  BY <1>2, CrashKeeps DEF FireEnds
<1>3. CASE ~(Top.proc = "tel" /\ Telnet \notin Loaded)
  <2>1. stack' = Front(stack) /\ UNCHANGED <<list, chains, timerOwners, result, mode>>
    BY <1>3 DEF FireEnds
  <2>2. mode \in {"starting", "running", "closing"}
    BY <1>1, Innermost
  <2> QED BY <1>1, <2>1, <2>2, BottomReturns
<1> QED BY <1>2, <1>3

\* main or the telnet service calls, with nothing else under way.
LEMMA Enters ==
    ASSUME IInv, Idle, NEW f \in Frames, f.proc \in {"dir", "close", "tel", "irc"}, f.done,
           f.proc = "tel" => f.ask \in Name, stack' = <<f>>,
           mode' \in {"running", "closing"}, UNCHANGED <<list, chains, timerOwners, result>>
    PROVE  IInv'
<1>1. stack = <<>> /\ mode = "running"
  BY DEF Idle
<1>2. /\ <<f>> \in Seq(Frames) /\ Len(<<f>>) = 1
      /\ Nested(<<f>>, Loaded, result)
      /\ Started(<<f>>, Loaded) = Loaded /\ Started(<<>>, Loaded) = Loaded
  BY First
<1>3. PICK t : t = <<f>>
  OBVIOUS
<1>4. /\ t \in Seq(Frames) /\ Len(t) = 1 /\ stack' = t
      /\ Nested(t, Loaded, result) /\ Started(t, Loaded) = Started(stack, Loaded)
  BY <1>1, <1>2, <1>3
<1>5. Loaded' = Loaded
  BY DEF Loaded
<1>6. Len(t) <= MaxDepth
  <2>1. MaxDepth \in Nat \ {0, 1}
    BY PluginsAssumption DEF PluginsAssumption
  <2>2. 1 <= MaxDepth
    BY ONLY <2>1
  <2> QED BY <1>4, <2>2
<1>7. Typed'
  BY <1>4, <1>6 DEF IInv, Typed
<1>8. Enlisted(chains, timerOwners, Started(stack, Loaded))
  BY <1>1 DEF IInv, Kept
<1>9. Enlisted(chains', timerOwners', Started(stack', Loaded'))
  BY <1>4, <1>5, <1>8
<1>10. Kept'
  BY <1>4, <1>5, <1>9 DEF Kept
<1> QED BY <1>7, <1>10 DEF IInv

\* A command comes in by telnet.
LEMMA TelnetCommandIInv ==
    ASSUME IInv, NEW op \in {"load", "unload"}, NEW n \in Asked, TelnetCommand(op, n)
    PROVE  IInv'
<1>1. PICK h : h = HeadOf("tel")
  OBVIOUS
<1>2. h \in Name \cup {NoName}
  BY <1>1, Listener
<1>3. PICK f : f = [Frame("tel", h) EXCEPT !.ret = op, !.ask = n]
  OBVIOUS
<1>4. Idle /\ stack' = <<f>> /\ UNCHANGED <<list, chains, timerOwners, result, mode>>
  BY <1>1, <1>3 DEF TelnetCommand
<1>5. n \in Name
  BY PluginsAssumption DEF PluginsAssumption
<1>6. f = [proc |-> "tel", name |-> h, at |-> 1, wait |-> FALSE, done |-> TRUE,
           ret |-> op, ask |-> n]
  BY <1>3 DEF Frame
<1>7. f \in Frames /\ f.proc = "tel" /\ f.done /\ f.ask \in Name
  BY <1>2, <1>5, <1>6 DEF Frames
<1>8. mode' \in {"running", "closing"}
  BY <1>4 DEF Idle
<1> QED BY <1>4, <1>7, <1>8, Enters

\* An event of IRC is fired.
LEMMA IrcEventIInv == IInv /\ IrcEvent => IInv'
<1> SUFFICES ASSUME IInv, IrcEvent PROVE IInv'
  OBVIOUS
<1>1. PICK h : h = HeadOf("irc")
  OBVIOUS
<1>2. h \in Name \cup {NoName}
  BY <1>1, Listener
<1>3. PICK f : f = Frame("irc", h)
  OBVIOUS
<1>4. Idle /\ stack' = <<f>> /\ UNCHANGED <<list, chains, timerOwners, result, mode>>
  BY <1>1, <1>3 DEF IrcEvent
<1>5. f \in Frames /\ f.proc = "irc" /\ f.done
  BY <1>2, <1>3 DEF Frame, Frames
<1>6. mode' \in {"running", "closing"}
  BY <1>4 DEF Idle
<1> QED BY <1>4, <1>5, <1>6, Enters

\* main calls plugins_close.
LEMMA QuitIInv == IInv /\ Quit => IInv'
<1> SUFFICES ASSUME IInv, Quit PROVE IInv'
  OBVIOUS
<1>1. PICK h : h = list.first
  OBVIOUS
<1>2. h \in Name \cup {NoName}
  <2>1. PICK o \in Seq(Name) : Linked(list, o)
    BY DEF IInv, Typed
  <2>2. Len(o) \in Nat /\ DOMAIN o = 1..Len(o) /\ \A i \in DOMAIN o : o[i] \in Name
    BY <2>1, LinkedFacts
  <2>3. h = IF Len(o) = 0 THEN NoName ELSE o[1]
    BY <1>1, <2>1 DEF Linked
  <2>4. Len(o) # 0 => 1 \in DOMAIN o
    BY <2>2
  <2> QED BY <2>2, <2>3, <2>4
<1>3. PICK f : f = Frame("close", h)
  OBVIOUS
<1>4. /\ Idle /\ stack' = <<f>> /\ mode' = "closing"
      /\ UNCHANGED <<list, chains, timerOwners, result>>
  BY <1>1, <1>3 DEF Quit
<1>5. f \in Frames /\ f.proc = "close" /\ f.done
  BY <1>2, <1>3 DEF Frame, Frames
<1> QED BY <1>4, <1>5, Enters

\* The timers are tested.
LEMMA TestTimersIInv == IInv /\ TestTimers => IInv'
<1> SUFFICES ASSUME IInv, TestTimers PROVE IInv'
  OBVIOUS
<1>1. CASE UNCHANGED vars
  BY <1>1 DEF vars, IInv, Typed, Kept, Loaded
<1>2. CASE Crash
  BY <1>2, CrashKeeps
<1> QED BY <1>1, <1>2 DEF TestTimers

\* After plugins_close.
LEMMA ShutdownIInv == IInv /\ Shutdown => IInv'
<1> SUFFICES ASSUME IInv, Shutdown PROVE IInv'
  OBVIOUS
<1>1. CASE ~(Range(chains.irc) \subseteq Loaded)
  BY <1>1, CrashKeeps DEF Shutdown
<1>2. CASE Range(chains.irc) \subseteq Loaded
  <2>1. /\ mode = "closed" /\ chains' = [tel |-> <<>>, irc |-> <<>>] /\ timerOwners' = <<>>
        /\ mode' = "ended" /\ UNCHANGED <<list, stack, result>>
    BY <1>2 DEF Shutdown
  <2>2. DOMAIN chains' = {"tel", "irc"} /\ chains'.tel = <<>> /\ chains'.irc = <<>>
    BY <2>1
  <2>3. <<>> \in Seq(Name)
    BY EmptySeq
  <2>4. Loaded' = Loaded /\ stack = <<>>
    BY <2>1 DEF Loaded, IInv, Kept
  <2>5. Typed'
    BY <2>1, <2>2, <2>3 DEF IInv, Typed
  <2>6. Nested(stack, Loaded, result)
    BY <2>1 DEF IInv, Kept
  <2>7. Kept'
    BY <2>1, <2>4, <2>6 DEF Kept
  <2> QED BY <2>5, <2>7 DEF IInv
<1> QED BY <1>1, <1>2

-----------------------------------------------------------------------------
(* The theorems.                                                           *)

\* Nothing is loaded when plugins_loaddir begins.
LEMMA InitIInv == Init => IInv
<1> SUFFICES ASSUME Init PROVE IInv
  OBVIOUS
<1>1. PICK f : f = Frame("dir", NoName)
  OBVIOUS
<1>2. /\ list = EmptyList /\ chains = [tel |-> <<>>, irc |-> <<>>] /\ timerOwners = <<>>
      /\ stack = <<f>> /\ result = "ok" /\ mode = "starting"
  BY <1>1 DEF Init
<1>3. f \in Frames /\ f.proc = "dir" /\ f.done
  BY <1>1 DEF Frame, Frames
<1>4. /\ <<f>> \in Seq(Frames) /\ Len(<<f>>) = 1
      /\ Nested(<<f>>, Loaded, result) /\ Started(<<f>>, Loaded) = Loaded
  BY <1>3, First
<1>5. Loaded = {}
  BY <1>2, EmptySeq DEF Loaded, EmptyList
<1>6. <<>> \in Seq(Name) /\ Len(<<>>) = 0 /\ DOMAIN <<>> = {}
  BY EmptySeq
<1>7. Linked(list, <<>>)
  <2>1. Range(<<>>) = {} /\ IsInjective(<<>>)
    BY <1>6 DEF Range, IsInjective
  <2>2. list.first = NoName /\ list.last = NoName /\ DOMAIN list.node = {}
    BY <1>2, <1>6 DEF EmptyList
  <2> QED BY <1>6, <2>1, <2>2 DEF Linked
<1>8. 1 <= MaxDepth
  <2>1. MaxDepth \in Nat \ {0, 1}
    BY PluginsAssumption DEF PluginsAssumption
  <2> QED BY ONLY <2>1
<1>9. DOMAIN chains = {"tel", "irc"} /\ chains.tel = <<>> /\ chains.irc = <<>>
  BY <1>2
<1>10. Typed
  BY <1>2, <1>4, <1>6, <1>7, <1>8, <1>9 DEF Typed
<1>11. \A R : Enrolled(<<>>, R, {})
  BY <1>6 DEF Enrolled, Range
<1>12. Enlisted(chains, timerOwners, Started(stack, Loaded))
  BY <1>2, <1>4, <1>5, <1>9, <1>11 DEF Enlisted
<1>13. Kept
  BY <1>2, <1>4, <1>12 DEF Kept
<1> QED BY <1>10, <1>13 DEF IInv

\* Every step keeps the invariant.
LEMMA NextIInv == IInv /\ [Next]_vars => IInv'
<1> SUFFICES ASSUME IInv, [Next]_vars PROVE IInv'
  OBVIOUS
<1>1. CASE LoadDir
  BY <1>1, LoadDirIInv
<1>2. CASE LoadDirEnds
  BY <1>2, LoadDirEndsIInv
<1>3. CASE LoadDep
  BY <1>3, LoadDepIInv
<1>4. CASE DepLoaded
  BY <1>4, DepLoadedIInv
<1>5. CASE LoadEnds
  BY <1>5, LoadEndsIInv
<1>6. CASE UnloadDep
  BY <1>6, UnloadDepIInv
<1>7. CASE UnloadEnds
  BY <1>7, UnloadEndsIInv
<1>8. CASE Close
  BY <1>8, CloseIInv
<1>9. CASE CloseEnds
  BY <1>9, CloseEndsIInv
<1>10. CASE CallListener
  BY <1>10, CallListenerIInv
<1>11. CASE ListenerReturns
  BY <1>11, ListenerReturnsIInv
<1>12. CASE FireEnds
  BY <1>12, FireEndsIInv
<1>13. CASE Shutdown
  BY <1>13, ShutdownIInv
<1>14. CASE IrcEvent
  BY <1>14, IrcEventIInv
<1>15. CASE TestTimers
  BY <1>15, TestTimersIInv
<1>16. CASE Quit
  BY <1>16, QuitIInv
<1>17. CASE \E op \in {"load", "unload"}, n \in Asked : TelnetCommand(op, n)
  BY <1>17, TelnetCommandIInv
<1>18. CASE UNCHANGED vars
  BY <1>18 DEF vars, IInv, Typed, Kept, Loaded
<1> QED BY <1>1, <1>2, <1>3, <1>4, <1>5, <1>6, <1>7, <1>8, <1>9, <1>10, <1>11, <1>12, <1>13,
           <1>14, <1>15, <1>16, <1>17, <1>18 DEF Next, Step

\* The invariant holds in every behaviour of the loader.
LEMMA SpecIInv == Spec => []IInv
BY InitIInv, NextIInv, PTL DEF Spec

\* The invariant implies that of the types.
LEMMA IInvTyped == IInv => TypeOK
<1> SUFFICES ASSUME IInv PROVE TypeOK
  OBVIOUS
<1>1. PICK o \in Seq(Name) : Linked(list, o)
  BY DEF IInv, Typed
<1>2. /\ Len(o) \in Nat /\ DOMAIN o = 1..Len(o)
      /\ \A i \in DOMAIN o : o[i] \in Name /\ o[i] \in Loaded
      /\ \A n \in Loaded : \E i \in DOMAIN o : n = o[i]
  BY <1>1, LinkedFacts DEF Loaded
<1>3. Loaded \subseteq Name
  BY <1>2
<1>4. {list.first, list.last} \subseteq Loaded \cup {NoName}
  <2>1. /\ list.first = IF Len(o) = 0 THEN NoName ELSE o[1]
        /\ list.last = IF Len(o) = 0 THEN NoName ELSE o[Len(o)]
    BY <1>1 DEF Linked
  <2>2. Len(o) # 0 => 1 \in DOMAIN o /\ Len(o) \in DOMAIN o
    BY <1>2
  <2> QED BY <1>2, <2>1, <2>2
<1>5. \A n \in Loaded : {list.node[n].prev, list.node[n].next} \subseteq Loaded \cup {NoName}
  <2> SUFFICES ASSUME NEW n \in Loaded
               PROVE  {list.node[n].prev, list.node[n].next} \subseteq Loaded \cup {NoName}
    OBVIOUS
  <2>1. PICK i \in DOMAIN o : n = o[i]
    BY <1>2
  <2>2. list.node[n] = [prev |-> IF i = 1 THEN NoName ELSE o[i - 1],
                        next |-> IF i = Len(o) THEN NoName ELSE o[i + 1]]
    BY <1>1, <2>1 DEF Linked
  <2>3. (i # 1 => i - 1 \in DOMAIN o) /\ (i # Len(o) => i + 1 \in DOMAIN o)
    BY <1>2, <2>1
  <2> QED BY <1>2, <2>2, <2>3
<1>6. /\ DOMAIN chains = {"tel", "irc"} /\ timerOwners \in Seq(Name)
      /\ \A e \in DOMAIN chains : chains[e] \in Seq(Name)
  BY DEF IInv, Typed
<1>7. Len(stack) <= MaxDepth /\ stack \in Seq(Frames)
  BY DEF IInv, Typed
<1>8. \A i \in DOMAIN stack :
          /\ stack[i].proc \in {"dir", "load", "unload", "close", "tel", "irc"}
          /\ stack[i].name \in Name \cup {NoName}
  <2>1. \A i \in DOMAIN stack : stack[i] \in Frames
    BY <1>7, LenProperties, ElementOfSeq
  <2> QED BY <2>1 DEF Frames
<1>9. mode \in {"starting", "running", "closing", "closed", "ended", "crashed"}
  BY DEF IInv, Typed
<1> QED BY <1>3, <1>4, <1>5, <1>6, <1>7, <1>8, <1>9 DEF TypeOK

\* plugins.c: the pointers of the list of plugins are to plugins of the list, and
\* the calls under way are those of the loader and its callers.
THEOREM LoaderTypes == Spec => []TypeOK
BY SpecIInv, IInvTyped, PTL

\* plugins.c: the list of plugins is one list, the same in both directions, at
\* every point of every load, failed load and unload, whatever depends on what.
THEOREM LoaderListSound == Spec => []ListSound
<1>1. IInv => ListSound
  <2> SUFFICES ASSUME IInv PROVE ListSound
    OBVIOUS
  <2>1. PICK o \in Seq(Name) : Linked(list, o)
    BY DEF IInv, Typed
  <2>2. TypeOK
    BY IInvTyped
  <2> QED BY <2>1, <2>2, LinkedSound
<1> QED BY <1>1, SpecIInv, PTL

\* plugins.c, events.c, timers.c: between two commands the listeners and the
\* timers are those of the plugins that are loaded, each once.
THEOREM LoaderRegistered == Spec => []Registered
<1>1. IInv => Registered
  <2> SUFFICES ASSUME IInv, Idle
               PROVE  /\ \A n \in Loaded :
                            /\ n \in TelListener => Once(chains.tel, n)
                            /\ n \in IrcListener => Once(chains.irc, n)
                            /\ n \in Timed => Once(timerOwners, n)
                      /\ Range(chains.tel) \cup Range(chains.irc) \cup Range(timerOwners)
                            \subseteq Loaded
    BY DEF Registered
  <2>1. Started(stack, Loaded) = Loaded
    BY EmptySeq DEF Idle, Started
  <2>2. Enlisted(chains, timerOwners, Loaded)
    BY <2>1 DEF IInv, Kept, Idle
  <2>3. Loaded \subseteq Name
    BY IInvTyped DEF TypeOK
  <2>4. ASSUME NEW q, NEW R, Enrolled(q, R, Loaded)
        PROVE  (\A n \in Loaded : n \in R => Once(q, n)) /\ Range(q) \subseteq Loaded
    <3>1. \A n \in Loaded : n \in R => Once(q, n)
      BY <2>3, <2>4 DEF Enrolled
    <3>2. ASSUME NEW n \in Range(q) PROVE n \in Loaded
      <4>1. q \in Seq(Name)
        BY <2>4 DEF Enrolled
      <4>2. n \in Name
        BY <3>2, <4>1, LenProperties, ElementOfSeq DEF Range
      <4> QED BY <2>4, <3>2, <4>2 DEF Enrolled
    <3> QED BY <3>1, <3>2
  <2> QED BY <2>2, <2>4 DEF Enlisted
<1> QED BY <1>1, SpecIInv, PTL

-----------------------------------------------------------------------------
(* A tidy directory.                                                       *)

Needs(n) == Range(Deps[n])

\* The plugins that are loaded when plugins_loaddir has come behind file k.
Fits(k) == {n \in Name : \E j \in 1..k : Dir[j] = n /\ Fit(n)}

\* The directory and the dependencies are sequences.
LEMMA Sequences ==
    /\ Dir \in Seq(Name) /\ Len(Dir) \in Nat /\ DOMAIN Dir = 1..Len(Dir)
    /\ \A j \in 1..Len(Dir) : Dir[j] \in Name /\ Dir[j] \in Range(Dir)
    /\ \A n \in Range(Dir) : n \in Name /\ \E j \in 1..Len(Dir) : n = Dir[j]
    /\ \A n \in Name : /\ Deps[n] \in Seq(Name) /\ Len(Deps[n]) \in Nat
                       /\ DOMAIN Deps[n] = 1..Len(Deps[n])
                       /\ \A j \in 1..Len(Deps[n]) : Deps[n][j] \in Name /\ Deps[n][j] \in Needs(n)
                       /\ \A d \in Needs(n) :
                             d \in Name /\ \E j \in 1..Len(Deps[n]) : d = Deps[n][j]
<1>1. ASSUME NEW s \in Seq(Name)
      PROVE  /\ Len(s) \in Nat /\ DOMAIN s = 1..Len(s)
             /\ \A j \in 1..Len(s) : s[j] \in Name /\ s[j] \in Range(s)
             /\ \A n \in Range(s) : n \in Name /\ \E j \in 1..Len(s) : n = s[j]
  <2>1. Len(s) \in Nat /\ DOMAIN s = 1..Len(s) /\ \A j \in 1..Len(s) : s[j] \in Name
    BY LenProperties, ElementOfSeq
  <2> QED BY <2>1 DEF Range
<1>2. Dir \in Seq(Name) /\ \A n \in Name : Deps[n] \in Seq(Name)
  BY PluginsAssumption DEF PluginsAssumption
<1> QED BY <1>1, <1>2 DEF Needs

\* The first of a sequence that passes.
LEMMA SelectedFirst ==
    ASSUME NEW s, Len(s) \in Nat, NEW T, NEW P \in SUBSET (1..Len(s)),
           \A i \in 1..Len(s) : i \in P <=> s[i] \in T, NEW k, k = IF P # {} THEN Min(P) ELSE 0
    PROVE  /\ k # 0 => k \in 1..Len(s) /\ s[k] \in T
           /\ \A j \in 1..Len(s) : s[j] \in T => k # 0 /\ k <= j
<1>1. P # {} => Min(P) \in P /\ \A j \in P : Min(P) <= j
  <2> SUFFICES ASSUME P # {} PROVE Min(P) \in P /\ \A j \in P : Min(P) <= j
    OBVIOUS
  <2>1. P \in SUBSET Nat
    OBVIOUS
  <2>2. \E i \in P : \A j \in P : i <= j
    BY <2>1, LeastPosition
  <2> QED BY <2>2 DEF Min
<1>2. P # {} => k \in P /\ \A j \in P : k <= j
  BY <1>1
<1>3. \A j \in P : j \in 1..Len(s) /\ s[j] \in T /\ j # 0
  OBVIOUS
<1> QED BY <1>2, <1>3

\* The file for a name is the first that begins with it.
LEMMA FileIs ==
    ASSUME NEW n
    PROVE  /\ File(n) # 0 => /\ File(n) \in 1..Len(Dir) /\ Dir[File(n)] \in StartsWith[n]
           /\ \A j \in 1..Len(Dir) : Dir[j] \in StartsWith[n] => File(n) # 0 /\ File(n) <= j
<1>1. Len(Dir) \in Nat
  BY Sequences
<1>2. PICK k : k = File(n)
  OBVIOUS
<1>4. PICK P : P = {i \in 1..Len(Dir) : Dir[i] \in StartsWith[n]}
  OBVIOUS
<1>5. k = IF P # {} THEN Min(P) ELSE 0
  BY <1>2, <1>4 DEF File, SelectInSeq
<1>6. P \in SUBSET (1..Len(Dir)) /\ \A i \in 1..Len(Dir) : i \in P <=> Dir[i] \in StartsWith[n]
  BY <1>4
<1> QED BY <1>1, <1>2, <1>5, <1>6, SelectedFirst

\* The plugin for a name is one of the list that begins with it.
LEMMA MatchingIs ==
    ASSUME IInv, NEW n
    PROVE  /\ Matching(n) # 0 => Walk[Matching(n)] \in Loaded /\ Walk[Matching(n)] \in StartsWith[n]
           /\ \A m \in Loaded : m \in StartsWith[n] => Matching(n) # 0
<1>1. PICK o \in Seq(Name) : Linked(list, o)
  BY DEF IInv, Typed
<1>2. Walk = o
  BY <1>1, WalkIs
<1>3. /\ Len(o) \in Nat /\ \A i \in 1..Len(o) : o[i] \in Loaded
      /\ \A m \in Loaded : \E i \in 1..Len(o) : m = o[i]
  BY <1>1, LinkedFacts DEF Loaded
<1>4. PICK k : k = Matching(n)
  OBVIOUS
<1>6. PICK P : P = {i \in 1..Len(Walk) : Walk[i] \in StartsWith[n]}
  OBVIOUS
<1>7. k = IF P # {} THEN Min(P) ELSE 0
  BY <1>4, <1>6 DEF Matching, SelectInSeq
<1>9. P \in SUBSET (1..Len(Walk)) /\ \A i \in 1..Len(Walk) : i \in P <=> Walk[i] \in StartsWith[n]
  BY <1>6
<1>8. /\ k # 0 => k \in 1..Len(Walk) /\ Walk[k] \in StartsWith[n]
      /\ \A j \in 1..Len(Walk) : Walk[j] \in StartsWith[n] => k # 0 /\ k <= j
  BY <1>2, <1>3, <1>7, <1>9, SelectedFirst
<1> QED BY <1>2, <1>3, <1>4, <1>8

\* What begins with a name of the directory is found in it.
LEMMA Filed ==
    ASSUME Tidy, NEW j \in 1..Len(Dir), NEW d, d = Dir[j]
    PROVE  File(d) # 0 /\ File(d) <= j
<1>1. d \in Range(Dir)
  BY Sequences
<1>2. d \in StartsWith[d]
  BY <1>1 DEF Tidy
<1> QED BY <1>2, FileIs

\* One more file of the directory.
LEMMA FitsGrow ==
    ASSUME NEW k \in Nat, k + 1 <= Len(Dir)
    PROVE  /\ Fit(Dir[k + 1]) => Fits(k + 1) = Fits(k) \cup {Dir[k + 1]}
           /\ ~Fit(Dir[k + 1]) => Fits(k + 1) = Fits(k)
<1>1. PICK m : m = Dir[k + 1]
  OBVIOUS
<1>2. m \in Name
  BY <1>1, Sequences
<1>3. \A j : j \in 1..k + 1 <=> j \in 1..k \/ j = k + 1
  OBVIOUS
<1>4. \A n \in Name : n \in Fits(k + 1) <=> n \in Fits(k) \/ (n = m /\ Fit(n))
  BY <1>1, <1>3 DEF Fits
<1>5. Fits(k + 1) \subseteq Name /\ Fits(k) \subseteq Name
  BY DEF Fits
<1>6. ASSUME Fit(m) PROVE Fits(k + 1) = Fits(k) \cup {m}
  BY <1>2, <1>4, <1>5, <1>6
<1>7. ASSUME ~Fit(m) PROVE Fits(k + 1) = Fits(k)
  BY <1>4, <1>5, <1>7
<1> QED BY <1>1, <1>6, <1>7

LEMMA NoFits == Fits(0) = {}
BY DEF Fits

\* A plugin that fits comes behind what it needs, all of which fits too.
LEMMA FitNeeds ==
    ASSUME Tidy, NEW k \in 1..Len(Dir), Fit(Dir[k]), NEW d \in Needs(Dir[k])
    PROVE  d \in Fits(k - 1) /\ Deps[d] = <<>> /\ d # Dir[k]
<1>1. PICK p : p = Dir[k]
  OBVIOUS
<1>2. p \in Name /\ k \in DOMAIN Dir /\ d \in Range(Deps[p]) /\ d \in Name
  BY <1>1, Sequences DEF Needs
<1>3. File(d) # 0 /\ d \notin Broken
  BY <1>1, <1>2 DEF Fit, Doomed
<1>4. Dir[File(d)] = d /\ Deps[d] = <<>> /\ File(d) < k
  BY <1>1, <1>2, <1>3 DEF Tidy
<1>5. File(d) \in 1..Len(Dir)
  BY <1>3, FileIs
<1>6. Range(Deps[d]) = {}
  BY <1>4, EmptySeq DEF Range
<1>7. Fit(d)
  BY <1>3, <1>6 DEF Fit, Doomed
<1>8. File(d) \in 1..k - 1
  BY <1>4, <1>5, Sequences
<1>9. d # p
  BY <1>2, <1>6
<1> QED BY <1>1, <1>2, <1>4, <1>7, <1>8, <1>9 DEF Fits

\* The plugins loaded from the directory are complete.
LEMMA FitsComplete ==
    ASSUME Tidy, NEW k \in Nat, k <= Len(Dir), NEW n \in Fits(k)
    PROVE  /\ n \in Range(Dir) /\ n \notin Broken /\ Fit(n)
           /\ Needs(n) \subseteq Fits(k)
<1>1. PICK j \in 1..k : Dir[j] = n /\ Fit(n)
  BY DEF Fits
<1>2. j \in 1..Len(Dir) /\ j \in Nat
  BY Sequences
<1>3. n \in Range(Dir)
  BY <1>1, <1>2, Sequences
<1>4. ASSUME NEW d \in Needs(n) PROVE d \in Fits(k)
  <2>1. d \in Fits(j - 1)
    BY <1>1, <1>2, <1>4, FitNeeds
  <2>2. \A i \in 1..j - 1 : i \in 1..k
    BY <1>2
  <2> QED BY <2>1, <2>2 DEF Fits
<1> QED BY <1>1, <1>3, <1>4 DEF Fit

\* What a plugin needs that cannot be loaded.
LEMMA DoomedNeeds ==
    ASSUME Tidy, NEW k \in 1..Len(Dir), NEW p, p = Dir[k], Doomed(p), p \notin Broken
    PROVE  /\ \A n : p \notin Fits(n)
           /\ \E d \in Needs(p) : d \notin Range(Dir) \ Broken
           /\ \A d \in Needs(p) :
                 /\ d # p
                 /\ File(d) # 0 => Dir[File(d)] = d /\ Deps[d] = <<>>
                 /\ File(d) # 0 /\ d \notin Broken =>
                      /\ d \notin Fits(k)
                      /\ \A m \in Fits(k) \cup {p} \cup Needs(p) : m \in StartsWith[d] => m = d
<1>1. p \in Name /\ p \in Range(Dir) /\ k \in DOMAIN Dir /\ Needs(p) = Range(Deps[p])
  BY Sequences DEF Needs
<1>2. ~Fit(p)
  BY DEF Fit
<1>3. \E d \in Needs(p) : d \notin Range(Dir) \ Broken
  <2>1. PICK d \in Needs(p) : File(d) = 0 \/ d \in Broken
    BY <1>1 DEF Doomed
  <2>2. d \in Range(Dir) => File(d) # 0
    BY Filed, Sequences
  <2> QED BY <2>1, <2>2
<1>4. ASSUME NEW d \in Needs(p), File(d) # 0 PROVE Dir[File(d)] = d /\ Deps[d] = <<>>
  BY <1>1, <1>4 DEF Tidy
<1>5. ASSUME NEW d \in Needs(p) PROVE d # p
  <2> SUFFICES ASSUME d = p PROVE FALSE
    OBVIOUS
  <2>1. File(p) # 0
    BY Filed
  <2>2. Deps[p] = <<>>
    BY <1>4, <1>5, <2>1
  <2> QED BY <1>1, <1>5, <2>2, EmptySeq DEF Range
<1>6. ASSUME NEW d \in Needs(p), File(d) # 0, d \notin Broken
      PROVE  /\ d \notin Fits(k)
             /\ \A m \in Fits(k) \cup {p} \cup Needs(p) : m \in StartsWith[d] => m = d
  <2>1. File(d) > k /\ StartsWith[d] \cap Needs(p) = {d}
    BY <1>1, <1>6 DEF Tidy
  <2>2. ASSUME NEW j \in 1..k PROVE Dir[j] \notin StartsWith[d]
    <3>1. j \in 1..Len(Dir) /\ ~(File(d) <= j)
      BY <1>6, <2>1, FileIs, Sequences
    <3> QED BY <3>1, FileIs
  <2>3. p \notin StartsWith[d] /\ \A m \in Fits(k) : m \notin StartsWith[d]
    BY <2>2, Sequences DEF Fits
  <2>4. d \in StartsWith[d]
    BY <2>1, <1>6
  <2> QED BY <2>1, <2>3, <2>4
<1>7. \A n : p \notin Fits(n)
  BY <1>2 DEF Fits
<1> QED BY <1>3, <1>4, <1>5, <1>6, <1>7

-----------------------------------------------------------------------------
(* The order of the list.                                                  *)

\* In the sequence o the plugins of S come behind what they need.
Sorted(o, S) == \A i, j \in DOMAIN o : o[i] \in S /\ o[j] \in Needs(o[i]) => j < i

OrderedIn(l, S) == \E o \in Seq(Name) : Linked(l, o) /\ Sorted(o, S)

\* A plugin that is put at the end, and that none of T needs.
LEMMA OrderedAppend ==
    ASSUME NEW l, NEW S, OrderedIn(l, S), NEW n \in Name \ DOMAIN l.node,
           NEW T, T \subseteq S \cup {n}, \A m \in T : n \notin Needs(m)
    PROVE  OrderedIn(Appended(l, n), T)
<1>1. PICK o \in Seq(Name) : Linked(l, o) /\ Sorted(o, S)
  BY DEF OrderedIn
<1>2. PICK k \in Nat : k = Len(o)
  BY <1>1, LinkedFacts
<1>3. DOMAIN o = 1..k /\ \A i \in 1..k : o[i] \in DOMAIN l.node
  BY <1>1, <1>2, LinkedFacts
<1>4. PICK p : p = Append(o, n)
  OBVIOUS
<1>5. /\ p \in Seq(Name) /\ Len(p) = k + 1 /\ p[k + 1] = n
      /\ \A i \in 1..k : p[i] = o[i]
  BY <1>2, <1>4, AppendProperties
<1>6. DOMAIN p = 1..k + 1
  BY <1>5, LenProperties
<1>7. Linked(Appended(l, n), p)
  BY <1>1, <1>4, AppendedLinked
<1>8. ASSUME NEW i \in 1..k + 1, NEW j \in 1..k + 1, p[i] \in T, p[j] \in Needs(p[i])
      PROVE  j < i
  <2>1. j # k + 1
    BY <1>5, <1>8
  <2>2. j \in 1..k
    BY <1>2, <2>1
  <2>3. CASE i = k + 1
    BY <1>2, <2>2, <2>3
  <2>4. CASE i # k + 1
    <3>1. i \in 1..k
      BY <1>2, <2>4
    <3>2. o[i] \in T /\ o[j] \in Needs(o[i]) /\ o[i] # n
      BY <1>3, <1>5, <1>8, <2>2, <3>1
    <3> QED BY <1>1, <1>3, <2>2, <3>1, <3>2 DEF Sorted
  <2> QED BY <2>3, <2>4
<1>9. Sorted(p, T)
  BY <1>6, <1>8 DEF Sorted
<1> QED BY <1>5, <1>7, <1>9 DEF OrderedIn

\* A plugin that is put at the end and goes again.
LEMMA OrderedDrop ==
    ASSUME NEW l, NEW S, OrderedIn(l, S), l.last # NoName, NEW n \in Name \ DOMAIN l.node,
           NEW d, d = Dropped(Appended(l, n), n)
    PROVE  OrderedIn(d, S) /\ DOMAIN d.node = DOMAIN l.node
<1>1. PICK o \in Seq(Name) : Linked(l, o) /\ Sorted(o, S)
  BY DEF OrderedIn
<1>2. Linked(d, o)
  BY <1>1, DroppedLinked
<1>3. DOMAIN d.node = DOMAIN l.node
  BY <1>1, <1>2 DEF Linked
<1> QED BY <1>1, <1>2, <1>3 DEF OrderedIn

\* A plugin that is taken out.
LEMMA OrderedUnlink ==
    ASSUME NEW l, NEW S, OrderedIn(l, S), NEW n \in DOMAIN l.node, NEW T, T \subseteq S
    PROVE  OrderedIn(Unlinked(l, n), T)
<1>1. PICK o \in Seq(Name) : Linked(l, o) /\ Sorted(o, S)
  BY DEF OrderedIn
<1>2. Len(o) \in Nat /\ DOMAIN o = 1..Len(o)
  BY <1>1, LinkedFacts
<1>3. PICK k \in 1..Len(o) : n = o[k]
  BY <1>1, <1>2, LinkedFacts
<1>4. PICK p : p = RemoveAt(o, k)
  OBVIOUS
<1>5. PICK h \in Nat : h = Len(o)
  BY <1>2
<1>6. /\ p \in Seq(Name) /\ Len(p) = h - 1
      /\ \A i \in 1..h - 1 : p[i] = IF i < k THEN o[i] ELSE o[i + 1]
  BY <1>3, <1>4, <1>5, RemoveAtPositions
<1>7. DOMAIN p = 1..h - 1
  BY <1>6, LenProperties
<1>8. Linked(Unlinked(l, n), p)
  BY <1>1, <1>2, <1>3, <1>4, UnlinkedLinked
<1>9. ASSUME NEW i \in 1..h - 1, NEW j \in 1..h - 1, p[i] \in T, p[j] \in Needs(p[i])
      PROVE  j < i
  <2>1. PICK a : a = IF i < k THEN i ELSE i + 1
    OBVIOUS
  <2>2. PICK b : b = IF j < k THEN j ELSE j + 1
    OBVIOUS
  <2>3. p[i] = o[a] /\ p[j] = o[b]
    BY <1>6, <2>1, <2>2
  <2>4. a \in 1..h /\ b \in 1..h
    BY <1>5, <2>1, <2>2
  <2>5. b < a
    BY <1>1, <1>2, <1>5, <1>9, <2>3, <2>4 DEF Sorted
  <2>6. k \in Int /\ i \in Int /\ j \in Int
    BY <1>2, <1>3, <1>5
  <2> QED BY ONLY <2>1, <2>2, <2>5, <2>6
<1>10. Sorted(p, T)
  BY <1>7, <1>9 DEF Sorted
<1> QED BY <1>6, <1>8, <1>10 DEF OrderedIn

\* Nothing is there of what the first plugin of the list needs.
LEMMA FirstFree ==
    ASSUME NEW l, OrderedIn(l, DOMAIN l.node), l.first # NoName
    PROVE  /\ l.first \in DOMAIN l.node /\ l.first \in Name
           /\ \A d \in Needs(l.first) : d \notin DOMAIN l.node
           /\ Unlinked(l, l.first).first = l.node[l.first].next
<1>1. PICK o \in Seq(Name) : Linked(l, o) /\ Sorted(o, DOMAIN l.node)
  BY DEF OrderedIn
<1>2. /\ Len(o) \in Nat /\ DOMAIN o = 1..Len(o) /\ Len(o) # 0
      /\ \A i \in DOMAIN o : o[i] \in Name /\ o[i] \in DOMAIN l.node
      /\ \A n \in DOMAIN l.node : \E i \in DOMAIN o : n = o[i]
  BY <1>1, LinkedFacts
<1>3. 1 \in DOMAIN o
  BY <1>2
<1>4. PICK f : f = l.first
  OBVIOUS
<1>5. f = o[1]
  BY <1>1, <1>2, <1>4 DEF Linked
<1>6. f \in DOMAIN l.node /\ f \in Name
  BY <1>2, <1>3, <1>5
<1>7. ASSUME NEW d \in Needs(f), d \in DOMAIN l.node PROVE FALSE
  <2>1. PICK j \in DOMAIN o : d = o[j]
    BY <1>2, <1>7
  <2>2. j < 1
    BY <1>1, <1>3, <1>5, <1>6, <1>7, <2>1 DEF Sorted
  <2> QED BY <1>2, <2>1, <2>2
<1>8. l.node[f].prev = NoName
  <2>1. l.node[o[1]] = [prev |-> IF 1 = 1 THEN NoName ELSE o[1 - 1],
                        next |-> IF 1 = Len(o) THEN NoName ELSE o[1 + 1]]
    BY <1>1, <1>3 DEF Linked
  <2> QED BY <1>5, <2>1
<1>9. Unlinked(l, f).first = l.node[f].next
  BY <1>8 DEF Unlinked
<1> QED BY <1>4, <1>6, <1>7, <1>9

\* The list is empty when it has no last plugin.
LEMMA LastOfSome ==
    ASSUME NEW l, NEW S, OrderedIn(l, S), NEW n \in DOMAIN l.node
    PROVE  l.last # NoName
<1>1. PICK o \in Seq(Name) : Linked(l, o)
  BY DEF OrderedIn
<1>2. /\ Len(o) \in Nat /\ DOMAIN o = 1..Len(o)
      /\ \E i \in DOMAIN o : n = o[i]
      /\ l.last = NoName <=> Len(o) = 0
  BY <1>1, LinkedFacts
<1> QED BY <1>2

-----------------------------------------------------------------------------
(* The calls and their frames.                                             *)

\* The fields of the frames that calls become.
LEMMA FrameFields ==
    ASSUME NEW f \in Frames
    PROVE  /\ LET g == [f EXCEPT !.at = @ + 1]
              IN  /\ g.proc = f.proc /\ g.name = f.name /\ g.at = f.at + 1 /\ g.wait = f.wait
                  /\ g.done = f.done /\ g.ret = f.ret /\ g.ask = f.ask
           /\ LET g == [f EXCEPT !.wait = TRUE]
              IN  /\ g.proc = f.proc /\ g.name = f.name /\ g.at = f.at /\ g.wait
                  /\ g.done = f.done /\ g.ret = f.ret /\ g.ask = f.ask
           /\ LET g == [f EXCEPT !.at = @ + 1, !.wait = FALSE]
              IN  /\ g.proc = f.proc /\ g.name = f.name /\ g.at = f.at + 1 /\ ~g.wait
                  /\ g.done = f.done /\ g.ret = f.ret /\ g.ask = f.ask
           /\ \A m : LET g == [f EXCEPT !.name = m]
                     IN  /\ g.proc = f.proc /\ g.name = m /\ g.at = f.at /\ g.wait = f.wait
                         /\ g.done = f.done /\ g.ret = f.ret /\ g.ask = f.ask
           /\ \A m : LET g == [f EXCEPT !.wait = FALSE, !.name = m]
                     IN  /\ g.proc = f.proc /\ g.name = m /\ g.at = f.at /\ ~g.wait
                         /\ g.done = f.done /\ g.ret = f.ret /\ g.ask = f.ask
BY DEF Frames

\* A new frame.
LEMMA NewFrame ==
    ASSUME NEW n \in Name \cup {NoName}, NEW proc \in {"dir", "load", "unload", "close", "tel", "irc"}
    PROVE  /\ Frame(proc, n) \in Frames
           /\ LET g == Frame(proc, n)
              IN  g.proc = proc /\ g.name = n /\ g.at = 1 /\ ~g.wait /\ g.done
<1>1. PICK g : g = Frame(proc, n)
  OBVIOUS
<1>2. g = [proc |-> proc, name |-> n, at |-> 1, wait |-> FALSE, done |-> TRUE,
           ret |-> "ok", ask |-> NoName]
  BY <1>1 DEF Frame
<1>3. g \in Frames
  BY <1>2 DEF Frames
<1>4. g.proc = proc /\ g.name = n /\ g.at = 1 /\ ~g.wait /\ g.done
  BY <1>2
<1> QED BY <1>1, <1>3, <1>4

\* The innermost call goes on as f, and perhaps calls g.
LEMMA CallsLaid ==
    ASSUME IInv, mode # "crashed", stack # <<>>, NEW f \in Frames, NEW g \in Frames,
           NEW k, k = Len(stack)
    PROVE  /\ k \in Nat \ {0} /\ k <= MaxDepth /\ Top = stack[k] /\ Top \in Frames
           /\ \A i \in 1..k : stack[i] \in Frames
           /\ Len(Under(f)) = k /\ Under(f)[k] = f
           /\ \A i \in 1..k - 1 : Under(f)[i] = stack[i]
           /\ Len(Append(Under(f), g)) = k + 1 /\ Append(Under(f), g)[k] = f
           /\ Append(Under(f), g)[k + 1] = g
           /\ \A i \in 1..k - 1 : Append(Under(f), g)[i] = stack[i]
           /\ Len(Front(stack)) = k - 1
           /\ \A i \in 1..k - 1 : Front(stack)[i] = stack[i]
           /\ k = 1 => Front(stack) = <<>>
<1>1. /\ k \in Nat \ {0} /\ k <= MaxDepth /\ Top = stack[k] /\ Top \in Frames
      /\ stack \in Seq(Frames)
  BY Innermost
<1>2. PICK t : t = Under(f)
  OBVIOUS
<1>3. t \in Seq(Frames) /\ Len(t) = k /\ t[k] = f /\ \A i \in 1..k - 1 : t[i] = stack[i]
  BY <1>1, <1>2, Relaid DEF Under
<1>4. PICK u : u = Append(t, g)
  OBVIOUS
<1>5. Len(u) = k + 1 /\ u[k + 1] = g /\ \A i \in 1..k : u[i] = t[i]
  BY <1>3, <1>4, AppendProperties
<1>6. k \in 1..k /\ \A i \in 1..k - 1 : i \in 1..k
  BY <1>1
<1>7. u[k] = f /\ \A i \in 1..k - 1 : u[i] = stack[i]
  BY <1>3, <1>5, <1>6
<1>8. /\ Front(stack) \in Seq(Frames) /\ Len(Front(stack)) = k - 1
      /\ \A i \in 1..k - 1 : Front(stack)[i] = stack[i]
  BY <1>1, FrontOf
<1>9. k = 1 => Front(stack) = <<>>
  BY <1>8, EmptySeq
<1>10. \A i \in 1..k : stack[i] \in Frames
  BY <1>1, ElementOfSeq
<1> QED BY <1>1, <1>2, <1>3, <1>4, <1>5, <1>7, <1>8, <1>9, <1>10

LEMMA TwoCalls ==
    ASSUME IInv, mode # "crashed", Len(stack) = 2, NEW f \in Frames
    PROVE  /\ Len(Under(f)) = 2 /\ Under(f)[1] = stack[1] /\ Under(f)[2] = f
           /\ \A g \in Frames :
                 /\ Len(Append(Under(f), g)) = 3 /\ Append(Under(f), g)[1] = stack[1]
                 /\ Append(Under(f), g)[2] = f /\ Append(Under(f), g)[3] = g
           /\ Len(Front(stack)) = 1 /\ Front(stack)[1] = stack[1]
<1>0. stack # <<>>
  BY EmptySeq
<1>1. PICK k : k = Len(stack)
  OBVIOUS
<1>2. ASSUME NEW g \in Frames
      PROVE  /\ Len(Under(f)) = k /\ Under(f)[k] = f
             /\ \A i \in 1..k - 1 : Under(f)[i] = stack[i]
             /\ Len(Append(Under(f), g)) = k + 1 /\ Append(Under(f), g)[k] = f
             /\ Append(Under(f), g)[k + 1] = g
             /\ \A i \in 1..k - 1 : Append(Under(f), g)[i] = stack[i]
             /\ Len(Front(stack)) = k - 1
             /\ \A i \in 1..k - 1 : Front(stack)[i] = stack[i]
  <2>1. Len(Under(f)) = k /\ Under(f)[k] = f
    BY <1>0, <1>1, CallsLaid
  <2>2. \A i \in 1..k - 1 : Under(f)[i] = stack[i]
    BY <1>0, <1>1, CallsLaid
  <2>3. Len(Append(Under(f), g)) = k + 1 /\ Append(Under(f), g)[k] = f
    BY <1>0, <1>1, CallsLaid
  <2>4. Append(Under(f), g)[k + 1] = g
    BY <1>0, <1>1, CallsLaid
  <2>5. \A i \in 1..k - 1 : Append(Under(f), g)[i] = stack[i]
    BY <1>0, <1>1, CallsLaid
  <2>6. Len(Front(stack)) = k - 1 /\ \A i \in 1..k - 1 : Front(stack)[i] = stack[i]
    BY <1>0, <1>1, CallsLaid
  <2> QED BY ONLY <2>1, <2>2, <2>3, <2>4, <2>5, <2>6
<1>3. k = 2 /\ 1 \in 1..k - 1 /\ k - 1 = 1 /\ k + 1 = 3
  BY <1>1
<1>4. f \in Frames
  OBVIOUS
<1> QED BY ONLY <1>2, <1>3, <1>4

LEMMA ThreeCalls ==
    ASSUME IInv, mode # "crashed", Len(stack) = 3
    PROVE  /\ Len(Front(stack)) = 2 /\ Front(stack)[1] = stack[1] /\ Front(stack)[2] = stack[2]
<1>0. stack # <<>>
  BY EmptySeq
<1>1. PICK k : k = Len(stack)
  OBVIOUS
<1>2. PICK f \in Frames : f = Top
  BY <1>0, Innermost
<1>3. /\ Len(Front(stack)) = k - 1
      /\ \A i \in 1..k - 1 : Front(stack)[i] = stack[i]
  BY <1>0, <1>1, <1>2, CallsLaid
<1>4. k = 3 /\ 1 \in 1..k - 1 /\ 2 \in 1..k - 1 /\ k - 1 = 2
  BY <1>1
<1> QED BY ONLY <1>3, <1>4

-----------------------------------------------------------------------------
(* What the calls under way are in a tidy directory.                       *)

\* Of what p needs, all before place i is loaded, or nothing is.
Met(p, i, L) == \A j \in DOMAIN Deps[p] : j < i => Deps[p][j] \in L

Shed(p, i, L) == \A j \in DOMAIN Deps[p] : j < i => Deps[p][j] \notin L

\* A plugin that fits is loaded: what it needs is there.
Hopeful(k, p, s, L) ==
    Fit(p) /\ Len(s) = 2 /\ s[2].proc = "load" /\ ~s[2].wait /\ L = Fits(k)

\* One that does not fit loads what it needs, and meets what is missing.
Trying(p, s, r, L) ==
    /\ s[2].proc = "load" /\ Met(p, s[2].at, L)
    /\ s[2].wait => s[2].at \in DOMAIN Deps[p]
    /\ Len(s) = 2 /\ s[2].wait /\ r = "ok" => Deps[p][s[2].at] \in L
    /\ Len(s) = 3 => /\ s[2].wait /\ s[3].proc = "load" /\ ~s[3].wait
                     /\ s[3].name = Deps[p][s[2].at] /\ s[3].name \in L

\* It is given up, and takes along what it has loaded.
Dropping(p, s, L) ==
    /\ s[2].proc = "unload"
    /\ Len(s) = 2 => Shed(p, s[2].at, L)
    /\ Len(s) = 3 => /\ s[3].proc = "unload" /\ s[3].name \in L
                     /\ s[2].at - 1 \in DOMAIN Deps[p] /\ s[3].name = Deps[p][s[2].at - 1]
                     /\ Shed(p, s[2].at - 1, L)

\* File k of the directory, the plugin p, is loaded or given up.
Upon(k, p, s, r, L) ==
    /\ p \in L /\ Fits(k) \subseteq L
    /\ \/ Hopeful(k, p, s, L)
       \/ /\ Doomed(p) /\ p \notin Broken /\ L \subseteq Fits(k) \cup {p} \cup Needs(p)
          /\ Trying(p, s, r, L) \/ Dropping(p, s, L)

\* plugins_loaddir: the calls s, the last result r, the plugins L of the list.
Loading(s, r, L) ==
    /\ Len(s) \in 1..3 /\ s[1].proc = "dir" /\ s[1].at <= Len(Dir) + 1
    /\ Len(s) = 1 => L = Fits(s[1].at - 1)
    /\ Len(s) > 1 => /\ s[1].at > 1 /\ s[2].name = Dir[s[1].at - 1]
                     /\ Upon(s[1].at - 1, s[2].name, s, r, L)

\* The main loop: the listener that is called is there, and a command loads or
\* unloads a plugin that nobody needs.
Serving(s, L) ==
    /\ \A n \in L : Needs(n) \subseteq L
    /\ Len(s) \in 0..2
    /\ Len(s) > 0 =>
          /\ \/ s[1].proc = "irc" /\ (s[1].name # NoName => s[1].name \in IrcListener)
             \/ /\ s[1].proc = "tel" /\ (s[1].name # NoName => s[1].name \in TelListener)
                /\ Telnet \in L /\ s[1].ask \in Asked
          /\ s[1].name # NoName => s[1].name \in L
    /\ Len(s) = 2 =>
          /\ s[1].proc = "tel" /\ s[1].name = Commander
          /\ s[2].proc \in {"load", "unload"} /\ ~s[2].wait
          /\ Apart(s[2].name) /\ s[2].name \in L

\* plugins_close: the first plugin is the next, or is being unloaded.
Closing(s, l) ==
    /\ Len(s) \in 1..2 /\ s[1].proc = "close"
    /\ Len(s) = 1 => s[1].name = l.first
    /\ Len(s) = 2 => /\ s[2].proc = "unload" /\ l.first # NoName /\ s[2].name = l.first
                     /\ s[1].name = l.node[l.first].next

Tame(l, s, r, m) ==
    /\ m # "crashed"
    /\ DOMAIN l.node \subseteq Range(Dir) \ Broken
    /\ m = "starting" => Loading(s, r, DOMAIN l.node) /\ OrderedIn(l, Fits(s[1].at - 1))
    /\ m = "running" => Serving(s, DOMAIN l.node) /\ OrderedIn(l, DOMAIN l.node)
    /\ m = "closing" => Closing(s, l) /\ OrderedIn(l, DOMAIN l.node)

TInv == IInv /\ Tame(list, stack, result, mode)

-----------------------------------------------------------------------------
(* The steps.                                                              *)

\* A call of plugins_loadplugin that cannot crash.
LEMMA LoadPluginDoes ==
    ASSUME mode # "crashed", NEW n \in Name, NEW f, LoadPlugin(n, f), n \notin Invalid,
           n \in Broken => list.last # NoName, Len(stack) # MaxDepth
    PROVE  /\ mode' = mode
           /\ n \in Loaded => stack' = Under(f) /\ result' # "ok" /\ list' = list
           /\ n \notin Loaded /\ n \in Broken =>
                 stack' = Under(f) /\ result' # "ok" /\ list' = Dropped(Appended(list, n), n)
           /\ n \notin Loaded \cup Broken =>
                 /\ stack' = Append(Under(f), Frame("load", n)) /\ result' = result
                 /\ list' = Appended(list, n) /\ Loaded' = Loaded \cup {n}
<1>1. CASE n \in Loaded
  <2>1. UNCHANGED <<list, mode>> /\ stack' = Under(f) /\ result' = "already loaded"
    BY <1>1 DEF LoadPlugin
  <2> QED BY <1>1, <2>1
<1>2. CASE n \notin Loaded /\ n \in Broken
  <2>1. /\ list' = Dropped(Appended(list, n), n)
        /\ result' = "dl error" /\ stack' = Under(f) /\ mode' = mode
    BY <1>2 DEF LoadPlugin
  <2> QED BY <1>2, <2>1
<1>3. CASE n \notin Loaded \cup Broken
  <2>1. /\ list' = Appended(list, n)
        /\ stack' = Append(Under(f), Frame("load", n)) /\ mode' = mode /\ result' = result
    BY <1>3 DEF LoadPlugin
  <2>2. Loaded' = Loaded \cup {n}
    BY <2>1 DEF Loaded, Appended
  <2> QED BY <1>3, <2>1, <2>2
<1> QED BY <1>1, <1>2, <1>3

\* What main does tells who is called.
LEMMA Doing ==
    ASSUME TInv, stack # <<>>
    PROVE  /\ Len(stack) \in 1..3 /\ Top = stack[Len(stack)]
           /\ stack[1] \in Frames /\ stack[1].at \in Nat \ {0}
           /\ Len(stack) > 1 => stack[2] \in Frames /\ stack[2].at \in Nat \ {0}
           /\ Len(stack) > 2 => stack[3] \in Frames /\ stack[3].at \in Nat \ {0}
           /\ \/ mode = "starting" /\ stack[1].proc = "dir"
              \/ mode = "running" /\ stack[1].proc \in {"tel", "irc"}
              \/ mode = "closing" /\ stack[1].proc = "close"
           /\ Len(stack) = 1 <=> Top.proc \notin {"load", "unload"}
           /\ Loaded \subseteq Name
<1>1. IInv /\ mode # "crashed"
  BY DEF TInv, Tame
<1>2. PICK k \in Nat \ {0} : k = Len(stack)
  BY <1>1, Innermost
<1>3. PICK m : m = mode
  OBVIOUS
<1>4. /\ Top = stack[k] /\ \A i \in 1..k : stack[i] \in Frames
      /\ m \in {"starting", "running", "closing"}
      /\ \A i \in 1..k : stack[i].proc \in {"load", "unload"} <=> i > 1
  <2>1. /\ Top = stack[k] /\ m \in {"starting", "running", "closing"}
        /\ stack \in Seq(Frames) /\ DOMAIN stack = 1..k
        /\ Nested(stack, Loaded, result)
    BY <1>1, <1>2, <1>3, Innermost
  <2>2. \A i \in 1..k : stack[i] \in Frames
    BY <1>2, <2>1, ElementOfSeq
  <2> QED BY <2>1, <2>2 DEF Nested
<1>5. /\ m = "starting" => k \in 1..3 /\ stack[1].proc = "dir"
      /\ m = "running" => k \in 1..2 /\ stack[1].proc \in {"tel", "irc"}
      /\ m = "closing" => k \in 1..2 /\ stack[1].proc = "close"
  <2>1. m = "starting" => k \in 1..3 /\ stack[1].proc = "dir"
    BY <1>2, <1>3 DEF TInv, Tame, Loading
  <2>2. m = "running" => k \in 1..2 /\ stack[1].proc \in {"tel", "irc"}
    BY <1>2, <1>3 DEF TInv, Tame, Serving
  <2>3. m = "closing" => k \in 1..2 /\ stack[1].proc = "close"
    BY <1>2, <1>3 DEF TInv, Tame, Closing
  <2> QED BY <2>1, <2>2, <2>3
<1>6. k \in 1..3
  BY <1>4, <1>5
<1>7. \A f \in Frames : f.at \in Nat \ {0}
  BY DEF Frames
<1>8. k = 1 <=> Top.proc \notin {"load", "unload"}
  BY <1>2, <1>4
<1>9. Loaded \subseteq Name
  BY <1>1, IInvTyped DEF TypeOK
<1>10. 1 \in 1..k /\ (k > 1 => 2 \in 1..k) /\ (k > 2 => 3 \in 1..k)
  BY <1>2
<1>11. /\ stack[1] \in Frames /\ stack[1].at \in Nat \ {0}
       /\ k > 1 => stack[2] \in Frames /\ stack[2].at \in Nat \ {0}
       /\ k > 2 => stack[3] \in Frames /\ stack[3].at \in Nat \ {0}
  BY <1>4, <1>7, <1>10
<1>12. \/ m = "starting" /\ stack[1].proc = "dir"
       \/ m = "running" /\ stack[1].proc \in {"tel", "irc"}
       \/ m = "closing" /\ stack[1].proc = "close"
  BY <1>4, <1>5
<1>13. Len(stack) \in 1..3 /\ Top = stack[Len(stack)]
  BY ONLY <1>2, <1>4, <1>6
<1>14. Len(stack) = 1 <=> Top.proc \notin {"load", "unload"}
  BY ONLY <1>2, <1>8
<1>15. /\ stack[1] \in Frames /\ stack[1].at \in Nat \ {0}
       /\ Len(stack) > 1 => stack[2] \in Frames /\ stack[2].at \in Nat \ {0}
       /\ Len(stack) > 2 => stack[3] \in Frames /\ stack[3].at \in Nat \ {0}
  BY ONLY <1>2, <1>11
<1>16. \/ mode = "starting" /\ stack[1].proc = "dir"
       \/ mode = "running" /\ stack[1].proc \in {"tel", "irc"}
       \/ mode = "closing" /\ stack[1].proc = "close"
  BY ONLY <1>3, <1>12
<1> QED BY ONLY <1>9, <1>13, <1>14, <1>15, <1>16

\* While main starts, the calls above the directory are about one file.
LEMMA OnFile ==
    ASSUME TInv, mode = "starting", stack # <<>>, NEW h, h = Len(stack), NEW k, k = stack[1].at - 1
    PROVE  /\ k \in Nat /\ k <= Len(Dir) /\ OrderedIn(list, Fits(k))
           /\ Loaded \subseteq Range(Dir) \ Broken
           /\ h = 1 => Loaded = Fits(k)
           /\ h > 1 => /\ k \in 1..Len(Dir) /\ stack[2].name = Dir[k] /\ Dir[k] \in Name
                       /\ Upon(k, Dir[k], stack, result, Loaded)
<1>1. stack[1].at \in Nat \ {0} /\ Len(Dir) \in Nat
  BY Doing, Sequences
<1>2. Loading(stack, result, Loaded) /\ OrderedIn(list, Fits(k)) /\ Loaded \subseteq Range(Dir) \ Broken
  BY DEF TInv, Tame, Loaded
<1>3. /\ k \in Nat /\ k <= Len(Dir)
      /\ h = 1 => Loaded = Fits(k)
      /\ h > 1 => k > 0 /\ stack[2].name = Dir[k] /\ Upon(k, Dir[k], stack, result, Loaded)
  BY <1>1, <1>2 DEF Loading
<1>4. h > 1 => k \in 1..Len(Dir)
  BY <1>1, <1>3
<1> QED BY <1>2, <1>3, <1>4, Sequences

\* It stays about that file.
LEMMA OnFileStill ==
    ASSUME TInv, mode = "starting", stack # <<>>, Len(stack) > 1,
           NEW k, k = stack[1].at - 1, NEW t, Len(t) \in 2..3, t[1] = stack[1], t[2].name = Dir[k],
           NEW r, NEW l, DOMAIN l.node \subseteq Range(Dir) \ Broken,
           Upon(k, Dir[k], t, r, DOMAIN l.node), OrderedIn(l, Fits(k))
    PROVE  Tame(l, t, r, "starting")
<1>1. k \in 1..Len(Dir) /\ Len(Dir) \in Nat /\ stack[1].at \in Nat
  BY OnFile, Sequences, Doing
<1>2. PICK L : L = DOMAIN l.node
  OBVIOUS
<1>3. t[1].at = k + 1 /\ t[1].at - 1 = k
  BY <1>1
<1>4. Loading(t, r, L)
  <2>1. t[1].proc = "dir"
    BY Doing
  <2>2. t[1].at <= Len(Dir) + 1 /\ t[1].at > 1
    BY <1>1, <1>3
  <2>3. Len(t) \in 1..3 /\ Len(t) # 1
    OBVIOUS
  <2> QED BY <1>2, <1>3, <2>1, <2>2, <2>3 DEF Loading
<1> QED BY <1>2, <1>3, <1>4 DEF Tame

\* It is done with that file.
LEMMA OnFileDone ==
    ASSUME NEW t, Len(t) = 1, t[1].proc = "dir", NEW k \in Nat, t[1].at = k + 1, k <= Len(Dir),
           NEW r, NEW l, DOMAIN l.node = Fits(k), DOMAIN l.node \subseteq Range(Dir) \ Broken,
           OrderedIn(l, Fits(k))
    PROVE  Tame(l, t, r, "starting")
<1>1. Len(Dir) \in Nat
  BY Sequences
<1>2. t[1].at - 1 = k /\ t[1].at <= Len(Dir) + 1
  BY <1>1
<1>3. PICK L : L = DOMAIN l.node
  OBVIOUS
<1>4. Loading(t, r, L)
  BY <1>2, <1>3 DEF Loading
<1> QED BY <1>2, <1>3, <1>4 DEF Tame

\* The list stays, or a plugin is put at its end and goes again.
LEMMA ListStays ==
    ASSUME NEW S, OrderedIn(list, S), NEW n \in Name,
           list' = list \/ (n \notin Loaded /\ list.last # NoName
                            /\ list' = Dropped(Appended(list, n), n))
    PROVE  OrderedIn(list', S) /\ DOMAIN list'.node = Loaded
<1>1. CASE list' = list
  BY <1>1 DEF Loaded
<1>2. CASE /\ n \notin Loaded /\ list.last # NoName
           /\ list' = Dropped(Appended(list, n), n)
  <2>1. PICK d : d = list'
    OBVIOUS
  <2>2. d = Dropped(Appended(list, n), n) /\ n \in Name \ DOMAIN list.node
    BY <1>2, <2>1 DEF Loaded
  <2>3. OrderedIn(d, S) /\ DOMAIN d.node = DOMAIN list.node
    BY <1>2, <2>2, OrderedDrop
  <2> QED BY <2>1, <2>3 DEF Loaded
<1> QED BY <1>1, <1>2

\* plugins_loaddir comes to file k + 1.
LEMMA LoadDirTame == ASSUME Tidy, TInv, LoadDir PROVE Tame(list', stack', result', mode')
<1>1. stack # <<>> /\ mode # "crashed" /\ Top.proc = "dir" /\ Top.at <= Len(Dir) /\ IInv
  BY DEF LoadDir, Running, TInv
<1>2. /\ Len(stack) = 1 /\ Top = stack[1] /\ Top \in Frames /\ mode = "starting"
      /\ Top.at \in Nat \ {0}
  BY <1>1, Doing
<1>3. PICK k \in Nat : k = Top.at - 1
  BY <1>2
<1>4. /\ k <= Len(Dir) /\ OrderedIn(list, Fits(k)) /\ Loaded = Fits(k)
      /\ Loaded \subseteq Range(Dir) \ Broken
  BY <1>1, <1>2, <1>3, OnFile
<1>5. Len(Dir) \in Nat /\ k + 1 = Top.at /\ k + 1 \in 1..Len(Dir) /\ k + 1 <= Len(Dir)
  BY <1>1, <1>2, <1>3, Sequences
<1>6. PICK n : n = Dir[k + 1]
  OBVIOUS
<1>7. n \in Name /\ n \in Range(Dir)
  BY <1>5, <1>6, Sequences
<1>8. PICK f : f = [Top EXCEPT !.at = @ + 1]
  OBVIOUS
<1>9. f \in Frames /\ f.proc = "dir" /\ f.at = k + 2
  <2>1. f \in Frames
    BY <1>2, <1>8, Changed
  <2>2. f.proc = Top.proc /\ f.at = Top.at + 1
    BY <1>2, <1>8, FrameFields
  <2>3. f.at = k + 2
    BY <1>2, <1>3, <2>2
  <2> QED BY <1>1, <2>1, <2>2, <2>3
<1>10. LoadPlugin(n, f)
  BY <1>5, <1>6, <1>8 DEF LoadDir
<1>11. n \notin Invalid
  BY <1>7 DEF Tidy
<1>12. n \in Broken => list.last # NoName
  <2> SUFFICES ASSUME n \in Broken PROVE list.last # NoName
    OBVIOUS
  <2>1. Dir # <<>>
    BY <1>5, EmptySeq
  <2>2. Fit(Dir[1])
    BY <2>1 DEF Tidy
  <2>3. Dir[1] \in Name
    BY <1>5, Sequences
  <2>4. k # 0
    BY <1>6, <2>2 DEF Fit
  <2>5. 1 \in 1..k
    BY <2>4
  <2>6. Dir[1] \in Fits(k)
    BY <2>2, <2>3, <2>5 DEF Fits
  <2> QED BY <1>4, <2>6, LastOfSome DEF Loaded
<1>13. Len(stack) # MaxDepth
  BY <1>2 DEF Tidy
<1>14. /\ mode' = mode
       /\ n \in Loaded => stack' = Under(f) /\ result' # "ok" /\ list' = list
       /\ n \notin Loaded /\ n \in Broken =>
             stack' = Under(f) /\ result' # "ok" /\ list' = Dropped(Appended(list, n), n)
       /\ n \notin Loaded \cup Broken =>
             /\ stack' = Append(Under(f), Frame("load", n)) /\ result' = result
             /\ list' = Appended(list, n) /\ Loaded' = Loaded \cup {n}
  BY <1>1, <1>7, <1>10, <1>11, <1>12, <1>13, LoadPluginDoes
<1>15. /\ Fit(n) => Fits(k + 1) = Fits(k) \cup {n}
       /\ ~Fit(n) => Fits(k + 1) = Fits(k)
  BY <1>5, <1>6, FitsGrow
<1>16. PICK g : g = Frame("load", n)
  OBVIOUS
<1>17. g \in Frames /\ g.proc = "load" /\ g.name = n /\ g.at = 1 /\ ~g.wait
  BY <1>7, <1>16, NewFrame
<1>18. CASE n \in Loaded \cup Broken
  <2>1. stack' = Under(f) /\ OrderedIn(list', Fits(k)) /\ DOMAIN list'.node = Loaded
    <3>1. stack' = Under(f)
      BY <1>14, <1>18
    <3>2. OrderedIn(list', Fits(k)) /\ DOMAIN list'.node = Loaded
      BY <1>4, <1>7, <1>12, <1>14, <1>18, ListStays
    <3> QED BY <3>1, <3>2
  <2>2. Fits(k + 1) = Fits(k)
    BY <1>4, <1>15, <1>18 DEF Fit
  <2>3. PICK t : t = stack'
    OBVIOUS
  <2>4. Len(t) = 1 /\ t[1] = f
    BY <1>1, <1>2, <1>9, <2>1, <2>3, CallsLaid
  <2>5. PICK l : l = list'
    OBVIOUS
  <2>6. PICK r : r = result'
    OBVIOUS
  <2>7. PICK e \in Nat : e = k + 1
    OBVIOUS
  <2>8. /\ t[1].proc = "dir" /\ t[1].at = e + 1 /\ e <= Len(Dir)
        /\ DOMAIN l.node = Fits(e) /\ DOMAIN l.node \subseteq Range(Dir) \ Broken
        /\ OrderedIn(l, Fits(e))
    BY <1>4, <1>5, <1>9, <2>1, <2>2, <2>4, <2>5, <2>7
  <2>9. Tame(l, t, r, "starting")
    BY <2>4, <2>8, OnFileDone
  <2> QED BY <1>2, <1>14, <2>3, <2>5, <2>6, <2>9
<1>19. CASE n \notin Loaded \cup Broken
  <2>1. /\ stack' = Append(Under(f), g) /\ list' = Appended(list, n)
        /\ DOMAIN list'.node = Loaded \cup {n}
    BY <1>14, <1>16, <1>19 DEF Loaded
  <2>2. PICK t : t = stack'
    OBVIOUS
  <2>3. PICK l : l = list'
    OBVIOUS
  <2>4. PICK r : r = result'
    OBVIOUS
  <2>5. PICK L : L = DOMAIN l.node
    OBVIOUS
  <2>6. PICK e \in Nat : e = k + 1
    OBVIOUS
  <2>7. Len(t) = 2 /\ t[1] = f /\ t[2] = g
    BY <1>1, <1>2, <1>9, <1>17, <2>1, <2>2, CallsLaid
  <2>8. L = Fits(k) \cup {n}
    BY <1>4, <2>1, <2>3, <2>5
  <2>9. OrderedIn(l, Fits(e))
    <3>1. ASSUME NEW m \in Fits(e) PROVE n \notin Needs(m)
      <4>1. CASE m \in Fits(k)
        <5>1. Needs(m) \subseteq Fits(k)
          BY <1>4, <4>1, FitsComplete
        <5> QED BY <1>4, <1>19, <5>1
      <4>2. CASE m \notin Fits(k)
        <5>1. m = n /\ Fit(n)
          BY <1>15, <2>6, <3>1, <4>2
        <5> QED BY <1>5, <1>6, <5>1, FitNeeds
      <4> QED BY <4>1, <4>2
    <3>2. n \in Name \ DOMAIN list.node
      BY <1>7, <1>19 DEF Loaded
    <3>3. Fits(e) \subseteq Fits(k) \cup {n}
      BY <1>15, <2>6
    <3>4. OrderedIn(Appended(list, n), Fits(e))
      BY <1>4, <3>1, <3>2, <3>3, OrderedAppend
    <3> QED BY <2>1, <2>3, <3>4
  <2>10. Upon(e, n, t, r, L)
    <3>1. n \in L /\ Fits(e) \subseteq L
      BY <1>15, <2>6, <2>8
    <3>2. CASE Fit(n)
      <4>1. L = Fits(e)
        BY <1>15, <2>6, <2>8, <3>2
      <4>2. Hopeful(e, n, t, L)
        BY <1>17, <2>7, <3>2, <4>1 DEF Hopeful
      <4> QED BY <3>1, <4>2 DEF Upon
    <3>3. CASE ~Fit(n)
      <4>1. Doomed(n) /\ n \notin Broken
        BY <1>19, <3>3 DEF Fit
      <4>2. Fits(e) = Fits(k)
        BY <1>15, <2>6, <3>3
      <4>3. \A j \in DOMAIN Deps[n] : ~(j < 1)
        BY <1>7, Sequences
      <4>4. Trying(n, t, r, L)
        BY <1>17, <2>7, <4>3 DEF Trying, Met
      <4> QED BY <2>8, <3>1, <4>1, <4>2, <4>4 DEF Upon
    <3> QED BY <3>2, <3>3
  <2>11. L \subseteq Range(Dir) \ Broken
    BY <1>4, <1>7, <1>19, <2>8
  <2>12. Loading(t, r, L)
    <3>1. t[1].at = e + 1 /\ t[1].at - 1 = e /\ t[1].at > 1 /\ t[1].at <= Len(Dir) + 1
      BY <1>5, <1>9, <2>6, <2>7
    <3>2. t[2].name = Dir[t[1].at - 1] /\ t[2].name = n /\ t[1].proc = "dir"
      BY <1>6, <1>9, <1>17, <2>6, <2>7, <3>1
    <3>3. Len(t) \in 1..3 /\ Len(t) # 1
      BY <2>7
    <3>4. Upon(t[1].at - 1, t[2].name, t, r, L)
      BY ONLY <2>10, <3>1, <3>2
    <3> QED BY ONLY <3>1, <3>2, <3>3, <3>4 DEF Loading
  <2>13. t[1].at - 1 = e
    BY <1>9, <2>6, <2>7
  <2>14. Tame(l, t, r, "starting")
    BY ONLY <2>5, <2>9, <2>11, <2>12, <2>13 DEF Tame
  <2> QED BY <1>2, <1>14, <2>2, <2>3, <2>4, <2>14
<1> QED BY <1>18, <1>19

\* plugins_loaddir has read the directory: all that fits is loaded, in order.
LEMMA LoadDirEndsTame == ASSUME Tidy, TInv, LoadDirEnds PROVE Tame(list', stack', result', mode')
<1>1. /\ stack # <<>> /\ mode # "crashed" /\ Top.proc = "dir" /\ Top.at > Len(Dir) /\ IInv
      /\ stack' = Front(stack) /\ mode' = "running" /\ list' = list
  BY DEF LoadDirEnds, Running, TInv
<1>2. /\ Len(stack) = 1 /\ Top = stack[1] /\ Top \in Frames /\ mode = "starting"
      /\ Top.at \in Nat \ {0}
  BY <1>1, Doing
<1>3. PICK k \in Nat : k = Top.at - 1
  BY <1>2
<1>4. /\ k <= Len(Dir) /\ OrderedIn(list, Fits(k)) /\ Loaded = Fits(k)
      /\ Loaded \subseteq Range(Dir) \ Broken
  BY <1>1, <1>2, <1>3, OnFile
<1>5. PICK t : t = stack'
  OBVIOUS
<1>6. t = <<>>
  BY <1>1, <1>2, <1>5, CallsLaid
<1>7. \A n \in Loaded : Needs(n) \subseteq Loaded
  BY <1>4, FitsComplete
<1>8. Len(t) = 0
  BY <1>6, EmptySeq
<1>9. Serving(t, Loaded)
  BY <1>7, <1>8 DEF Serving
<1>10. PICK r : r = result'
  OBVIOUS
<1>11. Tame(list, t, r, "running")
  BY <1>4, <1>9 DEF Tame, Loaded
<1> QED BY <1>1, <1>5, <1>10, <1>11

\* The calls of two plugins that plugins_loaddir has under way at most.
LEMMA OnFileCalls ==
    ASSUME Tidy, TInv, mode = "starting", Len(stack) > 1, NEW k, k = stack[1].at - 1,
           NEW p, p = Dir[k]
    PROVE  /\ k \in 1..Len(Dir) /\ p \in Name /\ stack # <<>> /\ stack[2].name = p
           /\ Upon(k, p, stack, result, Loaded) /\ OrderedIn(list, Fits(k))
           /\ Loaded \subseteq Range(Dir) \ Broken
           /\ \A d \in Needs(p) : Doomed(p) /\ p \notin Broken /\ d \in Loaded => Deps[d] = <<>>
           /\ Len(stack) = 3 => Deps[stack[3].name] = <<>> /\ stack[3].name \in Name /\ Doomed(p)
<1>1. stack # <<>>
  BY EmptySeq
<1>2. /\ k \in 1..Len(Dir) /\ p \in Name /\ stack[2].name = p
      /\ Upon(k, p, stack, result, Loaded) /\ OrderedIn(list, Fits(k))
      /\ Loaded \subseteq Range(Dir) \ Broken
  BY <1>1, OnFile
<1>3. ASSUME NEW d \in Needs(p), Doomed(p), p \notin Broken, d \in Loaded PROVE Deps[d] = <<>>
  <2>1. d \in Range(Dir)
    BY <1>2, <1>3
  <2>2. File(d) # 0
    BY <2>1, Filed, Sequences
  <2> QED BY <1>2, <1>3, <2>2, DoomedNeeds
<1>4. ASSUME Len(stack) = 3
      PROVE  Deps[stack[3].name] = <<>> /\ stack[3].name \in Name /\ Doomed(p)
  <2>1. Doomed(p) /\ p \notin Broken
    BY <1>2, <1>4 DEF Upon, Hopeful
  <2>2. stack[3].name \in Loaded /\ \E j \in DOMAIN Deps[p] : stack[3].name = Deps[p][j]
    <3>1. stack[2].at \in Nat
      BY <1>1, Doing
    <3>2. CASE Trying(p, stack, result, Loaded)
      BY <1>4, <3>2 DEF Trying
    <3>3. CASE Dropping(p, stack, Loaded)
      BY <1>4, <3>3 DEF Dropping
    <3> QED BY <1>2, <1>4, <3>2, <3>3 DEF Upon, Hopeful
  <2>3. stack[3].name \in Needs(p) /\ stack[3].name \in Name
    BY <1>2, <2>2, Sequences
  <2> QED BY <1>3, <2>1, <2>2, <2>3
<1> QED BY <1>1, <1>2, <1>3, <1>4

\* A plugin without dependencies has nothing to go through.
LEMMA NoDeps ==
    ASSUME NEW n, Deps[n] = <<>>, NEW i \in Nat \ {0}
    PROVE  ~(i <= Len(Deps[n])) /\ i > Len(Deps[n])
<1>1. Len(Deps[n]) = 0
  BY EmptySeq
<1> QED BY <1>1

\* A dependency is loaded while main starts: of a plugin that fits it is there;
\* of another one it may be missing, broken, or be loaded.
LEMMA LoadDepStarting ==
    ASSUME Tidy, TInv, LoadDep, mode = "starting" PROVE Tame(list', stack', result', mode')
<1>1. /\ stack # <<>> /\ mode # "crashed" /\ Top.proc = "load" /\ ~Top.wait
      /\ Top.at <= Len(Deps[Top.name]) /\ IInv
  BY DEF LoadDep, Running, TInv
<1>2. /\ Len(stack) \in 2..3 /\ Top = stack[Len(stack)] /\ stack[2].at \in Nat \ {0}
      /\ stack[2] \in Frames /\ (Len(stack) = 3 => stack[3].at \in Nat \ {0})
  BY <1>1, Doing
<1>3. PICK k : k = stack[1].at - 1
  OBVIOUS
<1>4. PICK p : p = Dir[k]
  OBVIOUS
<1>5. /\ k \in 1..Len(Dir) /\ p \in Name /\ stack[2].name = p
      /\ Upon(k, p, stack, result, Loaded) /\ OrderedIn(list, Fits(k))
      /\ Loaded \subseteq Range(Dir) \ Broken
      /\ Len(stack) = 3 => Deps[stack[3].name] = <<>>
  BY <1>2, <1>3, <1>4, OnFileCalls
<1>6. Len(stack) = 2 /\ Top = stack[2]
  <2>1. Len(stack) # 3
    BY <1>1, <1>2, <1>5, NoDeps
  <2> QED BY <1>2, <2>1
<1>7. PICK a \in Nat \ {0} : a = Top.at
  BY <1>2, <1>6
<1>8. /\ a \in 1..Len(Deps[p]) /\ a \in DOMAIN Deps[p] /\ DOMAIN Deps[p] = 1..Len(Deps[p])
      /\ Len(Deps[p]) \in Nat
  BY <1>1, <1>5, <1>6, <1>7, Sequences
<1>9. PICK d : d = Deps[p][a]
  OBVIOUS
<1>10. d \in Name /\ d \in Needs(p) /\ NextDep = d
  BY <1>5, <1>6, <1>7, <1>8, <1>9, Sequences DEF NextDep
<1>11. PICK L : L = Loaded
  OBVIOUS
<1>12. PICK t : t = stack'
  OBVIOUS
<1>13. PICK l : l = list'
  OBVIOUS
<1>14. PICK r : r = result'
  OBVIOUS
<1>20. SUFFICES /\ mode' = "starting" /\ Len(t) \in 2..3 /\ t[1] = stack[1] /\ t[2].name = p
                /\ DOMAIN l.node \subseteq Range(Dir) \ Broken
                /\ Upon(k, p, t, r, DOMAIN l.node) /\ OrderedIn(l, Fits(k))
  BY <1>1, <1>2, <1>3, <1>4, <1>12, <1>13, <1>14, OnFileStill
<1>21. Fit(p) => d \in L
  <2> SUFFICES ASSUME Fit(p) PROVE d \in L
    OBVIOUS
  <2>1. d \in Fits(k - 1)
    BY <1>4, <1>5, <1>10, FitNeeds
  <2>2. k - 1 \in Nat /\ k - 1 + 1 = k /\ k <= Len(Dir)
    BY <1>5, Sequences
  <2>3. Fits(k - 1) \subseteq Fits(k)
    <3>1. PICK j \in Nat : j = k - 1
      BY <2>2
    <3>2. j + 1 = k
      BY <2>2, <3>1
    <3>3. Fits(j) \subseteq Fits(j + 1)
      BY <2>2, <3>2, FitsGrow
    <3> QED BY <3>1, <3>2, <3>3
  <2> QED BY <1>5, <1>11, <2>1, <2>3 DEF Upon
<1>22. CASE d \in Loaded
  <2>1. PICK f : f = [Top EXCEPT !.at = @ + 1]
    OBVIOUS
  <2>2. /\ stack' = Under(f) /\ list' = list /\ result' = result /\ mode' = mode
    BY <1>10, <1>22, <2>1 DEF LoadDep
  <2>3. f \in Frames /\ f.proc = "load" /\ f.name = p /\ f.at = a + 1 /\ ~f.wait
    <3>1. f \in Frames
      BY <1>2, <1>6, <2>1, Changed
    <3>2. f.proc = Top.proc /\ f.name = Top.name /\ f.at = Top.at + 1 /\ f.wait = Top.wait
      BY <1>2, <1>6, <2>1, FrameFields
    <3> QED BY <1>1, <1>5, <1>6, <1>7, <3>1, <3>2
  <2>4. Len(t) = 2 /\ t[1] = stack[1] /\ t[2] = f
    BY <1>1, <1>6, <1>12, <2>2, <2>3, TwoCalls
  <2>5. DOMAIN l.node = L
    BY <1>11, <1>13, <2>2 DEF Loaded
  <2>6. Upon(k, p, t, r, L)
    <3>1. CASE Hopeful(k, p, stack, L)
      <4>1. Hopeful(k, p, t, L)
        BY <2>3, <2>4, <3>1 DEF Hopeful
      <4> QED BY <1>5, <1>11, <4>1 DEF Upon
    <3>2. CASE /\ Doomed(p) /\ p \notin Broken /\ L \subseteq Fits(k) \cup {p} \cup Needs(p)
               /\ Trying(p, stack, result, L)
      <4>1. Met(p, a + 1, L)
        <5>1. \A j \in DOMAIN Deps[p] : j < a + 1 => j < a \/ j = a
          BY <1>8
        <5>2. Met(p, a, L)
          BY <1>6, <1>7, <3>2 DEF Trying
        <5> QED BY <1>9, <1>11, <1>22, <5>1, <5>2 DEF Met
      <4>2. Trying(p, t, r, L)
        BY <2>3, <2>4, <4>1 DEF Trying
      <4> QED BY <1>5, <1>11, <3>2, <4>2 DEF Upon
    <3>3. ~Dropping(p, stack, L)
      BY <1>1, <1>6 DEF Dropping
    <3> QED BY <1>5, <1>11, <3>1, <3>2, <3>3 DEF Upon
  <2> QED BY <1>5, <1>11, <1>13, <2>2, <2>3, <2>4, <2>5, <2>6
<1>23. CASE d \notin Loaded
  <2>0. /\ Doomed(p) /\ p \notin Broken /\ L \subseteq Fits(k) \cup {p} \cup Needs(p)
        /\ p \in L /\ Fits(k) \subseteq L /\ Met(p, a, L)
    <3>1. ~Hopeful(k, p, stack, L)
      BY <1>11, <1>21, <1>23 DEF Hopeful
    <3>2. ~Dropping(p, stack, L)
      BY <1>1, <1>6 DEF Dropping
    <3>3. Trying(p, stack, result, L) => Met(p, a, L)
      BY <1>6, <1>7 DEF Trying
    <3> QED BY <1>5, <1>11, <3>1, <3>2, <3>3 DEF Upon
  <2>1. PICK f : f = [Top EXCEPT !.wait = TRUE]
    OBVIOUS
  <2>2. Load(d, f)
    BY <1>10, <1>23, <2>1 DEF LoadDep
  <2>3. f \in Frames /\ f.proc = "load" /\ f.name = p /\ f.at = a /\ f.wait
    <3>1. f \in Frames
      BY <1>2, <1>6, <2>1, Changed
    <3>2. f.proc = Top.proc /\ f.name = Top.name /\ f.at = Top.at /\ f.wait
      BY <1>2, <1>6, <2>1, FrameFields
    <3> QED BY <1>1, <1>5, <1>6, <1>7, <3>1, <3>2
  <2>4. ASSUME stack' = Under(f), result' # "ok", OrderedIn(list', Fits(k)),
               DOMAIN list'.node = Loaded, mode' = mode
        PROVE  /\ mode' = "starting" /\ Len(t) \in 2..3 /\ t[1] = stack[1] /\ t[2].name = p
               /\ DOMAIN l.node \subseteq Range(Dir) \ Broken
               /\ Upon(k, p, t, r, DOMAIN l.node) /\ OrderedIn(l, Fits(k))
    <3>1. Len(t) = 2 /\ t[1] = stack[1] /\ t[2] = f
      BY <1>1, <1>6, <1>12, <2>3, <2>4, TwoCalls
    <3>2. DOMAIN l.node = L
      BY <1>11, <1>13, <2>4
    <3>3. Trying(p, t, r, L)
      BY <1>8, <1>14, <2>0, <2>3, <2>4, <3>1 DEF Trying
    <3>4. Upon(k, p, t, r, L)
      BY <2>0, <3>3 DEF Upon
    <3> QED BY <1>5, <1>11, <1>13, <2>3, <2>4, <3>1, <3>2, <3>4
  <2>5. CASE File(d) = 0
    <3>1. /\ stack' = Under(f) /\ result' = "file not found" /\ list' = list /\ mode' = mode
      BY <2>2, <2>5 DEF Load
    <3>2. OrderedIn(list', Fits(k)) /\ DOMAIN list'.node = Loaded
      BY <1>5, <3>1 DEF Loaded
    <3> QED BY <2>4, <3>1, <3>2
  <2>6. CASE File(d) # 0
    <3>1. Dir[File(d)] = d /\ File(d) \in 1..Len(Dir)
      BY <1>4, <1>5, <1>10, <2>0, <2>6, DoomedNeeds, FileIs
    <3>2. LoadPlugin(d, f)
      BY <2>2, <2>6, <3>1 DEF Load
    <3>3. d \in Range(Dir) /\ d \notin Invalid
      <4>1. d \in Range(Dir)
        BY <3>1, Sequences
      <4> QED BY <4>1 DEF Tidy
    <3>4. list.last # NoName
      BY <1>5, <1>11, <2>0, LastOfSome DEF Loaded
    <3>5. Len(stack) # MaxDepth
      BY <1>6 DEF Tidy
    <3>6. /\ mode' = mode
          /\ d \in Broken =>
                stack' = Under(f) /\ result' # "ok" /\ list' = Dropped(Appended(list, d), d)
          /\ d \notin Broken =>
                /\ stack' = Append(Under(f), Frame("load", d)) /\ result' = result
                /\ list' = Appended(list, d) /\ Loaded' = Loaded \cup {d}
      BY <1>1, <1>10, <1>23, <3>2, <3>3, <3>4, <3>5, LoadPluginDoes
    <3>7. CASE d \in Broken
      <4>1. OrderedIn(list', Fits(k)) /\ DOMAIN list'.node = Loaded
        BY <1>5, <1>10, <1>23, <3>4, <3>6, <3>7, ListStays
      <4> QED BY <2>4, <3>6, <3>7, <4>1
    <3>8. CASE d \notin Broken
      <4>1. PICK g : g = Frame("load", d)
        OBVIOUS
      <4>2. g \in Frames /\ g.proc = "load" /\ g.name = d /\ ~g.wait
        BY <1>10, <4>1, NewFrame
      <4>3. stack' = Append(Under(f), g) /\ list' = Appended(list, d)
        BY <3>6, <3>8, <4>1
      <4>4. Len(t) = 3 /\ t[1] = stack[1] /\ t[2] = f /\ t[3] = g
        BY <1>1, <1>6, <1>12, <2>3, <4>2, <4>3, TwoCalls
      <4>5. PICK M : M = DOMAIN l.node
        OBVIOUS
      <4>6. M = L \cup {d}
        BY <1>11, <1>13, <3>6, <3>8, <4>5 DEF Loaded
      <4>7. Met(p, a, M)
        BY <2>0, <4>6 DEF Met
      <4>8. Trying(p, t, r, M)
        BY <1>8, <1>9, <2>3, <4>2, <4>4, <4>6, <4>7 DEF Trying
      <4>9. Upon(k, p, t, r, M)
        BY <1>10, <2>0, <4>6, <4>8 DEF Upon
      <4>10. OrderedIn(l, Fits(k))
        <5>1. ASSUME NEW m \in Fits(k) PROVE d \notin Needs(m)
          <6>1. Needs(m) \subseteq Fits(k)
            BY <1>5, Sequences, FitsComplete
          <6> QED BY <1>11, <1>23, <2>0, <6>1
        <5>2. d \in Name \ DOMAIN list.node
          BY <1>10, <1>23 DEF Loaded
        <5>3. OrderedIn(Appended(list, d), Fits(k))
          BY <1>5, <5>1, <5>2, OrderedAppend
        <5> QED BY <1>13, <4>3, <5>3
      <4>11. M \subseteq Range(Dir) \ Broken
        BY <1>5, <1>11, <3>3, <3>8, <4>6
      <4> QED BY <2>3, <3>6, <4>4, <4>5, <4>9, <4>10, <4>11
    <3> QED BY <3>7, <3>8
  <2> QED BY <2>5, <2>6
<1> QED BY <1>22, <1>23

-----------------------------------------------------------------------------
(* The main loop and plugins_close.                                        *)

\* What holds in the main loop.
LEMMA OnCommand ==
    ASSUME Tidy, TInv, mode = "running"
    PROVE  /\ Serving(stack, Loaded) /\ OrderedIn(list, Loaded)
           /\ Loaded \subseteq Range(Dir) \ Broken /\ Loaded \subseteq Name
           /\ Len(stack) = 2 => /\ Apart(stack[2].name) /\ stack[2].name \in Loaded
                                /\ Deps[stack[2].name] = <<>>
                                /\ stack[2].proc \in {"load", "unload"} /\ ~stack[2].wait
<1>1. Serving(stack, Loaded) /\ OrderedIn(list, Loaded) /\ Loaded \subseteq Range(Dir) \ Broken
  BY DEF TInv, Tame, Loaded
<1>2. Loaded \subseteq Name
  BY <1>1, Sequences
<1>3. Len(stack) = 2 => /\ Apart(stack[2].name) /\ stack[2].name \in Loaded
                        /\ stack[2].proc \in {"load", "unload"} /\ ~stack[2].wait
  BY <1>1 DEF Serving
<1>4. Len(stack) = 2 => Deps[stack[2].name] = <<>>
  BY <1>3 DEF Apart
<1> QED BY <1>1, <1>2, <1>3, <1>4

LEMMA OnCommandStill ==
    ASSUME NEW t, NEW r, NEW l, Serving(t, DOMAIN l.node), OrderedIn(l, DOMAIN l.node),
           DOMAIN l.node \subseteq Range(Dir) \ Broken
    PROVE  Tame(l, t, r, "running")
BY DEF Tame

\* What holds in plugins_close.
LEMMA OnClosing ==
    ASSUME TInv, mode = "closing"
    PROVE  /\ Closing(stack, list) /\ OrderedIn(list, Loaded)
           /\ Loaded \subseteq Range(Dir) \ Broken
           /\ list.first # NoName =>
                /\ list.first \in Loaded /\ list.first \in Name
                /\ \A d \in Needs(list.first) : d \notin Loaded
                /\ Unlinked(list, list.first).first = list.node[list.first].next
<1>1. Closing(stack, list) /\ OrderedIn(list, Loaded) /\ Loaded \subseteq Range(Dir) \ Broken
  BY DEF TInv, Tame, Loaded
<1>2. PICK l : l = list
  OBVIOUS
<1>3. OrderedIn(l, DOMAIN l.node) /\ Loaded = DOMAIN l.node
  BY <1>1, <1>2 DEF Loaded
<1>4. l.first # NoName =>
        /\ l.first \in DOMAIN l.node /\ l.first \in Name
        /\ \A d \in Needs(l.first) : d \notin DOMAIN l.node
        /\ Unlinked(l, l.first).first = l.node[l.first].next
  BY <1>3, FirstFree
<1> QED BY <1>1, <1>2, <1>3, <1>4

LEMMA OnClosingStill ==
    ASSUME NEW t, NEW r, NEW l, Closing(t, l), OrderedIn(l, DOMAIN l.node),
           DOMAIN l.node \subseteq Range(Dir) \ Broken
    PROVE  Tame(l, t, r, "closing")
BY DEF Tame

-----------------------------------------------------------------------------
(* The steps of plugins_loadplugin.                                        *)

LEMMA LoadDepTame == ASSUME Tidy, TInv, LoadDep PROVE Tame(list', stack', result', mode')
<1>1. /\ stack # <<>> /\ mode # "crashed" /\ Top.proc = "load" /\ ~Top.wait
      /\ Top.at <= Len(Deps[Top.name])
  BY DEF LoadDep, Running
<1>2. mode # "running"
  <2> SUFFICES ASSUME mode = "running" PROVE FALSE
    OBVIOUS
  <2>1. Len(stack) \in 1..3 /\ Top = stack[Len(stack)] /\ Len(stack) # 1
        /\ (Len(stack) > 1 => stack[2].at \in Nat \ {0})
    BY <1>1, Doing
  <2>2. Len(stack) = 2
    BY <2>1, OnCommand DEF Serving
  <2>3. Deps[Top.name] = <<>> /\ Top.at \in Nat \ {0}
    BY <2>1, <2>2, OnCommand
  <2> QED BY <1>1, <2>3, NoDeps
<1>3. mode # "closing"
  <2> SUFFICES ASSUME mode = "closing" PROVE FALSE
    OBVIOUS
  <2>1. Closing(stack, list) /\ Top = stack[Len(stack)]
    BY <1>1, OnClosing, Doing
  <2> QED BY <1>1, <2>1 DEF Closing
<1>4. mode = "starting"
  BY <1>1, <1>2, <1>3, Doing
<1> QED BY <1>4, LoadDepStarting

\* A dependency has been loaded, or has failed; then the plugin is given up.
LEMMA DepLoadedTame == ASSUME Tidy, TInv, DepLoaded PROVE Tame(list', stack', result', mode')
<1>1. /\ stack # <<>> /\ mode # "crashed" /\ Top.proc = "load" /\ Top.wait /\ IInv
      /\ UNCHANGED <<list, result, mode>>
  BY DEF DepLoaded, Running, TInv
<1>2. mode # "running"
  <2> SUFFICES ASSUME mode = "running" PROVE FALSE
    OBVIOUS
  <2>1. Len(stack) \in 1..3 /\ Top = stack[Len(stack)] /\ Len(stack) # 1
    BY <1>1, Doing
  <2>2. Len(stack) = 2
    BY <2>1, OnCommand DEF Serving
  <2> QED BY <1>1, <2>1, <2>2, OnCommand
<1>3. mode # "closing"
  <2> SUFFICES ASSUME mode = "closing" PROVE FALSE
    OBVIOUS
  <2>1. Closing(stack, list) /\ Top = stack[Len(stack)]
    BY <1>1, OnClosing, Doing
  <2> QED BY <1>1, <2>1 DEF Closing
<1>4. mode = "starting"
  BY <1>1, <1>2, <1>3, Doing
<1>5. Len(stack) \in 2..3 /\ Top = stack[Len(stack)] /\ stack[2].at \in Nat \ {0} /\ stack[2] \in Frames
  BY <1>1, Doing
<1>6. PICK k : k = stack[1].at - 1
  OBVIOUS
<1>7. PICK p : p = Dir[k]
  OBVIOUS
<1>8. /\ k \in 1..Len(Dir) /\ p \in Name /\ stack[2].name = p
      /\ Upon(k, p, stack, result, Loaded) /\ OrderedIn(list, Fits(k))
      /\ Loaded \subseteq Range(Dir) \ Broken
  BY <1>4, <1>5, <1>6, <1>7, OnFileCalls
<1>9. Len(stack) = 2 /\ Top = stack[2]
  <2>1. Len(stack) # 3
    <3> SUFFICES ASSUME Len(stack) = 3 PROVE FALSE
      OBVIOUS
    <3>1. ~Trying(p, stack, result, Loaded)
      BY <1>1, <1>5 DEF Trying
    <3>2. ~Dropping(p, stack, Loaded)
      BY <1>1, <1>5 DEF Dropping
    <3>3. ~Hopeful(k, p, stack, Loaded)
      BY DEF Hopeful
    <3> QED BY <1>8, <3>1, <3>2, <3>3 DEF Upon
  <2> QED BY <1>5, <2>1
<1>10. PICK L : L = Loaded
  OBVIOUS
<1>11. PICK a \in Nat \ {0} : a = Top.at
  BY <1>5, <1>9
<1>12. /\ Doomed(p) /\ p \notin Broken /\ L \subseteq Fits(k) \cup {p} \cup Needs(p)
       /\ p \in L /\ Fits(k) \subseteq L /\ Met(p, a, L) /\ a \in DOMAIN Deps[p]
       /\ result = "ok" => Deps[p][a] \in L
  <2>1. ~Hopeful(k, p, stack, L)
    BY <1>1, <1>9 DEF Hopeful
  <2>2. ~Dropping(p, stack, L)
    BY <1>1, <1>9 DEF Dropping
  <2>3. Trying(p, stack, result, L) =>
          Met(p, a, L) /\ a \in DOMAIN Deps[p] /\ (result = "ok" => Deps[p][a] \in L)
    BY <1>1, <1>9, <1>11 DEF Trying
  <2> QED BY <1>8, <1>10, <2>1, <2>2, <2>3 DEF Upon
<1>13. PICK t : t = stack'
  OBVIOUS
<1>14. PICK l : l = list'
  OBVIOUS
<1>15. PICK r : r = result'
  OBVIOUS
<1>16. SUFFICES /\ Len(t) \in 2..3 /\ t[1] = stack[1] /\ t[2].name = p
                /\ Upon(k, p, t, r, L)
  <2>1. DOMAIN l.node = L /\ l = list /\ mode' = "starting" /\ Len(stack) > 1
    BY <1>1, <1>4, <1>5, <1>10, <1>14 DEF Loaded
  <2> QED BY <1>1, <1>4, <1>6, <1>7, <1>8, <1>10, <1>13, <1>14, <1>15, <2>1, OnFileStill
<1>17. CASE result = "ok"
  <2>1. PICK f : f = [Top EXCEPT !.at = @ + 1, !.wait = FALSE]
    OBVIOUS
  <2>2. stack' = Under(f)
    BY <1>17, <2>1 DEF DepLoaded
  <2>3. f \in Frames /\ f.proc = "load" /\ f.name = p /\ f.at = a + 1 /\ ~f.wait
    <3>1. f \in Frames
      BY <1>5, <1>9, <2>1, Changed
    <3>2. f.proc = Top.proc /\ f.name = Top.name /\ f.at = Top.at + 1 /\ ~f.wait
      BY <1>5, <1>9, <2>1, FrameFields
    <3> QED BY <1>1, <1>8, <1>9, <1>11, <3>1, <3>2
  <2>4. Len(t) = 2 /\ t[1] = stack[1] /\ t[2] = f
    BY <1>1, <1>9, <1>13, <2>2, <2>3, TwoCalls
  <2>5. Met(p, a + 1, L)
    <3>1. \A j \in DOMAIN Deps[p] : j < a + 1 => j < a \/ j = a
      BY <1>8, Sequences
    <3> QED BY <1>12, <1>17, <3>1 DEF Met
  <2>6. Trying(p, t, r, L)
    BY <2>3, <2>4, <2>5 DEF Trying
  <2> QED BY <1>12, <2>3, <2>4, <2>6 DEF Upon
<1>18. CASE result # "ok"
  <2>1. PICK f : f = [Frame("unload", Top.name) EXCEPT !.done = FALSE, !.ret = "dependency"]
    OBVIOUS
  <2>2. stack' = Under(f)
    BY <1>18, <2>1 DEF DepLoaded
  <2>3. f \in Frames /\ f.proc = "unload" /\ f.name = p /\ f.at = 1
    <3>1. f = [proc |-> "unload", name |-> p, at |-> 1, wait |-> FALSE, done |-> FALSE,
               ret |-> "dependency", ask |-> NoName]
      BY <1>8, <1>9, <2>1 DEF Frame
    <3> QED BY <1>8, <3>1 DEF Frames
  <2>4. Len(t) = 2 /\ t[1] = stack[1] /\ t[2] = f
    BY <1>1, <1>9, <1>13, <2>2, <2>3, TwoCalls
  <2>5. Shed(p, 1, L)
    <3>1. \A j \in DOMAIN Deps[p] : ~(j < 1)
      BY <1>8, Sequences
    <3> QED BY <3>1 DEF Shed
  <2>6. Dropping(p, t, L)
    BY <2>3, <2>4, <2>5 DEF Dropping
  <2> QED BY <1>12, <2>3, <2>4, <2>6 DEF Upon
<1> QED BY <1>17, <1>18

\* A plugin is loaded: the next file, or what waits for it, or the event.
LEMMA LoadEndsTame == ASSUME Tidy, TInv, LoadEnds PROVE Tame(list', stack', result', mode')
<1>1. /\ stack # <<>> /\ mode # "crashed" /\ Top.proc = "load" /\ ~Top.wait /\ IInv
      /\ Top.at > Len(Deps[Top.name])
      /\ UNCHANGED <<list, mode>> /\ result' = "ok" /\ stack' = Front(stack)
  BY DEF LoadEnds, Running, TInv
<1>2. /\ Len(stack) \in 2..3 /\ Top = stack[Len(stack)]
      /\ stack[1] \in Frames /\ stack[1].at \in Nat \ {0}
      /\ stack[2].at \in Nat \ {0} /\ stack[2] \in Frames
  BY <1>1, Doing
<1>3. PICK t : t = stack'
  OBVIOUS
<1>4. PICK l : l = list'
  OBVIOUS
<1>5. PICK r : r = result'
  OBVIOUS
<1>6. PICK L : L = Loaded
  OBVIOUS
<1>7. l = list /\ DOMAIN l.node = L /\ r = "ok" /\ t = Front(stack)
  BY <1>1, <1>3, <1>4, <1>5, <1>6 DEF Loaded
<1>8. CASE mode = "running"
  <2>1. Serving(stack, L) /\ OrderedIn(list, L) /\ L \subseteq Range(Dir) \ Broken
    BY <1>6, <1>8, OnCommand
  <2>2. Len(stack) = 2
    BY <1>2, <2>1 DEF Serving
  <2>3. Len(t) = 1 /\ t[1] = stack[1]
    BY <1>1, <1>2, <1>7, <2>2, TwoCalls
  <2>4. Serving(t, L)
    BY <2>1, <2>2, <2>3 DEF Serving
  <2>5. Tame(l, t, r, "running")
    BY <1>7, <2>1, <2>4, OnCommandStill
  <2> QED BY <1>1, <1>3, <1>4, <1>5, <1>8, <2>5
<1>9. mode # "closing"
  <2> SUFFICES ASSUME mode = "closing" PROVE FALSE
    OBVIOUS
  <2>1. Closing(stack, list) /\ Top = stack[Len(stack)]
    BY <1>1, OnClosing, Doing
  <2> QED BY <1>1, <2>1 DEF Closing
<1>10. CASE mode = "starting"
  <2>1. PICK k : k = stack[1].at - 1
    OBVIOUS
  <2>2. PICK p : p = Dir[k]
    OBVIOUS
  <2>3. /\ k \in 1..Len(Dir) /\ p \in Name /\ stack[2].name = p
        /\ Upon(k, p, stack, result, L) /\ OrderedIn(list, Fits(k))
        /\ L \subseteq Range(Dir) \ Broken
    BY <1>2, <1>6, <1>10, <2>1, <2>2, OnFileCalls
  <2>4. CASE Len(stack) = 2
    <3>1. Top = stack[2] /\ Len(t) = 1 /\ t[1] = stack[1]
      BY <1>1, <1>2, <1>7, <2>4, TwoCalls
    <3>2. L = Fits(k)
      <4>1. CASE Hopeful(k, p, stack, L)
        BY <4>1 DEF Hopeful
      <4>2. CASE Doomed(p) /\ p \notin Broken /\ Trying(p, stack, result, L)
        <5>1. PICK d \in Needs(p) : d \notin Range(Dir) \ Broken
          BY <2>2, <2>3, <4>2, DoomedNeeds
        <5>2. PICK j \in DOMAIN Deps[p] : d = Deps[p][j]
          BY <2>3, Sequences
        <5>3. j < stack[2].at
          BY <1>1, <1>2, <2>3, <3>1, <5>2, Sequences
        <5>4. d \in L
          BY <4>2, <5>2, <5>3 DEF Trying, Met
        <5> QED BY <2>3, <5>1, <5>4
      <4>3. ~Dropping(p, stack, L)
        BY <1>1, <3>1 DEF Dropping
      <4> QED BY <2>3, <4>1, <4>2, <4>3 DEF Upon
    <3>3. k \in Nat /\ k <= Len(Dir) /\ stack[1].at = k + 1 /\ stack[1].proc = "dir"
      <4>1. Len(Dir) \in Nat
        BY Sequences
      <4>2. stack[1].proc = "dir"
        BY <1>1, <1>10, Doing
      <4> QED BY <1>2, <2>1, <2>3, <4>1, <4>2
    <3>4. Tame(l, t, r, "starting")
      BY <1>7, <2>3, <3>1, <3>2, <3>3, OnFileDone
    <3> QED BY <1>1, <1>3, <1>4, <1>5, <1>10, <3>4
  <2>5. CASE Len(stack) = 3
    <3>1. Top = stack[3] /\ Len(t) = 2 /\ t[1] = stack[1] /\ t[2] = stack[2]
      BY <1>1, <1>2, <1>7, <2>5, ThreeCalls
    <3>2. /\ Doomed(p) /\ p \notin Broken /\ L \subseteq Fits(k) \cup {p} \cup Needs(p)
          /\ p \in L /\ Fits(k) \subseteq L /\ Trying(p, stack, result, L)
      <4>1. ~Hopeful(k, p, stack, L)
        BY <2>5 DEF Hopeful
      <4>2. ~Dropping(p, stack, L)
        BY <1>1, <2>5, <3>1 DEF Dropping
      <4> QED BY <2>3, <4>1, <4>2 DEF Upon
    <3>3. Trying(p, t, r, L)
      BY <2>5, <3>1, <3>2 DEF Trying
    <3>4. Upon(k, p, t, r, L)
      BY <3>2, <3>3 DEF Upon
    <3>5. Len(t) \in 2..3 /\ t[2].name = p /\ Len(stack) > 1
      BY <1>2, <2>3, <3>1
    <3>6. Tame(l, t, r, "starting")
      BY <1>1, <1>7, <1>10, <2>1, <2>2, <2>3, <3>1, <3>4, <3>5, OnFileStill
    <3> QED BY <1>1, <1>3, <1>4, <1>5, <1>10, <3>6
  <2> QED BY <1>2, <2>4, <2>5
<1> QED BY <1>1, <1>8, <1>9, <1>10, Doing

-----------------------------------------------------------------------------
(* The steps of plugins_unloadplugin.                                      *)

\* What a plugin has loaded is unloaded with it: it is found by its name.
LEMMA UnloadDepTame == ASSUME Tidy, TInv, UnloadDep PROVE Tame(list', stack', result', mode')
<1>1. /\ stack # <<>> /\ mode # "crashed" /\ Top.proc = "unload" /\ IInv
      /\ Top.at <= Len(Deps[Top.name])
  BY DEF UnloadDep, Running, TInv
<1>2. /\ Len(stack) \in 2..3 /\ Top = stack[Len(stack)]
      /\ stack[1] \in Frames /\ stack[1].at \in Nat \ {0}
      /\ stack[2].at \in Nat \ {0} /\ stack[2] \in Frames
      /\ Len(stack) = 3 => stack[3].at \in Nat \ {0}
  BY <1>1, Doing
<1>3. PICK t : t = stack'
  OBVIOUS
<1>4. PICK l : l = list'
  OBVIOUS
<1>5. PICK r : r = result'
  OBVIOUS
<1>6. PICK L : L = Loaded
  OBVIOUS
<1>7. PICK f : f = [Top EXCEPT !.at = @ + 1]
  OBVIOUS
<1>8. /\ NextDep \in Loaded => Unload(NextDep, f)
      /\ NextDep \notin Loaded =>
            stack' = Under(f) /\ UNCHANGED <<list, chains, timerOwners, result, mode>>
  BY <1>7 DEF UnloadDep
<1>9. l = list /\ DOMAIN l.node = L
  BY <1>4, <1>6, <1>8 DEF Unload, Loaded
<1>10. mode # "running"
  <2> SUFFICES ASSUME mode = "running" PROVE FALSE
    OBVIOUS
  <2>1. Len(stack) = 2
    BY <1>2, OnCommand DEF Serving
  <2>2. Deps[Top.name] = <<>> /\ Top.at \in Nat \ {0}
    BY <1>2, <2>1, OnCommand
  <2> QED BY <1>1, <2>2, NoDeps
<1>11. ASSUME Len(stack) = 2
       PROVE  /\ Top = stack[2] /\ f \in Frames /\ f.proc = "unload" /\ f.name = stack[2].name
              /\ f.at = stack[2].at + 1
  <2>1. Top = stack[2]
    BY <1>2, <1>11
  <2>2. f \in Frames
    BY <1>2, <1>7, <2>1, Changed
  <2>3. f.proc = Top.proc /\ f.name = Top.name /\ f.at = Top.at + 1
    BY <1>2, <1>7, <2>1, FrameFields
  <2> QED BY <1>1, <2>1, <2>2, <2>3
<1>12. CASE mode = "closing"
  <2>1. Closing(stack, list) /\ OrderedIn(list, L) /\ L \subseteq Range(Dir) \ Broken
    BY <1>6, <1>12, OnClosing
  <2>2. Len(stack) = 2 /\ list.first # NoName /\ stack[2].name = list.first
    BY <1>2, <2>1 DEF Closing
  <2>3. NextDep \notin Loaded
    <3>1. PICK n \in Name : n = list.first
      BY <1>12, <2>2, OnClosing
    <3>2. PICK a \in Nat \ {0} : a = Top.at
      BY <1>2, <1>11, <2>2
    <3>3. Top.name = n /\ a \in 1..Len(Deps[n])
      BY <1>1, <1>11, <2>2, <3>1, <3>2, Sequences
    <3>4. NextDep = Deps[n][a]
      BY <3>2, <3>3 DEF NextDep
    <3>5. NextDep \in Needs(n)
      BY <3>1, <3>3, <3>4, Sequences
    <3> QED BY <1>12, <2>2, <3>1, <3>5, OnClosing
  <2>4. stack' = Under(f) /\ UNCHANGED <<list, result, mode>>
    BY <1>8, <2>3
  <2>5. Len(t) = 2 /\ t[1] = stack[1] /\ t[2] = f
    BY <1>1, <1>3, <1>11, <2>2, <2>4, TwoCalls
  <2>6. Closing(t, l)
    BY <1>9, <1>11, <2>1, <2>2, <2>5 DEF Closing
  <2>7. Tame(l, t, r, "closing")
    BY <1>9, <2>1, <2>6, OnClosingStill
  <2> QED BY <1>3, <1>4, <1>5, <1>12, <2>4, <2>7
<1>13. CASE mode = "starting"
  <2>1. PICK k : k = stack[1].at - 1
    OBVIOUS
  <2>2. PICK p : p = Dir[k]
    OBVIOUS
  <2>3. /\ k \in 1..Len(Dir) /\ p \in Name /\ stack[2].name = p
        /\ Upon(k, p, stack, result, L) /\ OrderedIn(list, Fits(k))
        /\ L \subseteq Range(Dir) \ Broken
        /\ Len(stack) = 3 => Deps[stack[3].name] = <<>>
    BY <1>2, <1>6, <1>13, <2>1, <2>2, OnFileCalls
  <2>4. Len(stack) = 2
    <3>1. Len(stack) # 3
      BY <1>1, <1>2, <2>3, NoDeps
    <3> QED BY <1>2, <3>1
  <2>5. PICK a \in Nat \ {0} : a = stack[2].at
    BY <1>2
  <2>6. /\ Doomed(p) /\ p \notin Broken /\ L \subseteq Fits(k) \cup {p} \cup Needs(p)
        /\ p \in L /\ Fits(k) \subseteq L /\ Shed(p, a, L)
    <3>1. ~Hopeful(k, p, stack, L) /\ ~Trying(p, stack, result, L)
      BY <1>1, <1>11, <2>4 DEF Hopeful, Trying
    <3>2. Dropping(p, stack, L) => Shed(p, a, L)
      BY <2>4, <2>5 DEF Dropping
    <3> QED BY <2>3, <3>1, <3>2 DEF Upon
  <2>7. a \in DOMAIN Deps[p] /\ a + 1 - 1 = a
    BY <1>1, <1>11, <2>3, <2>4, <2>5, Sequences
  <2>8. PICK d : d = Deps[p][a]
    OBVIOUS
  <2>9. NextDep = d /\ d \in Needs(p) /\ d \in Name
    <3>1. NextDep = d
      BY <1>11, <2>3, <2>4, <2>5, <2>8 DEF NextDep
    <3> QED BY <2>3, <2>7, <2>8, <3>1, Sequences
  <2>10. SUFFICES /\ mode' = mode /\ result' = result
                  /\ Len(t) \in 2..3 /\ t[1] = stack[1] /\ t[2].name = p
                  /\ Upon(k, p, t, r, L)
    <3>1. Len(stack) > 1
      BY <2>4
    <3> QED BY <1>1, <1>3, <1>4, <1>5, <1>9, <1>13, <2>1, <2>2, <2>3, <2>10, <3>1, OnFileStill
  <2>11. CASE d \notin L
    <3>1. stack' = Under(f) /\ UNCHANGED <<list, result, mode>>
      BY <1>6, <1>8, <2>9, <2>11
    <3>2. Len(t) = 2 /\ t[1] = stack[1] /\ t[2] = f
      BY <1>1, <1>3, <1>11, <2>4, <3>1, TwoCalls
    <3>3. Shed(p, a + 1, L)
      <4>1. \A j \in DOMAIN Deps[p] : j < a + 1 => j < a \/ j = a
        BY <2>3, Sequences
      <4> QED BY <2>6, <2>8, <2>11, <4>1 DEF Shed
    <3>4. Dropping(p, t, L)
      BY <1>11, <2>4, <2>5, <3>2, <3>3 DEF Dropping
    <3>5. Upon(k, p, t, r, L)
      BY <2>6, <3>4 DEF Upon
    <3> QED BY <1>11, <2>3, <2>4, <3>1, <3>2, <3>5
  <2>12. CASE d \in L
    <3>1. Unload(d, f)
      BY <1>6, <1>8, <2>9, <2>12
    <3>2. d \in Range(Dir) /\ d \notin Broken /\ d \in StartsWith[d] /\ File(d) # 0
      <4>1. d \in Range(Dir) /\ d \notin Broken
        BY <2>3, <2>12
      <4> QED BY <4>1, Filed, Sequences DEF Tidy
    <3>3. PICK w : w = Walk[Matching(d)]
      OBVIOUS
    <3>4. Matching(d) # 0 /\ w \in L /\ w \in StartsWith[d]
      BY <1>1, <1>6, <2>12, <3>2, <3>3, MatchingIs
    <3>5. w = d
      BY <2>2, <2>3, <2>6, <2>9, <3>2, <3>4, DoomedNeeds
    <3>6. Len(stack) # MaxDepth
      BY <2>4 DEF Tidy
    <3>7. PICK g : g = Frame("unload", d)
      OBVIOUS
    <3>8. stack' = Append(Under(f), g) /\ mode' = mode /\ result' = result
      BY <3>1, <3>3, <3>4, <3>5, <3>6, <3>7 DEF Unload
    <3>9. g \in Frames /\ g.proc = "unload" /\ g.name = d
      BY <2>9, <3>7, NewFrame
    <3>10. Len(t) = 3 /\ t[1] = stack[1] /\ t[2] = f /\ t[3] = g
      BY <1>1, <1>3, <1>11, <2>4, <3>8, <3>9, TwoCalls
    <3>11. t[2].at - 1 = a /\ t[2].proc = "unload" /\ t[2].name = p
      BY <1>11, <2>3, <2>4, <2>5, <3>10
    <3>12. Dropping(p, t, L)
      BY <2>6, <2>7, <2>8, <2>12, <3>9, <3>10, <3>11 DEF Dropping
    <3>13. Upon(k, p, t, r, L)
      BY <2>6, <3>12 DEF Upon
    <3> QED BY <3>8, <3>10, <3>11, <3>13
  <2> QED BY <2>11, <2>12
<1> QED BY <1>1, <1>10, <1>12, <1>13, Doing

\* A plugin goes: the rest of the list is as it was.
LEMMA UnloadEndsTame == ASSUME Tidy, TInv, UnloadEnds PROVE Tame(list', stack', result', mode')
<1>1. /\ stack # <<>> /\ mode # "crashed" /\ Top.proc = "unload" /\ IInv
      /\ Top.at > Len(Deps[Top.name])
  BY DEF UnloadEnds, Running, TInv
<1>2. /\ Len(stack) \in 2..3 /\ Top = stack[Len(stack)]
      /\ stack[1] \in Frames /\ stack[1].at \in Nat \ {0}
      /\ stack[2].at \in Nat \ {0} /\ stack[2] \in Frames
      /\ Len(stack) = 3 => stack[3].at \in Nat \ {0}
  BY <1>1, Doing
<1>3. PICK t : t = stack'
  OBVIOUS
<1>4. PICK l : l = list'
  OBVIOUS
<1>5. PICK r : r = result'
  OBVIOUS
<1>6. PICK L : L = Loaded
  OBVIOUS
<1>7. PICK n : n = Top.name
  OBVIOUS
<1>8. ASSUME n \in L
      PROVE  /\ t = Front(stack) /\ l = Unlinked(list, n) /\ mode' = mode
             /\ DOMAIN l.node = L \ {n} /\ n \in DOMAIN list.node
  <2>1. list' = Unlinked(list, n) /\ stack' = Front(stack) /\ mode' = mode
    BY <1>6, <1>7, <1>8 DEF UnloadEnds
  <2>2. DOMAIN l.node = L \ {n}
    BY <1>4, <1>6, <2>1 DEF Unlinked, Loaded
  <2> QED BY <1>3, <1>4, <1>6, <1>8, <2>1, <2>2 DEF Loaded
<1>9. CASE mode = "running"
  <2>1. /\ Serving(stack, L) /\ OrderedIn(list, L) /\ L \subseteq Range(Dir) \ Broken
        /\ L \subseteq Name
    BY <1>6, <1>9, OnCommand
  <2>2. Len(stack) = 2 /\ Top = stack[2]
    BY <1>2, <2>1 DEF Serving
  <2>3. n \in L /\ Apart(n)
    BY <1>6, <1>7, <1>9, <2>2, OnCommand
  <2>4. Len(t) = 1 /\ t[1] = stack[1]
    BY <1>1, <1>2, <1>8, <2>2, <2>3, TwoCalls
  <2>5. PICK M : M = L \ {n}
    OBVIOUS
  <2>6. \A m \in M : Needs(m) \subseteq M
    <3>1. \A m \in L : Needs(m) \subseteq L
      BY <2>1 DEF Serving
    <3>2. \A m \in L : n \notin Needs(m)
      BY <2>1, <2>3 DEF Apart, Needs
    <3> QED BY <2>5, <3>1, <3>2
  <2>7. Serving(t, M)
    <3>1. stack[1].name = Commander /\ Commander \in L /\ n # Commander /\ n # Telnet
      <4>1. stack[1].name = Commander /\ (stack[1].name # NoName => stack[1].name \in L)
        BY <2>1, <2>2 DEF Serving
      <4>2. Commander # NoName
        BY PluginsAssumption DEF PluginsAssumption
      <4> QED BY <2>3, <4>1, <4>2 DEF Apart
    <3>2. stack[1].name \in M
      BY <2>5, <3>1
    <3>3. \/ stack[1].proc = "irc" /\ (stack[1].name # NoName => stack[1].name \in IrcListener)
          \/ /\ stack[1].proc = "tel" /\ (stack[1].name # NoName => stack[1].name \in TelListener)
             /\ Telnet \in M /\ stack[1].ask \in Asked
      BY <2>1, <2>2, <2>5, <3>1 DEF Serving
    <3> QED BY <2>4, <2>6, <3>2, <3>3 DEF Serving
  <2>8. OrderedIn(l, M)
    <3>1. M \subseteq L /\ n \in DOMAIN list.node
      BY <1>8, <2>3, <2>5
    <3>2. OrderedIn(Unlinked(list, n), M)
      BY <2>1, <3>1, OrderedUnlink
    <3> QED BY <1>8, <2>3, <3>2
  <2>9. DOMAIN l.node = M /\ M \subseteq Range(Dir) \ Broken
    BY <1>8, <2>1, <2>3, <2>5
  <2>10. Tame(l, t, r, "running")
    BY <2>7, <2>8, <2>9, OnCommandStill
  <2> QED BY <1>3, <1>4, <1>5, <1>8, <1>9, <2>3, <2>10
<1>10. CASE mode = "closing"
  <2>1. Closing(stack, list) /\ OrderedIn(list, L) /\ L \subseteq Range(Dir) \ Broken
    BY <1>6, <1>10, OnClosing
  <2>2. /\ Len(stack) = 2 /\ list.first # NoName /\ stack[2].name = list.first /\ Top = stack[2]
        /\ stack[1].name = list.node[list.first].next /\ stack[1].proc = "close"
    BY <1>2, <2>1 DEF Closing
  <2>3. n = list.first /\ n \in L /\ Unlinked(list, n).first = list.node[n].next
    BY <1>6, <1>7, <1>10, <2>2, OnClosing
  <2>4. Len(t) = 1 /\ t[1] = stack[1]
    BY <1>1, <1>2, <1>8, <2>2, <2>3, TwoCalls
  <2>5. Closing(t, l)
    <3>1. l.first = list.node[n].next
      BY <1>8, <2>3
    <3> QED BY <2>2, <2>3, <2>4, <3>1 DEF Closing
  <2>6. PICK M : M = L \ {n}
    OBVIOUS
  <2>7. OrderedIn(l, M)
    <3>1. M \subseteq L /\ n \in DOMAIN list.node
      BY <1>8, <2>3, <2>6
    <3>2. OrderedIn(Unlinked(list, n), M)
      BY <2>1, <3>1, OrderedUnlink
    <3> QED BY <1>8, <2>3, <3>2
  <2>8. DOMAIN l.node = M /\ M \subseteq Range(Dir) \ Broken
    BY <1>8, <2>1, <2>3, <2>6
  <2>9. Tame(l, t, r, "closing")
    BY <2>5, <2>7, <2>8, OnClosingStill
  <2> QED BY <1>3, <1>4, <1>5, <1>8, <1>10, <2>3, <2>9
<1>11. CASE mode = "starting"
  <2>1. PICK k : k = stack[1].at - 1
    OBVIOUS
  <2>2. PICK p : p = Dir[k]
    OBVIOUS
  <2>3. /\ k \in 1..Len(Dir) /\ p \in Name /\ stack[2].name = p
        /\ Upon(k, p, stack, result, L) /\ OrderedIn(list, Fits(k))
        /\ L \subseteq Range(Dir) \ Broken
    BY <1>2, <1>6, <1>11, <2>1, <2>2, OnFileCalls
  <2>4. /\ Doomed(p) /\ p \notin Broken /\ L \subseteq Fits(k) \cup {p} \cup Needs(p)
        /\ p \in L /\ Fits(k) \subseteq L /\ Dropping(p, stack, L)
    <3>1. ~Hopeful(k, p, stack, L)
      BY <1>1, <1>2 DEF Hopeful
    <3>2. ~Trying(p, stack, result, L)
      BY <1>1, <1>2 DEF Trying
    <3> QED BY <2>3, <3>1, <3>2 DEF Upon
  <2>5. p \notin Fits(k)
    BY <2>2, <2>3, <2>4, DoomedNeeds
  <2>6. CASE Len(stack) = 2
    <3>1. Top = stack[2] /\ n = p /\ n \in L
      BY <1>2, <1>7, <2>3, <2>4, <2>6
    <3>2. Len(t) = 1 /\ t[1] = stack[1]
      BY <1>1, <1>2, <1>8, <2>6, <3>1, TwoCalls
    <3>3. ASSUME NEW d \in Needs(p) PROVE d \notin L
      <4>1. PICK j \in DOMAIN Deps[p] : d = Deps[p][j]
        BY <2>3, <3>3, Sequences
      <4>2. j < stack[2].at
        BY <1>1, <1>2, <2>3, <3>1, <4>1, Sequences
      <4> QED BY <2>4, <2>6, <4>1, <4>2 DEF Dropping, Shed
    <3>4. L \ {n} = Fits(k)
      BY <2>4, <2>5, <3>1, <3>3
    <3>5. OrderedIn(l, Fits(k))
      <4>1. OrderedIn(Unlinked(list, n), Fits(k))
        BY <1>8, <2>3, <3>1, OrderedUnlink
      <4> QED BY <1>8, <3>1, <4>1
    <3>6. k \in Nat /\ k <= Len(Dir) /\ stack[1].at = k + 1 /\ stack[1].proc = "dir"
      <4>1. Len(Dir) \in Nat
        BY Sequences
      <4>2. stack[1].proc = "dir"
        BY <1>1, <1>11, Doing
      <4> QED BY <1>2, <2>1, <2>3, <4>1, <4>2
    <3>7. DOMAIN l.node = Fits(k) /\ DOMAIN l.node \subseteq Range(Dir) \ Broken
      BY <1>8, <2>3, <2>4, <3>1, <3>4
    <3>8. Tame(l, t, r, "starting")
      BY <3>2, <3>5, <3>6, <3>7, OnFileDone
    <3> QED BY <1>3, <1>4, <1>5, <1>8, <1>11, <3>1, <3>8
  <2>7. CASE Len(stack) = 3
    <3>1. PICK a \in Nat \ {0} : a = stack[2].at
      BY <1>2
    <3>2. /\ Top = stack[3] /\ n \in L /\ a - 1 \in DOMAIN Deps[p] /\ n = Deps[p][a - 1]
          /\ Shed(p, a - 1, L) /\ stack[2].proc = "unload"
      BY <1>2, <1>7, <2>4, <2>7, <3>1 DEF Dropping
    <3>3. n \in Needs(p)
      BY <2>3, <3>2, Sequences
    <3>4. n # p /\ n \notin Fits(k)
      <4>1. n \in Range(Dir) /\ n \notin Broken
        BY <2>3, <3>2
      <4>2. File(n) # 0
        BY <4>1, Filed, Sequences
      <4> QED BY <2>2, <2>3, <2>4, <3>3, <4>1, <4>2, DoomedNeeds
    <3>5. Len(t) = 2 /\ t[1] = stack[1] /\ t[2] = stack[2]
      BY <1>1, <1>8, <2>7, <3>2, ThreeCalls
    <3>6. PICK M : M = L \ {n}
      OBVIOUS
    <3>7. Shed(p, a, M)
      <4>1. \A j \in DOMAIN Deps[p] : j < a => j < a - 1 \/ j = a - 1
        BY <2>3, Sequences
      <4> QED BY <3>2, <3>6, <4>1 DEF Shed
    <3>8. Dropping(p, t, M)
      BY <3>1, <3>2, <3>5, <3>7 DEF Dropping
    <3>9. Upon(k, p, t, r, M)
      BY <2>4, <3>4, <3>6, <3>8 DEF Upon
    <3>10. OrderedIn(l, Fits(k))
      <4>1. OrderedIn(Unlinked(list, n), Fits(k))
        BY <1>8, <2>3, <3>2, OrderedUnlink
      <4> QED BY <1>8, <3>2, <4>1
    <3>11. DOMAIN l.node = M /\ M \subseteq Range(Dir) \ Broken
      BY <1>8, <2>3, <3>2, <3>6
    <3>12. Len(t) \in 2..3 /\ t[2].name = p /\ Len(stack) > 1
      BY <2>3, <2>7, <3>5
    <3>13. Tame(l, t, r, "starting")
      BY <1>1, <1>11, <2>1, <2>2, <3>5, <3>9, <3>10, <3>11, <3>12, OnFileStill
    <3> QED BY <1>3, <1>4, <1>5, <1>8, <1>11, <3>2, <3>13
  <2> QED BY <1>2, <2>6, <2>7
<1> QED BY <1>1, <1>9, <1>10, <1>11, Doing

-----------------------------------------------------------------------------
(* The steps of plugins_close.                                             *)

LEMMA CloseTame == ASSUME Tidy, TInv, Close PROVE Tame(list', stack', result', mode')
<1>1. /\ stack # <<>> /\ mode # "crashed" /\ Top.proc = "close" /\ Top.name # NoName /\ IInv
  BY DEF Close, Running, TInv
<1>2. Len(stack) = 1 /\ Top = stack[1] /\ Top \in Frames /\ mode = "closing"
  BY <1>1, Doing
<1>3. /\ Closing(stack, list) /\ OrderedIn(list, Loaded) /\ Loaded \subseteq Range(Dir) \ Broken
  BY <1>2, OnClosing
<1>4. PICK n : n = list.first
  OBVIOUS
<1>5. Top.name = n /\ n # NoName
  BY <1>1, <1>2, <1>3, <1>4 DEF Closing
<1>6. n \in Loaded /\ n \in Name
  BY <1>2, <1>4, <1>5, OnClosing
<1>7. PICK m : m = list.node[n].next
  OBVIOUS
<1>8. m \in Name \cup {NoName}
  BY <1>1, <1>6, <1>7, IInvTyped DEF TypeOK
<1>9. PICK f : f = [Top EXCEPT !.name = m]
  OBVIOUS
<1>10. PICK g : g = Frame("unload", n)
  OBVIOUS
<1>11. /\ stack' = Append(Under(f), g) /\ UNCHANGED <<list, result, mode>>
  BY <1>5, <1>6, <1>7, <1>9, <1>10 DEF Close
<1>12. f \in Frames /\ f.proc = "close" /\ f.name = m
  <2>1. f \in Frames
    BY <1>2, <1>8, <1>9, Changed
  <2>2. f.proc = Top.proc /\ f.name = m
    BY <1>2, <1>9, FrameFields
  <2> QED BY <1>1, <2>1, <2>2
<1>13. g \in Frames /\ g.proc = "unload" /\ g.name = n
  BY <1>6, <1>10, NewFrame
<1>14. PICK t : t = stack'
  OBVIOUS
<1>15. Len(t) = 2 /\ t[1] = f /\ t[2] = g
  BY <1>1, <1>2, <1>11, <1>12, <1>13, <1>14, CallsLaid
<1>16. Closing(t, list)
  BY <1>4, <1>5, <1>7, <1>12, <1>13, <1>15 DEF Closing
<1>17. PICK r : r = result'
  OBVIOUS
<1>18. Tame(list, t, r, "closing")
  BY <1>3, <1>16, OnClosingStill DEF Loaded
<1> QED BY <1>2, <1>11, <1>14, <1>17, <1>18

LEMMA CloseEndsTame == ASSUME Tidy, TInv, CloseEnds PROVE Tame(list', stack', result', mode')
<1>1. mode' = "closed" /\ list' = list
  BY DEF CloseEnds
<1> QED BY <1>1 DEF TInv, Tame

-----------------------------------------------------------------------------
(* Events and timers.                                                      *)

\* The listeners that events_fireEvent goes through are those of the chain.
LEMMA ChainOf ==
    ASSUME IInv, NEW e \in {"tel", "irc"}, NEW c, c = chains[e]
    PROVE  /\ HeadOf(e) \in Range(c) \cup {NoName}
           /\ \A n \in Range(c) : InChain(e, n)
           /\ \A n : InChain(e, n) => NextListener(e, n) \in Range(c) \cup {NoName}
<1>1. c \in Seq(Name)
  BY DEF IInv, Typed
<1>2. /\ Len(c) \in Nat /\ DOMAIN c = 1..Len(c)
      /\ \A i \in 1..Len(c) : c[i] \in Range(c)
      /\ \A n \in Range(c) : \E i \in 1..Len(c) : n = c[i]
  BY <1>1, LenProperties DEF Range
<1>3. HeadOf(e) \in Range(c) \cup {NoName}
  <2> SUFFICES ASSUME c # <<>> PROVE Head(c) \in Range(c)
    BY DEF HeadOf
  <2>1. Len(c) # 0
    BY <1>1, EmptySeq
  <2>2. 1 \in 1..Len(c) /\ Head(c) = c[1]
    BY <1>1, <1>2, <2>1
  <2> QED BY <1>2, <2>2
<1>4. ASSUME NEW n
      PROVE  /\ n \in Range(c) => InChain(e, n)
             /\ InChain(e, n) => NextListener(e, n) \in Range(c) \cup {NoName}
  <2>1. PICK I : I = {i \in 1..Len(c) : c[i] = n}
    OBVIOUS
  <2>2. PICK i : i = SelectInSeq(c, LAMBDA m : m = n)
    OBVIOUS
  <2>3. i = IF I # {} THEN Min(I) ELSE 0
    BY <2>1, <2>2 DEF SelectInSeq
  <2>4. InChain(e, n) <=> i # 0
    BY <2>2 DEF InChain
  <2>5. I \in SUBSET (1..Len(c)) /\ \A j \in 1..Len(c) : j \in I <=> c[j] \in {n}
    BY <2>1
  <2>6. /\ i # 0 => i \in 1..Len(c)
        /\ \A j \in 1..Len(c) : c[j] \in {n} => i # 0
    BY <1>2, <2>3, <2>5, SelectedFirst
  <2>7. NextListener(e, n) = IF i = Len(c) THEN NoName ELSE c[i + 1]
    BY <2>2 DEF NextListener
  <2>8. i # 0 /\ i # Len(c) => i + 1 \in 1..Len(c)
    BY <1>2, <2>6
  <2>9. n \in Range(c) => InChain(e, n)
    BY <1>2, <2>4, <2>6
  <2>10. InChain(e, n) => NextListener(e, n) \in Range(c) \cup {NoName}
    BY <1>2, <2>4, <2>7, <2>8
  <2> QED BY <2>9, <2>10
<1> QED BY <1>3, <1>4

\* Everyone who is called by an event or a timer is loaded.
LEMMA CalledAreLoaded ==
    ASSUME IInv, mode \notin {"crashed", "ended"},
           stack # <<>> => Top.proc \notin {"load", "unload"}
    PROVE  /\ Range(timerOwners) \subseteq Loaded /\ Range(chains.irc) \subseteq Loaded
           /\ \A e \in {"tel", "irc"} :
                LET R == IF e = "tel" THEN TelListener ELSE IrcListener
                IN  /\ HeadOf(e) # NoName => HeadOf(e) \in R /\ HeadOf(e) \in Loaded
                    /\ \A n \in R : n \in Loaded => InChain(e, n)
                    /\ \A n : InChain(e, n) /\ NextListener(e, n) # NoName =>
                          NextListener(e, n) \in R /\ NextListener(e, n) \in Loaded
<1>1. Loaded \subseteq Name
  BY IInvTyped DEF TypeOK
<1>2. Started(stack, Loaded) = Loaded
  <2>1. CASE stack = <<>>
    BY <2>1, EmptySeq DEF Started
  <2>2. CASE stack # <<>>
    <3>1. Len(stack) = 1 /\ ~Starting(Top) /\ DOMAIN stack = 1..Len(stack) /\ Top = stack[Len(stack)]
      BY <2>2, AtBottom, Innermost
    <3>2. \A i \in DOMAIN stack : ~Starting(stack[i])
      BY <3>1
    <3> QED BY <3>2 DEF Started
  <2> QED BY <2>1, <2>2
<1>3. Enlisted(chains, timerOwners, Loaded)
  BY <1>2 DEF IInv, Kept
<1>4. ASSUME NEW q, NEW R, Enrolled(q, R, Loaded)
      PROVE  /\ \A n \in Range(q) : n \in R /\ n \in Loaded
             /\ \A n \in R : n \in Loaded => n \in Range(q)
  <2>1. \A n \in R : n \in Loaded => Once(q, n)
    BY <1>1, <1>4 DEF Enrolled
  <2>2. q \in Seq(Name) /\ \A n \in Name : ~(n \in R /\ n \in Loaded) => n \notin Range(q)
    BY <1>4 DEF Enrolled
  <2>3. \A n \in Range(q) : n \in Name
    BY <2>2, LenProperties, ElementOfSeq DEF Range
  <2>4. \A n : Once(q, n) => n \in Range(q)
    BY DEF Once, Range
  <2> QED BY <2>1, <2>2, <2>3, <2>4
<1>5. Range(timerOwners) \subseteq Loaded /\ Range(chains.irc) \subseteq Loaded
  BY <1>3, <1>4 DEF Enlisted
<1>6. ASSUME NEW e \in {"tel", "irc"}, NEW R, R = IF e = "tel" THEN TelListener ELSE IrcListener
      PROVE  /\ HeadOf(e) # NoName => HeadOf(e) \in R /\ HeadOf(e) \in Loaded
             /\ \A n \in R : n \in Loaded => InChain(e, n)
             /\ \A n : InChain(e, n) /\ NextListener(e, n) # NoName =>
                   NextListener(e, n) \in R /\ NextListener(e, n) \in Loaded
  <2>1. PICK c : c = chains[e]
    OBVIOUS
  <2>2. Enrolled(c, R, Loaded)
    BY <1>3, <1>6, <2>1 DEF Enlisted
  <2>3. /\ \A n \in Range(c) : n \in R /\ n \in Loaded
        /\ \A n \in R : n \in Loaded => n \in Range(c)
    BY <1>4, <2>2
  <2>4. /\ HeadOf(e) \in Range(c) \cup {NoName}
        /\ \A n \in Range(c) : InChain(e, n)
        /\ \A n : InChain(e, n) => NextListener(e, n) \in Range(c) \cup {NoName}
    BY <2>1, ChainOf
  <2> QED BY <2>3, <2>4
<1>7. \A e \in {"tel", "irc"} :
        LET R == IF e = "tel" THEN TelListener ELSE IrcListener
        IN  /\ HeadOf(e) # NoName => HeadOf(e) \in R /\ HeadOf(e) \in Loaded
            /\ \A n \in R : n \in Loaded => InChain(e, n)
            /\ \A n : InChain(e, n) /\ NextListener(e, n) # NoName =>
                  NextListener(e, n) \in R /\ NextListener(e, n) \in Loaded
  BY <1>6
<1> QED BY ONLY <1>5, <1>7

\* An event is under way, with nothing above it.
LEMMA OnEvent ==
    ASSUME Tidy, TInv, stack # <<>>, Top.proc \in {"tel", "irc"}
    PROVE  /\ Len(stack) = 1 /\ Top = stack[1] /\ Top \in Frames /\ mode = "running"
           /\ Serving(stack, Loaded) /\ OrderedIn(list, Loaded)
           /\ Loaded \subseteq Range(Dir) \ Broken /\ Loaded \subseteq Name
           /\ \A n \in Loaded : Needs(n) \subseteq Loaded
           /\ Top.name # NoName => Top.name \in Loaded
           /\ Top.proc = "irc" /\ Top.name # NoName => Top.name \in IrcListener
           /\ Top.proc = "tel" => /\ Telnet \in Loaded /\ Top.ask \in Asked /\ Top.ask \in Name
                                  /\ Top.name # NoName => Top.name \in TelListener
<1>1. Len(stack) = 1 /\ Top = stack[1] /\ Top \in Frames /\ mode = "running"
  BY Doing
<1>2. /\ Serving(stack, Loaded) /\ OrderedIn(list, Loaded)
      /\ Loaded \subseteq Range(Dir) \ Broken /\ Loaded \subseteq Name
  BY <1>1, OnCommand
<1>3. /\ \A n \in Loaded : Needs(n) \subseteq Loaded
      /\ Top.name # NoName => Top.name \in Loaded
      /\ Top.proc = "irc" /\ Top.name # NoName => Top.name \in IrcListener
      /\ Top.proc = "tel" => /\ Telnet \in Loaded /\ Top.ask \in Asked
                             /\ Top.name # NoName => Top.name \in TelListener
  BY <1>1, <1>2 DEF Serving
<1>4. Asked \subseteq Name
  BY PluginsAssumption DEF PluginsAssumption
<1> QED BY <1>1, <1>2, <1>3, <1>4

\* It goes on, with a listener that is there.
LEMMA EventGoesOn ==
    ASSUME Tidy, TInv, stack # <<>>, Top.proc \in {"tel", "irc"},
           NEW f \in Frames, f.proc = Top.proc, f.ask = Top.ask,
           f.name # NoName => /\ f.name \in Loaded
                              /\ f.name \in IF f.proc = "tel" THEN TelListener ELSE IrcListener,
           stack' = Under(f), mode' = mode,
           OrderedIn(list', Loaded), DOMAIN list'.node = Loaded
    PROVE  Tame(list', stack', result', mode')
<1>1. /\ Len(stack) = 1 /\ mode = "running" /\ IInv /\ mode # "crashed"
      /\ Loaded \subseteq Range(Dir) \ Broken
      /\ \A n \in Loaded : Needs(n) \subseteq Loaded
      /\ Top.proc = "tel" => Telnet \in Loaded /\ Top.ask \in Asked
  BY OnEvent DEF TInv
<1>2. PICK t : t = stack'
  OBVIOUS
<1>3. PICK l : l = list'
  OBVIOUS
<1>4. PICK r : r = result'
  OBVIOUS
<1>5. PICK L : L = Loaded
  OBVIOUS
<1>6. Len(t) = 1 /\ t[1] = f
  <2>1. f \in Frames /\ t = Under(f) /\ stack # <<>>
    BY <1>2
  <2> QED BY ONLY <1>1, <2>1, CallsLaid
<1>7. Serving(t, L)
  <2>1. \/ f.proc = "irc" /\ (f.name # NoName => f.name \in IrcListener)
        \/ /\ f.proc = "tel" /\ (f.name # NoName => f.name \in TelListener)
           /\ Telnet \in L /\ f.ask \in Asked
    BY <1>1, <1>5
  <2> QED BY <1>1, <1>5, <1>6, <2>1 DEF Serving
<1>8. OrderedIn(l, DOMAIN l.node) /\ DOMAIN l.node = L
  BY <1>3, <1>5
<1>9. Tame(l, t, r, "running")
  BY <1>1, <1>5, <1>7, <1>8, OnCommandStill
<1> QED BY <1>1, <1>2, <1>3, <1>4, <1>9

\* A command goes on with the load or unload of a plugin that nobody needs.
LEMMA CommandGoesOn ==
    ASSUME Tidy, TInv, stack # <<>>, Top.proc = "tel", Top.name = Commander,
           NEW f \in Frames, f.proc = Top.proc, f.ask = Top.ask, f.name = Top.name,
           NEW n \in Name, Apart(n), n \in Range(Dir) \ Broken,
           NEW proc \in {"load", "unload"},
           stack' = Append(Under(f), Frame(proc, n)), mode' = mode,
           \/ n \in Loaded /\ list' = list
           \/ n \notin Loaded /\ list' = Appended(list, n)
    PROVE  Tame(list', stack', result', mode')
<1>1. /\ Len(stack) = 1 /\ mode = "running" /\ IInv /\ mode # "crashed"
      /\ Loaded \subseteq Range(Dir) \ Broken /\ Loaded \subseteq Name /\ OrderedIn(list, Loaded)
      /\ \A m \in Loaded : Needs(m) \subseteq Loaded
      /\ Telnet \in Loaded /\ Top.ask \in Asked
      /\ Commander # NoName => Commander \in Loaded
  BY OnEvent DEF TInv
<1>2. Commander # NoName /\ Commander \in TelListener
  BY PluginsAssumption DEF PluginsAssumption
<1>3. PICK g : g = Frame(proc, n)
  OBVIOUS
<1>4. g \in Frames /\ g.proc = proc /\ g.name = n /\ ~g.wait
  BY <1>3, NewFrame
<1>5. PICK t : t = stack'
  OBVIOUS
<1>6. PICK l : l = list'
  OBVIOUS
<1>7. PICK r : r = result'
  OBVIOUS
<1>8. Len(t) = 2 /\ t[1] = f /\ t[2] = g
  BY <1>1, <1>3, <1>4, <1>5, CallsLaid
<1>9. PICK L : L = Loaded \cup {n}
  OBVIOUS
<1>10. Needs(n) = {} /\ \A m \in Range(Dir) : n \notin Needs(m)
  BY EmptySeq DEF Apart, Needs, Range
<1>11. DOMAIN l.node = L /\ OrderedIn(l, L)
  <2>1. CASE n \in Loaded /\ list' = list
    BY <1>1, <1>6, <1>9, <2>1 DEF Loaded
  <2>2. CASE n \notin Loaded /\ list' = Appended(list, n)
    <3>1. DOMAIN l.node = L
      BY <1>6, <1>9, <2>2 DEF Appended, Loaded
    <3>2. n \in Name \ DOMAIN list.node
      BY <2>2 DEF Loaded
    <3>3. \A m \in L : n \notin Needs(m)
      BY <1>1, <1>9, <1>10
    <3>4. OrderedIn(Appended(list, n), L)
      BY <1>1, <1>9, <3>2, <3>3, OrderedAppend
    <3> QED BY <1>6, <2>2, <3>1, <3>4
  <2> QED BY <2>1, <2>2
<1>12. Serving(t, L)
  <2>1. \A m \in L : Needs(m) \subseteq L
    BY <1>1, <1>9, <1>10
  <2>2. t[1].proc = "tel" /\ t[1].name = Commander /\ t[1].ask \in Asked
    BY <1>1, <1>8
  <2>3. Telnet \in L /\ Commander \in L /\ n \in L
    BY <1>1, <1>2, <1>9
  <2>4. t[2].proc \in {"load", "unload"} /\ ~t[2].wait /\ t[2].name = n
    BY <1>4, <1>8
  <2> QED BY <1>2, <1>8, <2>1, <2>2, <2>3, <2>4 DEF Serving
<1>13. L \subseteq Range(Dir) \ Broken
  BY <1>1, <1>9
<1>14. Tame(l, t, r, "running")
  BY <1>11, <1>12, <1>13, OnCommandStill
<1> QED BY <1>1, <1>5, <1>6, <1>7, <1>14

\* A listener is called; that of the commander loads or unloads.
LEMMA CallListenerTame ==
    ASSUME Tidy, TInv, CallListener PROVE Tame(list', stack', result', mode')
<1>1. /\ stack # <<>> /\ mode # "crashed" /\ Top.proc \in {"tel", "irc"} /\ Top.name # NoName
      /\ IInv
  BY DEF CallListener, Running, TInv
<1>2. /\ Len(stack) = 1 /\ Top \in Frames /\ Top.name \in Loaded /\ OrderedIn(list, Loaded)
      /\ Loaded \subseteq Range(Dir) \ Broken /\ Loaded \subseteq Name
      /\ Top.proc = "irc" => Top.name \in IrcListener
      /\ Top.proc = "tel" => /\ Telnet \in Loaded /\ Top.ask \in Asked /\ Top.ask \in Name
                             /\ Top.name \in TelListener
  BY <1>1, OnEvent
<1>3. PICK f : f = [Top EXCEPT !.wait = TRUE]
  OBVIOUS
<1>4. f \in Frames /\ f.proc = Top.proc /\ f.name = Top.name /\ f.ask = Top.ask
  <2>1. f \in Frames
    BY <1>2, <1>3, Changed
  <2>2. f.proc = Top.proc /\ f.name = Top.name /\ f.ask = Top.ask
    BY <1>2, <1>3, FrameFields
  <2> QED BY <2>1, <2>2
<1>5. f.name \in Loaded /\ f.name \in IF f.proc = "tel" THEN TelListener ELSE IrcListener
  BY <1>1, <1>2, <1>4
<1>6. ASSUME stack' = Under(f), mode' = mode, OrderedIn(list', Loaded),
             DOMAIN list'.node = Loaded
      PROVE  Tame(list', stack', result', mode')
  BY <1>1, <1>4, <1>5, <1>6, EventGoesOn
<1>7. CASE Top.proc = "tel" /\ Top.name = Commander
  <2>1. PICK a \in Name : a = Top.ask
    BY <1>2, <1>7
  <2>2. a \in Asked /\ \A m \in StartsWith[a] : Apart(m)
    BY <1>2, <1>7, <2>1 DEF Tidy
  <2>3. Len(stack) # MaxDepth
    BY <1>2 DEF Tidy
  <2>4. ASSUME NEW n \in Name, Apart(n), n \in Range(Dir) \ Broken, NEW proc \in {"load", "unload"},
               stack' = Append(Under(f), Frame(proc, n)), mode' = mode,
               \/ n \in Loaded /\ list' = list
               \/ n \notin Loaded /\ list' = Appended(list, n)
        PROVE  Tame(list', stack', result', mode')
    BY <1>1, <1>4, <1>7, <2>4, CommandGoesOn
  <2>5. CASE Top.ret = "load"
    <3>1. Load(a, f)
      BY <1>2, <1>3, <1>7, <2>1, <2>5 DEF CallListener
    <3>2. CASE File(a) = 0
      <4>1. stack' = Under(f) /\ list' = list /\ mode' = mode
        BY <3>1, <3>2 DEF Load
      <4>2. OrderedIn(list', Loaded) /\ DOMAIN list'.node = Loaded
        BY <1>2, <4>1 DEF Loaded
      <4> QED BY <1>6, <4>1, <4>2
    <3>3. CASE File(a) # 0
      <4>1. PICK n : n = Dir[File(a)]
        OBVIOUS
      <4>2. n \in Name /\ n \in Range(Dir) /\ Apart(n)
        BY <2>2, <3>3, <4>1, FileIs, Sequences
      <4>3. LoadPlugin(n, f)
        BY <3>1, <3>3, <4>1 DEF Load
      <4>4. n \notin Invalid
        BY <4>2 DEF Tidy
      <4>5. list.last # NoName
        BY <1>2, <1>7, LastOfSome DEF Loaded
      <4>6. /\ mode' = mode
            /\ n \in Loaded => stack' = Under(f) /\ list' = list
            /\ n \notin Loaded /\ n \in Broken =>
                  stack' = Under(f) /\ list' = Dropped(Appended(list, n), n)
            /\ n \notin Loaded \cup Broken =>
                  /\ stack' = Append(Under(f), Frame("load", n))
                  /\ list' = Appended(list, n)
        BY <1>1, <2>3, <4>2, <4>3, <4>4, <4>5, LoadPluginDoes
      <4>7. CASE n \in Loaded \cup Broken
        <5>1. stack' = Under(f)
          BY <4>6, <4>7
        <5>2. list' = list \/ (n \notin Loaded /\ list.last # NoName
                               /\ list' = Dropped(Appended(list, n), n))
          BY <4>5, <4>6, <4>7
        <5>3. OrderedIn(list', Loaded) /\ DOMAIN list'.node = Loaded
          BY <1>2, <4>2, <5>2, ListStays
        <5> QED BY <1>6, <4>6, <5>1, <5>3
      <4>8. CASE n \notin Loaded \cup Broken
        <5>1. stack' = Append(Under(f), Frame("load", n)) /\ list' = Appended(list, n)
          BY <4>6, <4>8
        <5> QED BY <2>4, <4>2, <4>6, <4>8, <5>1
      <4> QED BY <4>7, <4>8
    <3> QED BY <3>2, <3>3
  <2>6. CASE Top.ret # "load"
    <3>1. Unload(a, f)
      BY <1>2, <1>3, <1>7, <2>1, <2>6 DEF CallListener
    <3>2. list' = list
      BY <3>1 DEF Unload
    <3>3. CASE Matching(a) = 0
      <4>1. stack' = Under(f) /\ mode' = mode
        BY <3>1, <3>3 DEF Unload
      <4>2. OrderedIn(list', Loaded) /\ DOMAIN list'.node = Loaded
        BY <1>2, <3>2 DEF Loaded
      <4> QED BY <1>6, <4>1, <4>2
    <3>4. CASE Matching(a) # 0
      <4>1. PICK n : n = Walk[Matching(a)]
        OBVIOUS
      <4>2. n \in Loaded /\ n \in StartsWith[a]
        BY <1>1, <3>4, <4>1, MatchingIs
      <4>3. n \in Name /\ Apart(n) /\ n \in Range(Dir) \ Broken
        BY <1>2, <2>2, <4>2
      <4>4. stack' = Append(Under(f), Frame("unload", n)) /\ mode' = mode
        BY <2>3, <3>1, <3>4, <4>1 DEF Unload
      <4> QED BY <2>4, <3>2, <4>2, <4>3, <4>4
    <3> QED BY <3>3, <3>4
  <2> QED BY <2>5, <2>6
<1>8. CASE ~(Top.proc = "tel" /\ Top.name = Commander)
  <2>1. stack' = Under(f) /\ UNCHANGED <<list, result, mode>>
    BY <1>2, <1>3, <1>8 DEF CallListener
  <2>2. OrderedIn(list', Loaded) /\ DOMAIN list'.node = Loaded
    BY <1>2, <2>1 DEF Loaded
  <2> QED BY <1>6, <2>1, <2>2
<1> QED BY <1>7, <1>8

\* It returns to a listener that is still there.
LEMMA ListenerReturnsTame ==
    ASSUME Tidy, TInv, ListenerReturns PROVE Tame(list', stack', result', mode')
<1>1. /\ stack # <<>> /\ mode # "crashed" /\ Top.proc \in {"tel", "irc"} /\ Top.name # NoName
      /\ IInv
  BY DEF ListenerReturns, Running, TInv
<1>2. /\ Len(stack) = 1 /\ Top \in Frames /\ Top.name \in Loaded /\ OrderedIn(list, Loaded)
      /\ mode = "running" /\ Top.name \in Name
      /\ Top.proc = "irc" => Top.name \in IrcListener
      /\ Top.proc = "tel" => Top.name \in TelListener
  BY <1>1, OnEvent
<1>3. PICK e \in {"tel", "irc"} : e = Top.proc
  BY <1>1
<1>4. PICK R : R = IF e = "tel" THEN TelListener ELSE IrcListener
  OBVIOUS
<1>5. PICK next : next = NextListener(e, Top.name)
  OBVIOUS
<1>6. InChain(e, Top.name) /\ (next # NoName => next \in R /\ next \in Loaded)
  <2>1. Top.name \in R
    BY <1>1, <1>2, <1>3, <1>4
  <2>2. mode \notin {"crashed", "ended"} /\ Top.proc \notin {"load", "unload"}
    BY <1>1, <1>2
  <2>3. /\ \A n \in R : n \in Loaded => InChain(e, n)
        /\ \A n : InChain(e, n) /\ NextListener(e, n) # NoName =>
              NextListener(e, n) \in R /\ NextListener(e, n) \in Loaded
    BY <1>1, <1>4, <2>2, CalledAreLoaded
  <2> QED BY <1>2, <1>5, <2>1, <2>3
<1>7. /\ UNCHANGED <<list, result, mode>>
      /\ \E cancel \in BOOLEAN :
            stack' = Under([Top EXCEPT !.wait = FALSE,
                                       !.name = IF cancel THEN NoName ELSE next])
  BY <1>2, <1>3, <1>5, <1>6 DEF ListenerReturns
<1>8. PICK m : /\ m # NoName => m \in R /\ m \in Loaded
               /\ stack' = Under([Top EXCEPT !.wait = FALSE, !.name = m])
  <2>1. PICK cancel \in BOOLEAN :
            stack' = Under([Top EXCEPT !.wait = FALSE,
                                       !.name = IF cancel THEN NoName ELSE next])
    BY <1>7
  <2>2. CASE cancel
    BY <2>1, <2>2
  <2>3. CASE ~cancel
    BY <1>6, <2>1, <2>3
  <2> QED BY <2>2, <2>3
<1>9. m \in Name \cup {NoName}
  <2>1. Loaded \subseteq Name
    BY <1>1, IInvTyped DEF TypeOK
  <2> QED BY <1>8, <2>1
<1>10. PICK f : f = [Top EXCEPT !.wait = FALSE, !.name = m]
  OBVIOUS
<1>11. f \in Frames /\ f.proc = Top.proc /\ f.name = m /\ f.ask = Top.ask
  <2>1. f \in Frames
    BY <1>2, <1>9, <1>10, Changed
  <2>2. f.proc = Top.proc /\ f.name = m /\ f.ask = Top.ask
    BY <1>2, <1>10, FrameFields
  <2> QED BY <2>1, <2>2
<1>12. f.name # NoName =>
         f.name \in Loaded /\ f.name \in IF f.proc = "tel" THEN TelListener ELSE IrcListener
  BY <1>3, <1>4, <1>8, <1>11
<1>13. OrderedIn(list', Loaded) /\ DOMAIN list'.node = Loaded
  BY <1>2, <1>7 DEF Loaded
<1>14. stack' = Under(f) /\ mode' = mode
  BY <1>7, <1>8, <1>10
<1> QED BY <1>1, <1>11, <1>12, <1>13, <1>14, EventGoesOn

LEMMA FireEndsTame == ASSUME Tidy, TInv, FireEnds PROVE Tame(list', stack', result', mode')
<1>1. /\ stack # <<>> /\ mode # "crashed" /\ Top.proc \in {"tel", "irc"} /\ IInv
  BY DEF FireEnds, Running, TInv
<1>2. /\ Len(stack) = 1 /\ Top \in Frames /\ OrderedIn(list, Loaded) /\ mode = "running"
      /\ Loaded \subseteq Range(Dir) \ Broken
      /\ \A n \in Loaded : Needs(n) \subseteq Loaded
      /\ Top.proc = "tel" => Telnet \in Loaded
  BY <1>1, OnEvent
<1>3. stack' = Front(stack) /\ UNCHANGED <<list, result, mode>>
  BY <1>2 DEF FireEnds
<1>4. PICK t : t = stack'
  OBVIOUS
<1>5. t = <<>>
  BY <1>1, <1>2, <1>3, <1>4, CallsLaid
<1>6. Len(t) = 0
  BY <1>5, EmptySeq
<1>7. Serving(t, Loaded)
  BY <1>2, <1>6 DEF Serving
<1>8. PICK r : r = result'
  OBVIOUS
<1>9. Tame(list, t, r, "running")
  BY <1>2, <1>7, OnCommandStill DEF Loaded
<1> QED BY <1>2, <1>3, <1>4, <1>8, <1>9

\* An event is fired from the main loop: its first listener is there.
LEMMA Fires ==
    ASSUME Tidy, TInv, Idle, NEW e \in {"tel", "irc"}, NEW f \in Frames, f.proc = e,
           f.name = HeadOf(e), e = "tel" => f.ask \in Asked /\ Telnet \in Loaded,
           stack' = <<f>>, UNCHANGED <<list, mode>>
    PROVE  Tame(list', stack', result', mode')
<1>1. IInv /\ mode = "running" /\ stack = <<>>
  BY DEF TInv, Idle
<1>2. /\ Serving(stack, Loaded) /\ OrderedIn(list, Loaded) /\ Loaded \subseteq Range(Dir) \ Broken
  BY <1>1, OnCommand
<1>3. PICK R : R = IF e = "tel" THEN TelListener ELSE IrcListener
  OBVIOUS
<1>4. HeadOf(e) # NoName => HeadOf(e) \in R /\ HeadOf(e) \in Loaded
  BY <1>1, <1>3, CalledAreLoaded
<1>5. PICK t : t = <<f>>
  OBVIOUS
<1>6. Len(t) = 1 /\ t[1] = f
  BY <1>5
<1>7. PICK L : L = Loaded
  OBVIOUS
<1>8. Serving(t, L)
  <2>1. \A n \in L : Needs(n) \subseteq L
    BY <1>2, <1>7 DEF Serving
  <2>2. \/ f.proc = "irc" /\ (f.name # NoName => f.name \in IrcListener)
        \/ /\ f.proc = "tel" /\ (f.name # NoName => f.name \in TelListener)
           /\ Telnet \in L /\ f.ask \in Asked
    BY <1>3, <1>4, <1>7
  <2>3. f.name # NoName => f.name \in L
    BY <1>4, <1>7
  <2> QED BY <1>6, <2>1, <2>2, <2>3 DEF Serving
<1>9. PICK r : r = result'
  OBVIOUS
<1>10. Tame(list, t, r, "running")
  BY <1>2, <1>7, <1>8, OnCommandStill DEF Loaded
<1>11. stack' = t /\ list' = list /\ mode' = "running"
  BY <1>1, <1>5
<1> QED BY <1>9, <1>10, <1>11

LEMMA TelnetCommandTame ==
    ASSUME Tidy, TInv, NEW op \in {"load", "unload"}, NEW n \in Asked, TelnetCommand(op, n)
    PROVE  Tame(list', stack', result', mode')
<1>1. PICK h : h = HeadOf("tel")
  OBVIOUS
<1>2. IInv
  BY DEF TInv
<1>3. h \in Name \cup {NoName}
  BY <1>1, <1>2, Listener
<1>4. PICK f : f = [Frame("tel", h) EXCEPT !.ret = op, !.ask = n]
  OBVIOUS
<1>5. Idle /\ Telnet \in Loaded /\ stack' = <<f>> /\ UNCHANGED <<list, mode>>
  BY <1>1, <1>4 DEF TelnetCommand
<1>6. n \in Name
  BY PluginsAssumption DEF PluginsAssumption
<1>7. f = [proc |-> "tel", name |-> h, at |-> 1, wait |-> FALSE, done |-> TRUE,
           ret |-> op, ask |-> n]
  BY <1>4 DEF Frame
<1>8. f \in Frames /\ f.proc = "tel" /\ f.name = HeadOf("tel") /\ f.ask \in Asked
  BY <1>1, <1>3, <1>6, <1>7 DEF Frames
<1> QED BY <1>5, <1>8, Fires

LEMMA IrcEventTame == ASSUME Tidy, TInv, IrcEvent PROVE Tame(list', stack', result', mode')
<1>1. PICK h : h = HeadOf("irc")
  OBVIOUS
<1>2. IInv
  BY DEF TInv
<1>3. h \in Name \cup {NoName}
  BY <1>1, <1>2, Listener
<1>4. PICK f : f = Frame("irc", h)
  OBVIOUS
<1>5. Idle /\ stack' = <<f>> /\ UNCHANGED <<list, mode>>
  BY <1>1, <1>4 DEF IrcEvent
<1>6. f \in Frames /\ f.proc = "irc" /\ f.name = HeadOf("irc")
  BY <1>1, <1>3, <1>4, NewFrame
<1> QED BY <1>5, <1>6, Fires

\* A timer is called back into a plugin that is there.
LEMMA TestTimersTame == ASSUME Tidy, TInv, TestTimers PROVE Tame(list', stack', result', mode')
<1>1. IInv /\ mode = "running" /\ stack = <<>>
  BY DEF TInv, TestTimers, Idle
<1>2. Range(timerOwners) \subseteq Loaded
  BY <1>1, CalledAreLoaded
<1>3. UNCHANGED <<list, stack, result, mode>>
  BY <1>2 DEF TestTimers, vars
<1> QED BY <1>3 DEF TInv

LEMMA QuitTame == ASSUME Tidy, TInv, Quit PROVE Tame(list', stack', result', mode')
<1>1. PICK h : h = list.first
  OBVIOUS
<1>2. IInv /\ mode = "running"
  BY DEF TInv, Quit, Idle
<1>3. h \in Name \cup {NoName}
  BY <1>1, <1>2, IInvTyped DEF TypeOK
<1>4. PICK f : f = Frame("close", h)
  OBVIOUS
<1>5. PICK t : t = <<f>>
  OBVIOUS
<1>6. stack' = t /\ list' = list /\ mode' = "closing"
  BY <1>1, <1>4, <1>5 DEF Quit
<1>7. f.proc = "close" /\ f.name = h
  BY <1>3, <1>4, NewFrame
<1>8. Len(t) = 1 /\ t[1] = f
  BY <1>5
<1>9. Closing(t, list)
  BY <1>1, <1>7, <1>8 DEF Closing
<1>10. PICK r : r = result'
  OBVIOUS
<1>11. Tame(list, t, r, "closing")
  BY <1>2, <1>9, OnCommand, OnClosingStill DEF Loaded
<1> QED BY <1>6, <1>10, <1>11

\* The listeners that irclib_close calls are there.
LEMMA ShutdownTame == ASSUME Tidy, TInv, Shutdown PROVE Tame(list', stack', result', mode')
<1>1. IInv /\ mode = "closed" /\ stack = <<>>
  BY DEF TInv, Shutdown, IInv, Kept
<1>2. Range(chains.irc) \subseteq Loaded
  BY <1>1, CalledAreLoaded
<1>3. list' = list /\ mode' = "ended"
  BY <1>2 DEF Shutdown
<1> QED BY <1>3 DEF TInv, Tame

-----------------------------------------------------------------------------
(* The theorems about a tidy directory.                                    *)

\* plugins_loaddir begins in the invariant.
LEMMA InitTInv == ASSUME Init PROVE TInv
<1>1. IInv
  BY InitIInv
<1>2. PICK f : f = Frame("dir", NoName)
  OBVIOUS
<1>3. list = EmptyList /\ stack = <<f>> /\ mode = "starting"
  BY <1>2 DEF Init
<1>4. f.proc = "dir" /\ f.at = 1
  BY <1>2 DEF Frame
<1>5. PICK t : t = <<f>>
  OBVIOUS
<1>6. Len(t) = 1 /\ t[1] = f
  BY <1>5
<1>7. PICK k \in Nat : k = 0
  OBVIOUS
<1>8. Len(Dir) \in Nat
  BY Sequences
<1>9. t[1].proc = "dir" /\ t[1].at = k + 1 /\ k <= Len(Dir)
  BY <1>4, <1>6, <1>7, <1>8
<1>10. PICK l : l = list
  OBVIOUS
<1>11. DOMAIN l.node = {} /\ Fits(k) = {}
  BY <1>3, <1>7, <1>10, NoFits, EmptySeq DEF EmptyList
<1>12. PICK o \in Seq(Name) : Linked(l, o)
  BY <1>1, <1>10 DEF IInv, Typed
<1>13. Sorted(o, Fits(k))
  BY <1>11 DEF Sorted
<1>14. OrderedIn(l, Fits(k))
  BY <1>12, <1>13 DEF OrderedIn
<1>15. PICK r : r = result
  OBVIOUS
<1>16. Tame(l, t, r, "starting")
  BY <1>6, <1>8, <1>9, <1>11, <1>14, OnFileDone
<1> QED BY <1>1, <1>3, <1>5, <1>10, <1>15, <1>16 DEF TInv

\* Every step keeps it.
LEMMA NextTInv == ASSUME Tidy, TInv, [Next]_vars PROVE TInv'
<1>1. IInv'
  BY NextIInv DEF TInv
<1>2. ASSUME UNCHANGED vars PROVE Tame(list', stack', result', mode')
  BY <1>2 DEF vars, TInv
<1>3. ASSUME NEW op \in {"load", "unload"}, NEW n \in Asked, TelnetCommand(op, n)
      PROVE  Tame(list', stack', result', mode')
  BY <1>3, TelnetCommandTame
<1>4. Step => Tame(list', stack', result', mode')
  BY LoadDirTame, LoadDirEndsTame, LoadDepTame, DepLoadedTame, LoadEndsTame, UnloadDepTame,
     UnloadEndsTame, CloseTame, CloseEndsTame, CallListenerTame, ListenerReturnsTame,
     FireEndsTame, ShutdownTame DEF Step
<1>5. Tame(list', stack', result', mode')
  BY <1>2, <1>3, <1>4, IrcEventTame, TestTimersTame, QuitTame DEF Next
<1> QED BY <1>1, <1>5 DEF TInv

\* It holds in every behaviour of the loader.
LEMMA SpecTInv == ASSUME Tidy PROVE Spec => []TInv
<1>1. Init => TInv
  BY InitTInv
<1>2. TInv /\ [Next]_vars => TInv'
  BY NextTInv
<1> QED BY <1>1, <1>2, PTL DEF Spec

\* plugins.c, events.c, timers.c: in a tidy directory nobody reads or calls a
\* plugin, a listener or a timer that has been freed, through every load, failed
\* load, unload and command, in plugins_close and in irclib_close behind it.
THEOREM LoaderMemorySafe == ASSUME Tidy PROVE Spec => []MemorySafe
<1>1. TInv => MemorySafe
  BY DEF TInv, Tame, MemorySafe
<1> QED BY <1>1, SpecTInv, PTL

\* plugins.c: in a tidy directory all that a loaded plugin depends on is loaded
\* between two commands, whatever failed before.
THEOREM LoaderDepsLoaded == ASSUME Tidy PROVE Spec => []DepsLoaded
<1>1. TInv => DepsLoaded
  BY OnCommand DEF Idle, DepsLoaded, Serving, Needs
<1> QED BY <1>1, SpecTInv, PTL
=============================================================================
