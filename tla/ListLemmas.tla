----------------------------- MODULE ListLemmas -----------------------------
(***************************************************************************)
(* Facts about the linked lists of the program, modelled as sequences:     *)
(* what appending to a list and taking an element out of it do to the set  *)
(* of its elements, and that a nonempty set of positions has a first one.  *)
(***************************************************************************)
EXTENDS Naturals, Sequences, SequencesExt, SequenceTheorems,
        WellFoundedInduction, TLAPS

\* A nonempty set of positions of a list has a least element: what the lookups
\* that scan a list from its head find.
LEMMA LeastPosition ==
    ASSUME NEW P \in SUBSET Nat, P # {}
    PROVE  \E i \in P : \A j \in P : i <= j
<1>1. PICK i \in P : \A j \in P : ~(<<j, i>> \in OpToRel(<, Nat))
  BY WFMin, NatLessThanWellFounded
<1>2. \A j \in P : ~(j < i)
  BY <1>1 DEF OpToRel
<1> QED BY <1>2

\* Removing position k of a list keeps the others, in order.
LEMMA RemoveAtPositions ==
    ASSUME NEW S, NEW list \in Seq(S), NEW k \in 1..Len(list)
    PROVE  /\ RemoveAt(list, k) \in Seq(S)
           /\ Len(RemoveAt(list, k)) = Len(list) - 1
           /\ \A i \in 1..Len(list)-1 :
                RemoveAt(list, k)[i] = IF i < k THEN list[i] ELSE list[i+1]
<1> DEFINE left == SubSeq(list, 1, k-1)
           right == SubSeq(list, k+1, Len(list))
<1>0. Len(list) \in Nat /\ \A i \in 1..Len(list) : list[i] \in S
  BY LenProperties, ElementOfSeq
<1>1. /\ left \in Seq(S) /\ Len(left) = k-1
      /\ \A i \in 1..k-1 : left[i] = list[i]
  BY <1>0, SubSeqProperties, Z3
<1>2. /\ right \in Seq(S) /\ Len(right) = Len(list) - k
      /\ \A i \in 1..Len(list)-k : right[i] = list[k+i]
  BY <1>0, SubSeqProperties, Z3
<1> HIDE DEF left, right
<1>3. RemoveAt(list, k) = left \o right
  BY DEF RemoveAt, left, right
<1>4. /\ left \o right \in Seq(S)
      /\ Len(left \o right) = Len(left) + Len(right)
      /\ \A i \in 1..Len(left) + Len(right) :
           (left \o right)[i] = IF i <= Len(left) THEN left[i] ELSE right[i - Len(left)]
  BY <1>1, <1>2, ConcatProperties
<1>5. ASSUME NEW i \in 1..Len(list)-1
      PROVE  (left \o right)[i] = IF i < k THEN list[i] ELSE list[i+1]
  <2>1. CASE i < k
    BY <1>0, <1>1, <1>2, <1>4, <2>1
  <2>2. CASE ~(i < k)
    <3>1. i - (k-1) \in 1..Len(list)-k /\ k + (i - (k-1)) = i+1
      BY <1>0, <2>2
    <3>2. (left \o right)[i] = right[i - (k-1)]
      BY <1>0, <1>1, <1>2, <1>4, <2>2
    <3> QED BY <1>2, <2>2, <3>1, <3>2
  <2> QED BY <2>1, <2>2
<1> QED BY <1>0, <1>1, <1>2, <1>3, <1>4, <1>5

\* Where each element was, of a list that has lost position k.
Origin(list, k) == [i \in 1..Len(list) - 1 |-> IF i < k THEN i ELSE i + 1]

\* What is left of a list is the list, but for position k.
LEMMA RemoveAtOrigin ==
    ASSUME NEW S, NEW list \in Seq(S), NEW k \in 1..Len(list), NEW rest,
           rest = RemoveAt(list, k), NEW from, from = Origin(list, k)
    PROVE  /\ rest \in Seq(S)
           /\ \A i \in DOMAIN rest : /\ from[i] \in DOMAIN list /\ from[i] # k
                                     /\ rest[i] = list[from[i]]
           /\ \A i, j \in DOMAIN rest : from[i] = from[j] => i = j
           /\ \A m \in DOMAIN list : m # k => \E i \in DOMAIN rest : from[i] = m
<1> DEFINE to(i) == IF i < k THEN i ELSE i + 1
<1>0. Len(list) \in Nat /\ DOMAIN list = 1..Len(list)
  BY LenProperties
<1>1. /\ rest \in Seq(S) /\ Len(rest) = Len(list) - 1
      /\ \A i \in 1..Len(list) - 1 : rest[i] = list[to(i)]
  BY <1>0, RemoveAtPositions
<1>2. DOMAIN rest = 1..Len(list) - 1
  BY <1>1, LenProperties
<1>3. \A i \in 1..Len(list) - 1 : to(i) \in 1..Len(list) /\ to(i) # k
  BY <1>0
<1>4. \A i, j \in 1..Len(list) - 1 : to(i) = to(j) => i = j
  BY <1>0
<1>5. ASSUME NEW m \in 1..Len(list), m # k
      PROVE  \E i \in 1..Len(list) - 1 : to(i) = m
  <2>1. CASE m < k
    BY <1>0, <2>1
  <2>2. CASE ~(m < k)
    <3>1. m - 1 \in 1..Len(list) - 1 /\ to(m - 1) = m
      BY <1>0, <1>5, <2>2
    <3> QED BY <3>1
  <2> QED BY <2>1, <2>2
<1> HIDE DEF to
<1>6. \A i \in 1..Len(list) - 1 : from[i] = to(i)
  BY DEF Origin, to
<1>7. \A i \in DOMAIN rest : /\ from[i] \in DOMAIN list /\ from[i] # k
                             /\ rest[i] = list[from[i]]
  BY <1>0, <1>1, <1>2, <1>3, <1>6
<1>8. \A i, j \in DOMAIN rest : from[i] = from[j] => i = j
  BY <1>2, <1>4, <1>6
<1>9. \A m \in DOMAIN list : m # k => \E i \in DOMAIN rest : from[i] = m
  BY <1>0, <1>2, <1>5, <1>6
<1> QED BY <1>1, <1>7, <1>8, <1>9

\* ll_remove of an element of a list that holds each element once.
LEMMA RemoveElement ==
    ASSUME NEW S, NEW list \in Seq(S), IsInjective(list),
           NEW k \in DOMAIN list
    PROVE  /\ RemoveAt(list, k) \in Seq(S)
           /\ IsInjective(RemoveAt(list, k))
           /\ Range(RemoveAt(list, k)) = Range(list) \ {list[k]}
<1> DEFINE rest == RemoveAt(list, k)
           from(i) == IF i < k THEN i ELSE i+1
<1>0. Len(list) \in Nat /\ DOMAIN list = 1..Len(list)
  BY LenProperties
<1>1. /\ rest \in Seq(S) /\ Len(rest) = Len(list) - 1
      /\ \A i \in 1..Len(list)-1 : rest[i] = list[from(i)]
  BY <1>0, RemoveAtPositions
<1>2. DOMAIN rest = 1..Len(list)-1
  BY <1>1, LenProperties
<1>3. \A i \in 1..Len(list)-1 : from(i) \in 1..Len(list) /\ from(i) # k
  BY <1>0
<1>4. \A i, j \in 1..Len(list)-1 : from(i) = from(j) => i = j
  BY <1>0
<1>5. \A m \in 1..Len(list) : m # k => \E i \in 1..Len(list)-1 : from(i) = m
  <2> SUFFICES ASSUME NEW m \in 1..Len(list), m # k
               PROVE  \E i \in 1..Len(list)-1 : from(i) = m
    OBVIOUS
  <2>1. CASE m < k
    BY <1>0, <2>1
  <2>2. CASE ~(m < k)
    <3>1. m-1 \in 1..Len(list)-1 /\ from(m-1) = m
      BY <1>0, <2>2
    <3> QED BY <3>1
  <2> QED BY <2>1, <2>2
<1> HIDE DEF rest, from
<1>6. IsInjective(rest)
  <2> SUFFICES ASSUME NEW i \in DOMAIN rest, NEW j \in DOMAIN rest, rest[i] = rest[j]
               PROVE  i = j
    BY DEF IsInjective
  <2>1. list[from(i)] = list[from(j)]
    BY <1>1, <1>2
  <2>2. from(i) = from(j)
    BY <1>0, <1>2, <1>3, <2>1 DEF IsInjective
  <2> QED BY <1>2, <1>4, <2>2
<1>7. Range(rest) \subseteq Range(list) \ {list[k]}
  <2> SUFFICES ASSUME NEW i \in DOMAIN rest
               PROVE  rest[i] \in Range(list) /\ rest[i] # list[k]
    BY DEF Range
  <2>1. rest[i] = list[from(i)] /\ from(i) \in DOMAIN list /\ from(i) # k
    BY <1>0, <1>1, <1>2, <1>3
  <2> QED BY <2>1 DEF Range, IsInjective
<1>8. Range(list) \ {list[k]} \subseteq Range(rest)
  <2> SUFFICES ASSUME NEW m \in DOMAIN list, list[m] # list[k]
               PROVE  list[m] \in Range(rest)
    BY DEF Range
  <2>1. PICK i \in 1..Len(list)-1 : from(i) = m
    BY <1>0, <1>5
  <2> QED BY <1>1, <1>2, <2>1 DEF Range
<1> QED BY <1>1, <1>6, <1>7, <1>8 DEF rest

\* ll_append of an element that the list does not hold.
LEMMA AppendElement ==
    ASSUME NEW S, NEW list \in Seq(S), NEW e \in S
    PROVE  /\ Append(list, e) \in Seq(S)
           /\ Range(Append(list, e)) = Range(list) \cup {e}
           /\ IsInjective(list) /\ e \notin Range(list) =>
                IsInjective(Append(list, e))
<1>0. Len(list) \in Nat /\ DOMAIN list = 1..Len(list)
  BY LenProperties
<1>1. /\ Append(list, e) \in Seq(S)
      /\ Len(Append(list, e)) = Len(list) + 1
      /\ \A i \in 1..Len(list) : Append(list, e)[i] = list[i]
      /\ Append(list, e)[Len(list)+1] = e
  BY AppendProperties
<1>2. DOMAIN Append(list, e) = 1..Len(list)+1
  BY <1>1, LenProperties
<1>3. Range(Append(list, e)) = Range(list) \cup {e}
  BY <1>0, <1>1, <1>2 DEF Range
<1>4. ASSUME IsInjective(list), e \notin Range(list)
      PROVE  IsInjective(Append(list, e))
  BY <1>0, <1>1, <1>2, <1>4 DEF Range, IsInjective
<1> QED BY <1>1, <1>3, <1>4
=============================================================================
