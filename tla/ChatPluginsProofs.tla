--------------------------- MODULE ChatPluginsProofs ---------------------------
(***************************************************************************)
(* Proofs about the plugins that live by the channel, for all values of    *)
(* their constants: pivo and kofola (Drinks) never serve more than the     *)
(* store holds and receives; the frog of dummytalk (Frog) does not flood   *)
(* the channel, and is kissed by whom it was shown to; and the bot knows   *)
(* its own name and channels whatever keepnick, autojoin, the server and   *)
(* others do to them (IrcSession).  The three share no state.              *)
(***************************************************************************)
EXTENDS Drinks, Frog, IrcSession, Integers, SequenceTheorems, TLAPS

-----------------------------------------------------------------------------
(* Arithmetic: a product with one more, with no less, and a quotient.      *)

\* A product with one more.
LEMMA OneMore ==
    ASSUME NEW s \in Nat, NEW k \in Int
    PROVE  s * k \in Int /\ s * (k + 1) = s * k + s
BY Z3

\* A product with no less.
LEMMA NoLess ==
    ASSUME NEW s \in Nat, NEW k \in Int, NEW m \in Int, k <= m
    PROVE  s * k <= s * m
BY Z3

\* What a quotient is between.
LEMMA Quotient ==
    ASSUME NEW s \in Nat \ {0}, NEW a \in Int
    PROVE  a \div s \in Int /\ s * (a \div s) <= a /\ a < s * (a \div s) + s
BY Z3

-----------------------------------------------------------------------------
(* The drinks.                                                             *)

Store == Span * MaxPiv

TypeOK ==
    /\ clock \in Nat /\ Store <= clock
    /\ last \in [Drink -> Int]
    /\ served \in [Drink -> Seq(Nat)]
    /\ \A d \in Drink : last[d] <= clock

\* The drinks from the i-th on took so much of the store as last is ahead of the
\* moment at which the i-th one was served from a store that was just full.
Accounted(d) ==
    \A i \in 1..Len(served[d]) :
        Span * (Len(served[d]) - i + 1) < Store + Span + last[d] - served[d][i]

Bounded(d) ==
    \A i, j \in 1..Len(served[d]) :
        i <= j => Span * (j - i + 1) < Store + Span + served[d][j] - served[d][i]

IInv == TypeOK /\ \A d \in Drink : Accounted(d) /\ Bounded(d)

\* The store takes at least one drink, and its size is a number.
LEMMA StoreNat == Store \in Nat /\ Store >= Span /\ Span \in Nat \ {0}
<1>1. Span \in Nat \ {0} /\ MaxPiv \in Nat \ {0}
  BY DrinksAssumption DEF DrinksAssumption
<1>2. Span * 1 <= Span * MaxPiv /\ Span * MaxPiv \in Int /\ Span * 1 = Span
  BY <1>1, NoLess, OneMore
<1> QED BY <1>1, <1>2 DEF Store

\* Nothing is served at first.
LEMMA InitIInv == ASSUME DrinksInit PROVE IInv
<1>1. Store \in Nat /\ clock = Store /\ \A d \in Drink : served[d] = <<>> /\ last[d] = 0
  BY StoreNat DEF DrinksInit, Store
<1>2. TypeOK
  BY <1>1, StoreNat DEF DrinksInit, TypeOK, Store
<1>3. \A d \in Drink : Len(served[d]) = 0
  BY <1>1
<1> QED BY <1>2, <1>3 DEF IInv, Accounted, Bounded

-----------------------------------------------------------------------------
(* An order.                                                               *)

\* An order sets last forward by Span at least, not beyond now, and by more only
\* when the store is full.
LEMMA OrderMoves ==
    ASSUME TypeOK, NEW d \in Drink, Order(d)
    PROVE  /\ last'[d] \in Int /\ last[d] + Span <= last'[d] /\ last'[d] <= clock
           /\ clock - Store < last'[d]
           /\ \A e \in Drink \ {d} : last'[e] = last[e] /\ served'[e] = served[e]
           /\ served'[d] = Append(served[d], clock)
           /\ last' \in [Drink -> Int] /\ served' \in [Drink -> Seq(Nat)]
           /\ clock' = clock
<1> DEFINE q == Left(d)
           a == clock - last[d]
<1>1. clock \in Nat /\ last[d] \in Int /\ a \in Int /\ Store <= clock
  BY DEF TypeOK
<1>2. Span \in Nat \ {0} /\ MaxPiv \in Nat \ {0} /\ Store \in Nat /\ Span <= Store
  BY StoreNat, DrinksAssumption DEF DrinksAssumption
<1>3. q \in Int /\ Span * q <= a /\ a < Span * q + Span
  BY <1>1, <1>2, Quotient DEF Left
<1>4. /\ q > 0 /\ last' = [last EXCEPT ![d] = Filled(d) + Span]
      /\ served' = [served EXCEPT ![d] = Append(@, clock)] /\ clock' = clock
  BY DEF Order
<1>5. last'[d] = Filled(d) + Span
  BY <1>4 DEF TypeOK
<1> HIDE DEF q
<1>6. Span <= a
  <2>1. Span * 1 <= Span * q /\ Span * 1 = Span
    BY <1>2, <1>3, <1>4, NoLess
  <2> QED BY <2>1, <1>1, <1>2, <1>3, OneMore
<1>7. CASE q > MaxPiv
  <2>1. Filled(d) = clock - Store
    BY <1>7 DEF Filled, Store, q
  <2>2. Store + Span <= a
    <3>1. Span * (MaxPiv + 1) <= Span * q
      BY <1>2, <1>3, <1>7, NoLess
    <3>2. Span * (MaxPiv + 1) = Store + Span
      BY <1>2, OneMore DEF Store
    <3> QED BY <3>1, <3>2, <1>1, <1>2, <1>3, OneMore
  <2> QED BY <2>1, <2>2, <1>1, <1>2, <1>4, <1>5 DEF TypeOK
<1>8. CASE ~(q > MaxPiv)
  <2>1. Filled(d) = last[d]
    BY <1>8 DEF Filled, q
  <2>2. a < Store + Span
    <3>1. Span * q <= Store
      BY <1>2, <1>3, <1>8, NoLess DEF Store
    <3> QED BY <3>1, <1>1, <1>2, <1>3, OneMore
  <2> QED BY <2>1, <2>2, <1>1, <1>2, <1>4, <1>5, <1>6 DEF TypeOK
<1> QED BY <1>3, <1>7, <1>8, <1>2

\* An order adds a drink, served now, and keeps those before it.
LEMMA OrderServes ==
    ASSUME TypeOK, NEW d \in Drink, Order(d)
    PROVE  LET n == Len(served[d])
           IN  /\ n \in Nat /\ \A i \in 1..n : served[d][i] \in Nat
               /\ Len(served'[d]) = n + 1 /\ served'[d][n + 1] = clock
               /\ \A i \in 1..n : served'[d][i] = served[d][i]
<1>1. served[d] \in Seq(Nat) /\ clock \in Nat
  BY DEF TypeOK
<1>2. served'[d] = Append(served[d], clock)
  BY OrderMoves
<1> QED BY <1>1, <1>2, LenProperties, ElementOfSeq, AppendProperties

\* The account of what the store gave stays true.
LEMMA OrderAccounted ==
    ASSUME TypeOK, NEW d \in Drink, Order(d), Accounted(d)
    PROVE  Accounted(d)'
<1> DEFINE n == Len(served[d])
<1>1. n \in Nat /\ \A i \in 1..n : served[d][i] \in Nat
  BY OrderServes
<1>2. /\ Len(served'[d]) = n + 1 /\ served'[d][n + 1] = clock
      /\ \A i \in 1..n : served'[d][i] = served[d][i]
  BY OrderServes
<1>3. /\ Store \in Nat /\ Span \in Nat \ {0} /\ Span <= Store /\ clock \in Nat
      /\ last[d] \in Int /\ last'[d] \in Int /\ last[d] + Span <= last'[d]
      /\ clock - Store < last'[d]
  BY StoreNat, OrderMoves DEF TypeOK
<1> HIDE DEF n
<1>4. ASSUME NEW i \in 1..(n + 1)
      PROVE  Span * ((n + 1) - i + 1) < Store + Span + last'[d] - served'[d][i]
  <2>1. CASE i = n + 1
    <3>1. (n + 1) - i + 1 = 1
      BY <2>1, <1>1
    <3>2. Span * ((n + 1) - i + 1) = Span
      BY <3>1, <1>3
    <3>3. served'[d][i] = clock
      BY <2>1, <1>2
    <3> QED BY <3>2, <3>3, <1>3
  <2>2. CASE i # n + 1
    <3>1. i \in 1..n
      BY <2>2, <1>1
    <3>2. Span * (n - i + 1) < Store + Span + last[d] - served[d][i]
      BY <3>1 DEF Accounted, n
    <3>3. Span * ((n - i + 1) + 1) = Span * (n - i + 1) + Span /\ Span * (n - i + 1) \in Int
      <4>1. n - i + 1 \in Int /\ Span \in Nat
        BY <3>1, <1>1, <1>3
      <4> QED BY ONLY <4>1, OneMore
    <3>4. (n + 1) - i + 1 = (n - i + 1) + 1
      BY <3>1, <1>1
    <3>5. served[d][i] \in Nat /\ served'[d][i] = served[d][i]
      BY <3>1, <1>1, <1>2
    <3> HIDE DEF n
    <3> QED BY <3>2, <3>3, <3>4, <3>5, <1>3
  <2> QED BY <2>1, <2>2
<1>5. Store' = Store
  BY DEF Store
<1> QED BY <1>2, <1>4, <1>5 DEF Accounted

\* The new drink is within the bound too, by the account.
LEMMA OrderBounded ==
    ASSUME TypeOK, NEW d \in Drink, Order(d), Accounted(d)', Bounded(d)
    PROVE  Bounded(d)'
<1> DEFINE n == Len(served[d])
<1>1. n \in Nat /\ \A i \in 1..n : served[d][i] \in Nat
  BY OrderServes
<1>2. /\ Len(served'[d]) = n + 1 /\ served'[d][n + 1] = clock
      /\ \A i \in 1..n : served'[d][i] = served[d][i]
  BY OrderServes
<1>3. /\ Store \in Nat /\ Span \in Nat \ {0} /\ clock \in Nat
      /\ last'[d] \in Int /\ last'[d] <= clock /\ Store' = Store
  BY StoreNat, OrderMoves DEF TypeOK, Store
<1>4. ASSUME NEW i \in 1..(n + 1), NEW j \in 1..(n + 1), i <= j
      PROVE  Span * (j - i + 1) < Store + Span + served'[d][j] - served'[d][i]
  <2>1. CASE j = n + 1
    <3>1. Span * ((n + 1) - i + 1) < Store + Span + last'[d] - served'[d][i]
      BY <1>2, <1>3 DEF Accounted
    <3>2. served'[d][i] \in Nat
      <4>1. i \in 1..n \/ i = n + 1
        BY <1>1
      <4> QED BY <4>1, <1>1, <1>2, <1>3
    <3>3. Span * ((n + 1) - i + 1) \in Int
      BY <1>1, <1>3, OneMore
    <3>4. Span * (j - i + 1) = Span * ((n + 1) - i + 1) /\ served'[d][j] = clock
      BY <2>1, <1>2
    <3> HIDE DEF n
    <3> QED BY <3>1, <3>2, <3>3, <3>4, <1>3
  <2>2. CASE j # n + 1
    <3>1. i \in 1..n /\ j \in 1..n
      BY <2>2, <1>1, <1>4
    <3> QED BY <3>1, <1>2, <1>4 DEF Bounded
  <2> QED BY <2>1, <2>2
<1> HIDE DEF n
<1> QED BY <1>2, <1>3, <1>4 DEF Bounded

\* An order keeps the invariant.
LEMMA OrderIInv ==
    ASSUME IInv, NEW d \in Drink, Order(d)
    PROVE  IInv'
<1>1. TypeOK /\ Accounted(d) /\ Bounded(d) /\ clock' = clock /\ Store' = Store
  BY OrderMoves DEF IInv, Store
<1>2. TypeOK'
  BY <1>1, OrderMoves DEF TypeOK
<1>3. Accounted(d)' /\ Bounded(d)'
  BY <1>1, OrderAccounted, OrderBounded
<1>4. ASSUME NEW e \in Drink, e # d PROVE Accounted(e)' /\ Bounded(e)'
  <2>1. last'[e] = last[e] /\ served'[e] = served[e]
    BY <1>1, <1>4, OrderMoves
  <2> QED BY <1>1, <2>1 DEF IInv, Accounted, Bounded
<1> QED BY <1>2, <1>3, <1>4 DEF IInv

\* Every step keeps the invariant.
LEMMA NextIInv == ASSUME IInv, [DrinksNext]_drinksVars PROVE IInv'
<1>1. CASE ClockTick
  <2>1. clock' = clock + 1 /\ last' = last /\ served' = served /\ Store' = Store
    BY <1>1 DEF ClockTick, Store
  <2>2. TypeOK'
    BY <2>1, StoreNat DEF IInv, TypeOK
  <2> QED BY <2>1, <2>2 DEF IInv, Accounted, Bounded
<1>2. CASE Pivo
  BY <1>2, OrderIInv DEF Pivo, Drink
<1>3. CASE Kofola
  BY <1>3, OrderIInv DEF Kofola, Drink
<1>4. CASE UNCHANGED drinksVars
  BY <1>4 DEF drinksVars, IInv, TypeOK, Accounted, Bounded, Store
<1> QED BY <1>1, <1>2, <1>3, <1>4 DEF DrinksNext

\* The invariant bounds what is served in any span of time.
LEMMA IInvBounds == ASSUME IInv PROVE DrinksBounded
<1>1. Span * (MaxPiv + 1) = Store + Span
  BY OneMore, DrinksAssumption DEF DrinksAssumption, Store
<1>2. \A d \in Drink : DOMAIN served[d] = 1..Len(served[d])
  BY LenProperties DEF IInv, TypeOK
<1> QED BY <1>1, <1>2 DEF IInv, Bounded, DrinksBounded

\* In no stretch of time does a plugin serve more than a full store, what came
\* into it meanwhile and the drink under way (pivo_command, kofola_command).
THEOREM NoDrinkTooMany == DrinksSpec => []DrinksBounded
<1>1. DrinksInit => IInv
  BY InitIInv
<1>2. IInv /\ [DrinksNext]_drinksVars => IInv'
  BY NextIInv
<1>3. IInv => DrinksBounded
  BY IInvBounds
<1> QED BY <1>1, <1>2, <1>3, PTL DEF DrinksSpec
-----------------------------------------------------------------------------
(* The frog.                                                               *)

\* The powers of two up to 2^20: Power[i + 1] is 2^i.
Power == <<1, 2, 4, 8, 16, 32, 64, 128, 256, 512, 1024, 2048, 4096, 8192, 16384,
           32768, 65536, 131072, 262144, 524288, 1048576>>

\* Each of them is twice the one before.
LEMMA PowersDouble ==
    /\ \A i \in 1..21 : Power[i] \in Nat /\ 1 <= Power[i] /\ Power[i] <= 1048576
    /\ \A i \in 1..20 : Power[i + 1] = 2 * Power[i]
    /\ \A i \in 12..21 : Power[i] > 1024
    /\ Power[1] = 1
<1>1. ASSUME NEW i \in 1..21 PROVE Power[i] \in Nat /\ 1 <= Power[i] /\ Power[i] <= 1048576
  BY <1>1 DEF Power
<1>2. ASSUME NEW i \in 1..20 PROVE Power[i + 1] = 2 * Power[i]
  BY <1>2 DEF Power
<1>3. ASSUME NEW i \in 12..21 PROVE Power[i] > 1024
  BY <1>3 DEF Power
<1> QED BY <1>1, <1>2, <1>3 DEF Power

FrogTypeOK ==
    /\ threshold \in Int /\ answers \in Nat /\ ignored \in Nat
    /\ frogs \in [Nick -> Nat] /\ kisses \in [Nick -> Nat]

\* Until twenty "kvak"s of a flood have been ignored, each one ignored doubles the
\* most that the threshold can be; each one answered doubles the least.
Calm ==
    ignored < 20 =>
        /\ 1 <= threshold /\ threshold <= 1024 * Power[ignored + 1]
        /\ ignored > 0 => threshold > 1024
        /\ answers <= 10
        /\ ignored = 0 => Power[answers + 1] <= threshold

FrogInv == FrogTypeOK /\ Calm /\ KissEarned

\* The frog has not been shown to anybody at first.
LEMMA FrogInvInit == ASSUME FrogInit PROVE FrogInv
<1>1. /\ threshold = 1 /\ answers = 0 /\ ignored = 0 /\ kissNick = None
      /\ frogs = [n \in Nick |-> 0] /\ kisses = [n \in Nick |-> 0]
  BY DEF FrogInit
<1>2. FrogTypeOK
  BY <1>1 DEF FrogTypeOK
<1>3. Calm
  BY <1>1, PowersDouble DEF Calm
<1>4. KissEarned
  BY <1>1, FrogAssumption DEF KissEarned, FrogAssumption
<1> QED BY <1>2, <1>3, <1>4 DEF FrogInv

\* A "kvak" that comes before twenty have been ignored: the threshold is doubled
\* and does not wrap.
LEMMA KvakCalm ==
    ASSUME FrogInv, NEW n \in Nick, Kvak(n) PROVE Calm'
<1>1. /\ threshold \in Int /\ answers \in Nat /\ ignored \in Nat
      /\ threshold' = Double(threshold)
      /\ \/ threshold' > 1024 /\ ignored' = ignored + 1 /\ answers' = answers
         \/ ~(threshold' > 1024) /\ ignored' = ignored /\ answers' = answers + 1
  BY DEF Kvak, FrogInv, FrogTypeOK
<1>2. SUFFICES ASSUME ignored' < 20
               PROVE  /\ 1 <= threshold' /\ threshold' <= 1024 * Power[ignored' + 1]
                      /\ ignored' > 0 => threshold' > 1024
                      /\ answers' <= 10
                      /\ ignored' = 0 => Power[answers' + 1] <= threshold'
  BY DEF Calm
<1>3. ignored < 20
  BY <1>1, <1>2
<1>4. /\ 1 <= threshold /\ threshold <= 1024 * Power[ignored + 1]
      /\ ignored > 0 => threshold > 1024
      /\ answers <= 10
      /\ ignored = 0 => Power[answers + 1] <= threshold
  BY <1>3 DEF FrogInv, Calm
<1>5. PICK most \in Nat : most = Power[ignored + 1]
  <2>1. ignored + 1 \in 1..21
    BY <1>1, <1>3
  <2> QED BY <2>1, PowersDouble
<1>6. most <= 524288 /\ Power[ignored + 2] = 2 * most
  <2>1. ignored + 1 \in 1..20 /\ ignored + 2 \in 1..21 /\ (ignored + 1) + 1 = ignored + 2
    BY <1>1, <1>3
  <2>2. Power[ignored + 2] = 2 * most /\ Power[ignored + 2] <= 1048576
    BY <1>5, <2>1, PowersDouble
  <2> QED BY <2>2
<1>7. threshold' = 2 * threshold
  BY <1>1, <1>4, <1>5, <1>6 DEF Double
<1>8. CASE threshold' > 1024
  <2>1. ignored' = ignored + 1 /\ answers' = answers
    BY <1>1, <1>8
  <2>2. Power[ignored' + 1] = 2 * most
    BY <1>1, <1>6, <2>1
  <2> QED BY <1>1, <1>4, <1>5, <1>7, <1>8, <2>1, <2>2
<1>9. CASE ~(threshold' > 1024)
  <2>1. ignored' = ignored /\ answers' = answers + 1 /\ ignored = 0
    BY <1>1, <1>4, <1>7, <1>9
  <2>2. PICK least \in Nat : least = Power[answers + 1]
    BY <1>1, <1>4, PowersDouble
  <2>3. Power[answers' + 1] = 2 * least
    <3>1. answers + 1 \in 1..20 /\ (answers + 1) + 1 = answers' + 1
      BY <1>1, <1>4, <2>1
    <3> QED BY <2>2, <3>1, PowersDouble
  <2>4. 2 * least <= 1024
    BY <1>1, <1>4, <1>7, <1>9, <2>1, <2>2
  <2>5. answers' <= 10
    <3>1. CASE answers = 10
      <4>1. answers' + 1 = 12
        BY <2>1, <3>1
      <4>2. Power[answers' + 1] > 1024
        BY <4>1, PowersDouble
      <4> QED BY <2>2, <2>3, <2>4, <4>2
    <3> QED BY <1>1, <1>4, <2>1, <3>1
  <2>6. ignored' = 0 /\ threshold' <= 1024 * Power[ignored' + 1]
    <3>1. Power[ignored' + 1] = 1 /\ ignored' = 0
      BY <2>1, PowersDouble
    <3> QED BY <1>1, <1>7, <1>9, <3>1
  <2> QED BY <1>1, <1>4, <1>7, <2>1, <2>2, <2>3, <2>5, <2>6
<1> QED BY <1>8, <1>9

\* The timer takes the threshold down, and not below 1.
LEMMA ClearCalm ==
    ASSUME FrogInv, ClearThreshold PROVE Calm'
<1>1. threshold \in Int /\ ignored \in Nat
  BY DEF FrogInv, FrogTypeOK
<1>2. /\ answers' = 0 /\ threshold' \in Int /\ 1 <= threshold'
      /\ threshold' <= threshold \/ threshold' = 1
      /\ ignored' = IF threshold' > 1024 THEN ignored ELSE 0
  BY <1>1 DEF ClearThreshold
<1>3. CASE threshold' > 1024
  <2>1. ignored' = ignored /\ threshold' <= threshold
    BY <1>1, <1>2, <1>3
  <2> SUFFICES ASSUME ignored' < 20
               PROVE  /\ 1 <= threshold' /\ threshold' <= 1024 * Power[ignored' + 1]
                      /\ ignored' > 0 => threshold' > 1024
                      /\ answers' <= 10
                      /\ ignored' = 0 => Power[answers' + 1] <= threshold'
    BY DEF Calm
  <2>2. ignored + 1 \in 1..21 /\ threshold <= 1024 * Power[ignored + 1]
    BY <1>1, <2>1 DEF FrogInv, Calm
  <2>3. PICK most \in Nat : most = Power[ignored + 1]
    BY <2>2, PowersDouble
  <2>4. threshold' <= 1024 * Power[ignored' + 1]
    BY <1>1, <1>2, <2>1, <2>2, <2>3
  <2> QED BY <1>2, <1>3, <2>4, PowersDouble
<1>4. CASE ~(threshold' > 1024)
  <2>1. ignored' = 0 /\ threshold' <= 1024 /\ Power[ignored' + 1] = 1
    BY <1>2, <1>4, PowersDouble
  <2>2. answers' = 0 /\ Power[answers' + 1] = 1
    BY <1>2, PowersDouble
  <2> QED BY <1>2, <2>1, <2>2 DEF Calm
<1> QED BY <1>3, <1>4

\* Every step keeps the invariant.
LEMMA FrogInvNext == ASSUME FrogInv, [FrogNext]_(frogVars) PROVE FrogInv'
<1>1. FrogTypeOK /\ Calm /\ KissEarned
  BY DEF FrogInv
<1>2. ASSUME NEW n \in Nick, ShowFrog(n)
      PROVE  frogs' \in [Nick -> Nat] /\ kisses' \in [Nick -> Nat] /\ (KissEarned)'
  BY <1>1, <1>2 DEF ShowFrog, FrogTypeOK, KissEarned
<1>3. ASSUME NEW n \in Nick, Kvak(n) PROVE FrogInv'
  <2>1. Calm'
    BY <1>3, KvakCalm
  <2>2. threshold' \in Int /\ answers' \in Nat /\ ignored' \in Nat
    BY <1>1, <1>3 DEF Kvak, Double, FrogTypeOK
  <2>3. ShowFrog(n) \/ UNCHANGED <<kissNick, kissTimers, frogs, kisses>>
    BY <1>3 DEF Kvak, kiss
  <2>4. frogs' \in [Nick -> Nat] /\ kisses' \in [Nick -> Nat] /\ (KissEarned)'
    BY <1>1, <1>2, <2>3 DEF FrogTypeOK, KissEarned
  <2> QED BY <2>1, <2>2, <2>4 DEF FrogInv, FrogTypeOK
<1>4. ASSUME NEW n \in Nick, Kiss(n) PROVE FrogInv'
  <2>1. /\ kissNick = n /\ kissNick' = None /\ kisses' = [kisses EXCEPT ![n] = @ + 1]
        /\ UNCHANGED <<threshold, answers, ignored, frogs>>
    BY <1>4 DEF Kiss, flood
  <2>2. FrogTypeOK' /\ Calm'
    BY <1>1, <2>1 DEF FrogTypeOK, Calm
  <2>3. (KissEarned)'
    BY <1>1, <2>1, FrogAssumption DEF KissEarned, FrogAssumption, FrogTypeOK
  <2> QED BY <2>2, <2>3 DEF FrogInv
<1>5. CASE TakeKissBack
  <2>1. kissNick' = None /\ UNCHANGED <<threshold, answers, ignored, frogs, kisses>>
    BY <1>5 DEF TakeKissBack, flood
  <2>2. FrogTypeOK' /\ Calm'
    BY <1>1, <2>1 DEF FrogTypeOK, Calm
  <2>3. (KissEarned)'
    BY <1>1, <2>1, FrogAssumption DEF KissEarned, FrogAssumption, FrogTypeOK
  <2> QED BY <2>2, <2>3 DEF FrogInv
<1>6. CASE ClearThreshold
  <2>1. Calm'
    BY <1>6, ClearCalm
  <2>2. threshold' \in Int /\ answers' \in Nat /\ ignored' \in Nat
    BY <1>1, <1>6 DEF ClearThreshold, FrogTypeOK
  <2>3. UNCHANGED <<kissNick, frogs, kisses>>
    BY <1>6 DEF ClearThreshold
  <2>4. FrogTypeOK' /\ (KissEarned)'
    BY <1>1, <2>2, <2>3 DEF FrogTypeOK, KissEarned
  <2> QED BY <2>1, <2>4 DEF FrogInv
<1>7. CASE UNCHANGED frogVars
  BY <1>1, <1>7 DEF frogVars, flood, kiss, FrogInv, FrogTypeOK, Calm, KissEarned
<1> QED BY <1>3, <1>4, <1>5, <1>6, <1>7 DEF FrogNext

\* dummytalk: above ten answers in a minute only when the int has wrapped, after
\* twenty "kvak"s that were ignored, for any crowd and any number of minutes.
THEOREM FrogKeepsQuiet == FrogSpec => []FrogQuiet
<1>1. FrogInit => FrogInv
  BY FrogInvInit
<1>2. FrogInv /\ [FrogNext]_(frogVars) => FrogInv'
  BY FrogInvNext
<1>3. FrogInv => FrogQuiet
  BY DEF FrogInv, FrogTypeOK, Calm, FrogQuiet
<1> QED BY <1>1, <1>2, <1>3, PTL DEF FrogSpec

\* dummytalk: nobody kisses a frog that he has not been shown, or one twice.
THEOREM KissesAreEarned == FrogSpec => []KissEarned
<1>1. FrogInit => FrogInv
  BY FrogInvInit
<1>2. FrogInv /\ [FrogNext]_(frogVars) => FrogInv'
  BY FrogInvNext
<1>3. FrogInv => KissEarned
  BY DEF FrogInv
<1> QED BY <1>1, <1>2, <1>3, PTL DEF FrogSpec

-----------------------------------------------------------------------------
(* The session.                                                            *)

\* What the bot, or the server, may take for the bot's name and channels.
Named == [base : {"bot", "guest"}, tail : Nat]
Channels == Range(Autojoin)
State == [nick : Named \cup {Nobody}, chans : SUBSET Channels]

\* The names that the server has: those it has not cut, and none.
ServerName == [base : {"bot", "guest"}, tail : 0..NickLen] \cup {Nobody}

Message == [cmd : {"433", "376", "NICK"}, who : ServerName, arg : ServerName \ {Nobody}]
               \cup [cmd : {"JOIN", "KICK"}, who : ServerName, arg : Channels]

Request == [cmd : {"NICK"}, arg : Named] \cup [cmd : {"JOIN"}, arg : Channels]

SessionTypeOK ==
    /\ status \in {"DISCONNECTED", "CONNECTING", "CONNECTED"}
    /\ nickname \in Named /\ known \subseteq Channels
    /\ toServer \in Seq(Request) /\ toBot \in Seq(Message)
    /\ name \in ServerName /\ on \subseteq Channels
    /\ taken \subseteq [base : {"bot", "guest"}, tail : 0..NickLen]

\* What the bot knows after a message that is about it.
Heard(s, m) ==
    CASE m.cmd = "NICK" -> [s EXCEPT !.nick = m.arg]
      [] m.cmd = "JOIN" -> [s EXCEPT !.chans = @ \cup {m.arg}]
      [] m.cmd = "KICK" -> [s EXCEPT !.chans = @ \ {m.arg}]
      [] OTHER -> s

\* A message that the bot, if it knows s, takes for one about it.
Meant(s, m) == m.cmd \in {"NICK", "JOIN", "KICK"} => m.who = s.nick

\* The messages of q lead a bot that knows s to know t.
Leads(q, s, t) ==
    \E run \in [0..Len(q) -> State] :
        /\ run[0] = s /\ run[Len(q)] = t
        /\ \A i \in 1..Len(q) : Meant(run[i - 1], q[i]) /\ run[i] = Heard(run[i - 1], q[i])

BotState == [nick |-> nickname, chans |-> known]
ServerState == [nick |-> name, chans |-> on]

\* How far a connection has come, and what is then under way: nothing; the name
\* on its way; the name refused; the name accepted; the bot told so.
Offline == status = "DISCONNECTED" /\ toServer = <<>> /\ toBot = <<>>
Asking == status = "CONNECTING" /\ toServer = <<Command("NICK", nickname)>> /\ toBot = <<>>
Refused == status = "CONNECTING" /\ toServer = <<>> /\ Len(toBot) = 1 /\ toBot[1].cmd = "433"
Nameless == name = Nobody /\ on = {} /\ known = {}
Welcome == status = "CONNECTING" /\ toServer = <<>> /\ toBot # <<>> /\ toBot[1].cmd = "376"
Online == status = "CONNECTED"

Agreeing ==
    \/ (Offline \/ Asking \/ Refused) /\ Nameless
    \/ (Welcome \/ Online) /\ name # Nobody /\ Leads(toBot, BotState, ServerState)

SessionInv == SessionTypeOK /\ (TooLong \/ Agreeing)

-----------------------------------------------------------------------------
\* No messages lead nowhere else.
LEMMA LeadsNowhere ==
    /\ \A s \in State : Leads(<<>>, s, s)
    /\ \A s, t \in State : Leads(<<>>, s, t) => s = t
<1>1. Len(<<>>) = 0
  OBVIOUS
<1>2. ASSUME NEW s \in State PROVE Leads(<<>>, s, s)
  <2>1. PICK run : run = [i \in 0..0 |-> s]
    OBVIOUS
  <2>2. run \in [0..0 -> State] /\ run[0] = s
    BY <2>1
  <2> QED BY <1>1, <2>2 DEF Leads
<1>3. ASSUME NEW s \in State, NEW t \in State, Leads(<<>>, s, t) PROVE s = t
  BY <1>1, <1>3 DEF Leads
<1> QED BY <1>2, <1>3

\* Hearing keeps the type.
LEMMA HeardType ==
    ASSUME NEW s \in State, NEW m \in Message PROVE Heard(s, m) \in State
<1>1. s = [nick |-> s.nick, chans |-> s.chans]
  BY DEF State
<1>2. CASE m.cmd = "NICK"
  <2>1. m.arg \in Named
    BY <1>2 DEF Message, ServerName, Named
  <2>2. Heard(s, m) = [s EXCEPT !.nick = m.arg]
    BY <1>2 DEF Heard
  <2> QED BY <2>1, <2>2 DEF State
<1>3. CASE m.cmd = "JOIN"
  <2>1. m.arg \in Channels
    BY <1>3 DEF Message
  <2>2. Heard(s, m) = [s EXCEPT !.chans = @ \cup {m.arg}]
    BY <1>3 DEF Heard
  <2> QED BY <2>1, <2>2 DEF State
<1>4. CASE m.cmd = "KICK"
  <2>1. Heard(s, m) = [s EXCEPT !.chans = @ \ {m.arg}]
    BY <1>4 DEF Heard
  <2> QED BY <2>1 DEF State
<1>5. CASE m.cmd \notin {"NICK", "JOIN", "KICK"}
  BY <1>5 DEF Heard
<1> QED BY <1>2, <1>3, <1>4, <1>5

\* A message more, about the bot as the server knows it.
LEMMA LeadsFurther ==
    ASSUME NEW q \in Seq(Message), NEW s \in State, NEW t \in State, Leads(q, s, t),
           NEW m \in Message, Meant(t, m)
    PROVE  Leads(Append(q, m), s, Heard(t, m))
<1>1. PICK n \in Nat : n = Len(q)
  OBVIOUS
<1>2. PICK run \in [0..n -> State] :
        /\ run[0] = s /\ run[n] = t
        /\ \A i \in 1..n : Meant(run[i - 1], q[i]) /\ run[i] = Heard(run[i - 1], q[i])
  BY <1>1 DEF Leads
<1>3. PICK next : next = Heard(t, m)
  OBVIOUS
<1>4. PICK more : more = [i \in 0..(n + 1) |-> IF i = n + 1 THEN next ELSE run[i]]
  OBVIOUS
<1>5. next \in State
  BY <1>3, HeardType
<1>6. more \in [0..(n + 1) -> State] /\ more[0] = s /\ more[n + 1] = next
  BY <1>1, <1>2, <1>4, <1>5
<1>7. PICK r : r = Append(q, m)
  OBVIOUS
<1>8. Len(r) = n + 1 /\ r[n + 1] = m /\ \A i \in 1..n : r[i] = q[i]
  BY <1>1, <1>7
<1>9. ASSUME NEW i \in 1..(n + 1)
      PROVE  Meant(more[i - 1], r[i]) /\ more[i] = Heard(more[i - 1], r[i])
  <2>1. CASE i = n + 1
    <3>1. more[i - 1] = t /\ more[i] = next /\ r[i] = m
      BY <2>1, <1>2, <1>4, <1>8
    <3> QED BY <3>1, <1>3
  <2>2. CASE i # n + 1
    <3>1. i \in 1..n /\ i - 1 \in 0..n
      BY <2>2
    <3>2. more[i - 1] = run[i - 1] /\ more[i] = run[i] /\ r[i] = q[i]
      BY <3>1, <1>4, <1>8
    <3> QED BY <3>1, <3>2, <1>2
  <2> QED BY <2>1, <2>2
<1> QED BY <1>3, <1>6, <1>7, <1>8, <1>9 DEF Leads

\* A message less, which the bot has heard.
LEMMA LeadsOn ==
    ASSUME NEW q \in Seq(Message), q # <<>>, NEW s \in State, NEW t \in State, Leads(q, s, t)
    PROVE  Meant(s, Head(q)) /\ Leads(Tail(q), Heard(s, Head(q)), t)
<1>1. PICK n \in Nat : n = Len(q)
  OBVIOUS
<1>2. PICK run \in [0..n -> State] :
        /\ run[0] = s /\ run[n] = t
        /\ \A i \in 1..n : Meant(run[i - 1], q[i]) /\ run[i] = Heard(run[i - 1], q[i])
  BY <1>1 DEF Leads
<1>3. n >= 1 /\ Head(q) = q[1]
  BY <1>1
<1>4. Meant(s, Head(q)) /\ run[1] = Heard(s, Head(q))
  BY <1>2, <1>3
<1>5. PICK r : r = Tail(q)
  OBVIOUS
<1>6. Len(r) = n - 1 /\ \A i \in 1..(n - 1) : r[i] = q[i + 1]
  BY <1>1, <1>3, <1>5
<1>7. PICK rest : rest = [i \in 0..(n - 1) |-> run[i + 1]]
  OBVIOUS
<1>8. rest \in [0..(n - 1) -> State] /\ rest[0] = run[1] /\ rest[n - 1] = t
  BY <1>2, <1>3, <1>7
<1>9. ASSUME NEW i \in 1..(n - 1)
      PROVE  Meant(rest[i - 1], r[i]) /\ rest[i] = Heard(rest[i - 1], r[i])
  <2>1. i + 1 \in 1..n /\ rest[i - 1] = run[i] /\ rest[i] = run[i + 1] /\ r[i] = q[i + 1]
    BY <1>6, <1>7
  <2>2. Meant(run[(i + 1) - 1], q[i + 1]) /\ run[i + 1] = Heard(run[(i + 1) - 1], q[i + 1])
    BY <2>1, <1>2
  <2> QED BY <2>1, <2>2
<1> QED BY <1>4, <1>5, <1>6, <1>8, <1>9 DEF Leads

-----------------------------------------------------------------------------
(* What the two sides do.                                                  *)

\* The types of the two states.
LEMMA StatesTyped ==
    ASSUME SessionTypeOK PROVE BotState \in State /\ ServerState \in State
<1>1. name \in Named \cup {Nobody}
  BY DEF SessionTypeOK, ServerName, Named
<1> QED BY <1>1 DEF SessionTypeOK, BotState, ServerState, State

\* A name that the server has cut.
LEMMA CutName ==
    ASSUME NEW n \in Named
    PROVE  /\ Cut(n) \in [base : {"bot", "guest"}, tail : 0..NickLen]
           /\ ~(n.tail > NickLen) => Cut(n) = n
<1>1. NickLen \in Nat /\ n.tail \in Nat /\ n = [base |-> n.base, tail |-> n.tail]
  BY SessionAssumption DEF SessionAssumption, Named
<1>2. CASE n.tail > NickLen
  <2>1. Cut(n) = [n EXCEPT !.tail = NickLen]
    BY <1>2 DEF Cut
  <2> QED BY <1>1, <1>2, <2>1 DEF Named
<1>3. CASE ~(n.tail > NickLen)
  <2>1. Cut(n) = n
    BY <1>3 DEF Cut
  <2> QED BY <1>1, <1>3, <2>1 DEF Named
<1> QED BY <1>2, <1>3

\* The names of the configuration and of the service are names that the server has.
LEMMA KnownNames ==
        /\ Target \in Named /\ Guest \in Named
           /\ Target \in [base : {"bot", "guest"}, tail : 0..NickLen]
           /\ Guest \in [base : {"bot", "guest"}, tail : 0..NickLen]
           /\ Nobody \notin Named /\ Guest # Nobody
BY SessionAssumption DEF SessionAssumption, Target, Guest, Nobody, Named

\* A message of the server about a bot that is on the network.
LEMMA ServerTells ==
    ASSUME SessionTypeOK, (Welcome /\ toServer' = <<>>) \/ Online, name' # Nobody,
           Leads(toBot, BotState, ServerState),
           status' = status, nickname' = nickname, known' = known,
           NEW m \in Message, m.who = name, toBot' = Append(toBot, m),
           [nick |-> name', chans |-> on'] = Heard(ServerState, m)
    PROVE  Agreeing'
<1>1. BotState \in State /\ ServerState \in State /\ toBot \in Seq(Message)
  BY StatesTyped DEF SessionTypeOK
<1>2. Meant(ServerState, m)
  BY DEF Meant, ServerState
<1>3. Leads(Append(toBot, m), BotState, Heard(ServerState, m))
  BY <1>1, <1>2, LeadsFurther
<1>4. BotState' = BotState /\ ServerState' = Heard(ServerState, m)
  BY DEF BotState, ServerState
<1>5. Leads(toBot, BotState, ServerState)'
  <2>1. Leads(toBot', BotState', ServerState')
    BY <1>3, <1>4
  <2> QED BY <2>1 DEF Leads
<1>6. Welcome' \/ Online'
  <2>1. toBot # <<>> => toBot' # <<>> /\ toBot'[1] = toBot[1]
    BY <1>1
  <2> QED BY <2>1 DEF Welcome, Online
<1> QED BY <1>5, <1>6 DEF Agreeing

\* The bot reads a message and takes it as it is meant.
LEMMA BotHears ==
    ASSUME SessionTypeOK, Online, toBot # <<>>, name # Nobody,
           Leads(toBot, BotState, ServerState),
           toBot' = Tail(toBot), name' = name, on' = on, status' = status,
           [nick |-> nickname', chans |-> known'] = Heard(BotState, Head(toBot))
    PROVE  Agreeing'
<1>1. BotState \in State /\ ServerState \in State /\ toBot \in Seq(Message)
  BY StatesTyped DEF SessionTypeOK
<1>2. Leads(Tail(toBot), Heard(BotState, Head(toBot)), ServerState)
  BY <1>1, LeadsOn
<1>3. BotState' = Heard(BotState, Head(toBot)) /\ ServerState' = ServerState
  BY DEF BotState, ServerState
<1>4. Leads(toBot, BotState, ServerState)'
  <2>1. Leads(toBot', BotState', ServerState')
    BY <1>2, <1>3
  <2> QED BY <2>1 DEF Leads
<1> QED BY <1>4 DEF Agreeing, Online

-----------------------------------------------------------------------------
(* The steps.                                                              *)

\* A connection begins with the name that the last one ended with.
LEMMA ConnectKeeps == ASSUME SessionInv, Connect PROVE SessionInv'
<1>1. /\ status = "DISCONNECTED" /\ status' = "CONNECTING"
      /\ toServer' = toServer \o <<Command("NICK", nickname)>>
      /\ UNCHANGED <<nickname, known, toBot, name, on, taken>>
  BY DEF Connect, Send, server
<1>2. SessionTypeOK /\ toServer \in Seq(Request) /\ nickname \in Named
  BY DEF SessionInv, SessionTypeOK
<1>3. Command("NICK", nickname) \in Request
  BY <1>2 DEF Command, Request
<1>4. SessionTypeOK'
  BY <1>1, <1>2, <1>3 DEF SessionTypeOK
<1>5. TooLong' = TooLong
  BY <1>1 DEF TooLong
<1>6. ASSUME ~TooLong PROVE Agreeing'
  <2>1. Offline /\ Nameless
    BY <1>1, <1>6 DEF SessionInv, Agreeing, Offline, Asking, Refused, Welcome, Online
  <2>2. toServer' = <<Command("NICK", nickname)>>
    BY <1>1, <2>1 DEF Offline
  <2>3. Command("NICK", nickname)' = Command("NICK", nickname)
    BY <1>1
  <2>4. Asking' /\ Nameless'
    BY <1>1, <2>1, <2>2, <2>3 DEF Offline, Asking, Nameless
  <2> QED BY <2>4 DEF Agreeing
<1> QED BY <1>4, <1>5, <1>6 DEF SessionInv

\* The bot asks for its name again.
LEMMA KeepNickKeeps == ASSUME SessionInv, KeepNick PROVE SessionInv'
<1>1. /\ status = "CONNECTED" /\ toServer' = toServer \o <<Command("NICK", Target)>>
      /\ UNCHANGED <<status, nickname, known, toBot, name, on, taken>>
  BY DEF KeepNick, Send, server, bot
<1>2. SessionTypeOK /\ toServer \in Seq(Request)
  BY DEF SessionInv, SessionTypeOK
<1>3. Command("NICK", Target) \in Request
  BY KnownNames DEF Command, Request
<1>4. SessionTypeOK'
  BY <1>1, <1>2, <1>3 DEF SessionTypeOK
<1>5. TooLong' = TooLong
  BY <1>1 DEF TooLong
<1>6. ASSUME ~TooLong PROVE Agreeing'
  <2>1. name # Nobody /\ Leads(toBot, BotState, ServerState)
    BY <1>1, <1>6 DEF SessionInv, Agreeing, Offline, Asking, Refused
  <2>2. Leads(toBot, BotState, ServerState)'
    BY <1>1, <2>1 DEF Leads, BotState, ServerState
  <2> QED BY <1>1, <2>1, <2>2 DEF Agreeing, Online
<1> QED BY <1>4, <1>5, <1>6 DEF SessionInv

\* What is common to all messages that the bot reads.
LEMMA Received ==
    ASSUME SessionTypeOK, NEW cmd, Receive(cmd)
    PROVE  /\ toBot # <<>> /\ Head(toBot) \in Message /\ Head(toBot).cmd = cmd
           /\ Head(toBot) = toBot[1]
           /\ toBot' = Tail(toBot) /\ toBot' \in Seq(Message)
           /\ Len(toBot) = 1 => toBot' = <<>>
           /\ UNCHANGED <<name, on, taken>>
<1>1. /\ toBot # <<>> /\ Head(toBot).cmd = cmd /\ toBot' = Tail(toBot)
      /\ UNCHANGED <<name, on, taken>>
  BY DEF Receive, server
<1>2. toBot \in Seq(Message)
  BY DEF SessionTypeOK
<1> QED BY <1>1, <1>2

\* A message is not for a bot that does not know its name.
LEMMA NotMine ==
    ASSUME SessionTypeOK, TooLong, toBot # <<>> PROVE ~ToMe
<1>1. Head(toBot) \in Message
  BY DEF SessionTypeOK
<1>2. Head(toBot).who \in ServerName
  BY <1>1 DEF Message
<1>3. ASSUME NEW w \in ServerName PROVE w.tail <= NickLen
  <2>1. NickLen \in Nat /\ Nobody.tail = 0
    BY SessionAssumption DEF SessionAssumption, Nobody
  <2> QED BY <1>3, <2>1 DEF ServerName
<1>4. NickLen \in Nat /\ nickname.tail \in Nat
  BY SessionAssumption DEF SessionAssumption, SessionTypeOK, Named
<1>5. Head(toBot).who # nickname
  <2>1. Head(toBot).who.tail <= NickLen
    BY <1>2, <1>3
  <2> QED BY <1>4, <2>1 DEF TooLong
<1> QED BY <1>5 DEF ToMe

\* A message is for the bot when it agrees with the server.
LEMMA Mine ==
    ASSUME SessionTypeOK, Leads(toBot, BotState, ServerState), toBot # <<>>,
           Head(toBot).cmd \in {"NICK", "JOIN", "KICK"}
    PROVE  ToMe
<1>1. BotState \in State /\ ServerState \in State /\ toBot \in Seq(Message)
  BY StatesTyped DEF SessionTypeOK
<1>2. Meant(BotState, Head(toBot))
  BY <1>1, LeadsOn
<1> QED BY <1>2 DEF Meant, BotState, ToMe

\* Only a bot that is on the network is told of changes.
LEMMA ToldOnline ==
    ASSUME SessionInv, ~TooLong, toBot # <<>>, Head(toBot) = toBot[1],
           Head(toBot).cmd \notin {"376", "433"}
    PROVE  Online /\ name # Nobody /\ Leads(toBot, BotState, ServerState)
<1>1. ~Offline /\ ~Asking
  BY DEF Offline, Asking
<1>2. ~Refused /\ ~Welcome
  BY DEF Refused, Welcome
<1> QED BY <1>1, <1>2 DEF SessionInv, Agreeing

\* The name is refused.
LEMMA NickInUseKeeps == ASSUME SessionInv, NickInUse PROVE SessionInv'
<1>1. SessionTypeOK /\ Receive("433") /\ status' = status /\ known' = known
  BY DEF NickInUse, SessionInv
<1>2. /\ toBot # <<>> /\ Head(toBot) \in Message /\ Head(toBot).cmd = "433"
      /\ Head(toBot) = toBot[1]
      /\ toBot' = Tail(toBot) /\ toBot' \in Seq(Message)
      /\ Len(toBot) = 1 => toBot' = <<>>
      /\ UNCHANGED <<name, on, taken>>
  BY <1>1, Received
<1>3. CASE status = "CONNECTING"
  <2>1. /\ ~TooLong /\ nickname' = [nickname EXCEPT !.tail = @ + 1]
        /\ toServer' = toServer \o <<Command("NICK", nickname')>>
    BY <1>3 DEF NickInUse, Send
  <2>2. nickname' \in Named
    BY <1>1, <2>1 DEF SessionTypeOK, Named
  <2>3. Command("NICK", nickname') \in Request
    BY <2>2 DEF Command, Request
  <2>4. SessionTypeOK'
    BY <1>1, <1>2, <2>1, <2>2, <2>3 DEF SessionTypeOK
  <2>5. Refused /\ Nameless
    BY <1>2, <1>3, <2>1 DEF SessionInv, Agreeing, Offline, Asking, Welcome, Online
  <2>6. toServer' = <<Command("NICK", nickname')>> /\ toBot' = <<>>
    BY <1>2, <2>1, <2>5 DEF Refused
  <2>7. Asking' /\ Nameless'
    BY <1>1, <1>2, <1>3, <2>5, <2>6 DEF Asking, Nameless, Command
  <2> QED BY <2>4, <2>7 DEF SessionInv, Agreeing
<1>4. CASE status # "CONNECTING"
  <2>1. nickname' = nickname /\ toServer' = toServer
    BY <1>4 DEF NickInUse
  <2>2. SessionTypeOK' /\ TooLong' = TooLong
    BY <1>1, <1>2, <2>1 DEF SessionTypeOK, TooLong
  <2>3. ASSUME ~TooLong PROVE Agreeing'
    <3>1. Online /\ name # Nobody /\ Leads(toBot, BotState, ServerState)
      BY <1>2, <1>4, <2>3 DEF SessionInv, Agreeing, Offline, Asking, Refused, Welcome
    <3>2. Heard(BotState, Head(toBot)) = BotState
      BY <1>2 DEF Heard
    <3>3. [nick |-> nickname', chans |-> known'] = BotState
      BY <1>1, <2>1 DEF BotState
    <3> QED BY <1>1, <1>2, <3>1, <3>2, <3>3, BotHears
  <2> QED BY <2>2, <2>3 DEF SessionInv
<1> QED BY <1>3, <1>4

\* The bot is told that it is on the network, and joins its channels.
LEMMA EndOfMotdKeeps == ASSUME SessionInv, EndOfMotd PROVE SessionInv'
<1>1. SessionTypeOK /\ Receive("376") /\ nickname' = nickname /\ known' = known
  BY DEF EndOfMotd, SessionInv
<1>2. /\ toBot # <<>> /\ Head(toBot) \in Message /\ Head(toBot).cmd = "376"
      /\ Head(toBot) = toBot[1]
      /\ toBot' = Tail(toBot) /\ toBot' \in Seq(Message)
      /\ UNCHANGED <<name, on, taken>>
  BY <1>1, Received
<1>3. \/ /\ status = "CONNECTING" /\ status' = "CONNECTED"
         /\ toServer' = toServer \o [i \in DOMAIN Autojoin |-> Command("JOIN", Autojoin[i])]
      \/ status # "CONNECTING" /\ status' = status /\ toServer' = toServer
  BY DEF EndOfMotd, Send
<1>4. toServer' \in Seq(Request)
  <2>1. Autojoin \in Seq(Channels)
    BY SessionAssumption DEF SessionAssumption, Channels
  <2>2. \A i \in DOMAIN Autojoin : Command("JOIN", Autojoin[i]) \in Request
    BY <2>1 DEF Command, Request
  <2>3. PICK joins : joins = [i \in DOMAIN Autojoin |-> Command("JOIN", Autojoin[i])]
    OBVIOUS
  <2>4. joins \in Seq(Request)
    <3>1. DOMAIN Autojoin = 1..Len(Autojoin) /\ Len(Autojoin) \in Nat
      BY <2>1
    <3>2. joins \in [1..Len(Autojoin) -> Request]
      BY <2>2, <2>3, <3>1
    <3> QED BY <3>1, <3>2, SeqDef
  <2>5. toServer \in Seq(Request)
    BY <1>1 DEF SessionTypeOK
  <2>6. toServer' = toServer \o joins \/ toServer' = toServer
    BY <1>3, <2>3
  <2> QED BY ONLY <2>4, <2>5, <2>6, ConcatProperties
<1>5. SessionTypeOK' /\ TooLong' = TooLong
  BY <1>1, <1>2, <1>3, <1>4 DEF SessionTypeOK, TooLong
<1>6. ASSUME ~TooLong PROVE Agreeing'
  <2>1. (Welcome \/ Online) /\ name # Nobody /\ Leads(toBot, BotState, ServerState)
    BY <1>2, <1>6 DEF SessionInv, Agreeing, Offline, Asking, Refused
  <2>2. BotState \in State /\ ServerState \in State /\ toBot \in Seq(Message)
    BY <1>1, StatesTyped DEF SessionTypeOK
  <2>3. Heard(BotState, Head(toBot)) = BotState
    BY <1>2 DEF Heard
  <2>4. Leads(Tail(toBot), BotState, ServerState)
    BY <1>2, <2>1, <2>2, <2>3, LeadsOn
  <2>5. BotState' = BotState /\ ServerState' = ServerState
    BY <1>1, <1>2 DEF BotState, ServerState
  <2>6. Leads(toBot, BotState, ServerState)'
    <3>1. Leads(toBot', BotState', ServerState')
      BY <1>2, <2>4, <2>5
    <3> QED BY <3>1 DEF Leads
  <2>7. Online' /\ name' # Nobody
    BY <1>2, <1>3, <2>1 DEF Online, Welcome
  <2> QED BY <2>6, <2>7 DEF Agreeing
<1> QED BY <1>5, <1>6 DEF SessionInv

\* What the bot makes of a message about its name or its channels.
LEMMA ChangeKeeps ==
    ASSUME SessionInv, NEW cmd \in {"NICK", "JOIN", "KICK"},
           Receive(cmd), status' = status, toServer' \in Seq(Request),
           ToMe => [nick |-> nickname', chans |-> known'] = Heard(BotState, Head(toBot)),
           ~ToMe => nickname' = nickname /\ known' = known
    PROVE  SessionInv'
<1>1. /\ toBot # <<>> /\ Head(toBot) \in Message /\ Head(toBot).cmd = cmd
      /\ Head(toBot) = toBot[1]
      /\ toBot' = Tail(toBot) /\ toBot' \in Seq(Message)
      /\ UNCHANGED <<name, on, taken>>
  BY Received DEF SessionInv
<1>2. SessionTypeOK /\ BotState \in State
  BY StatesTyped DEF SessionInv
<1>3. CASE TooLong
  <2>1. nickname' = nickname /\ known' = known
    BY <1>1, <1>2, <1>3, NotMine
  <2>2. SessionTypeOK' /\ TooLong'
    BY <1>1, <1>2, <1>3, <2>1 DEF SessionTypeOK, TooLong
  <2> QED BY <2>2 DEF SessionInv
<1>4. CASE ~TooLong
  <2>1. Online /\ name # Nobody /\ Leads(toBot, BotState, ServerState)
    BY <1>1, <1>4, ToldOnline
  <2>2. [nick |-> nickname', chans |-> known'] = Heard(BotState, Head(toBot))
    BY <1>1, <1>2, <2>1, Mine
  <2>3. Agreeing'
    BY <1>1, <1>2, <2>1, <2>2, BotHears
  <2>4. nickname' \in Named /\ known' \subseteq Channels
    <3>1. nickname' = Heard(BotState, Head(toBot)).nick /\ known' = Heard(BotState, Head(toBot)).chans
      BY <2>2
    <3>2. Heard(BotState, Head(toBot)) \in State
      BY <1>1, <1>2, HeardType
    <3>3. known' \subseteq Channels
      BY <3>1, <3>2 DEF State
    <3>4. CASE cmd = "NICK"
      <4>1. Head(toBot).arg \in Named
        BY <1>1, <3>4 DEF Message, ServerName, Named
      <4>2. Heard(BotState, Head(toBot)) = [BotState EXCEPT !.nick = Head(toBot).arg]
        BY <1>1, <3>4 DEF Heard
      <4>3. nickname' = Head(toBot).arg
        BY <3>1, <4>2 DEF BotState
      <4> QED BY <3>3, <4>1, <4>3
    <3>5. CASE cmd # "NICK"
      <4>1. Heard(BotState, Head(toBot)).nick = nickname
        BY <1>1, <3>5 DEF Heard, BotState
      <4> QED BY <1>2, <3>1, <3>3, <4>1 DEF SessionTypeOK
    <3> QED BY <3>4, <3>5
  <2>5. SessionTypeOK'
    BY <1>1, <1>2, <2>4 DEF SessionTypeOK
  <2> QED BY <2>3, <2>5 DEF SessionInv
<1> QED BY <1>3, <1>4

\* The bot reads of a name or a channel of its own, or of somebody else's.
LEMMA HearKeeps == ASSUME SessionInv, Hear PROVE SessionInv'
<1>1. toServer \in Seq(Request) /\ SessionTypeOK
  BY DEF SessionInv, SessionTypeOK
<1>2. CASE NickChange
  <2>1. /\ Receive("NICK") /\ status' = status /\ known' = known /\ toServer' = toServer
        /\ nickname' = IF ToMe THEN Head(toBot).arg ELSE nickname
    BY <1>2 DEF NickChange
  <2>2. Head(toBot).cmd = "NICK"
    BY <2>1 DEF Receive
  <2>3. ToMe => [nick |-> nickname', chans |-> known'] = Heard(BotState, Head(toBot))
    BY <2>1, <2>2 DEF Heard, BotState
  <2> QED BY <1>1, <2>1, <2>3, ChangeKeeps
<1>3. CASE Joined
  <2>1. /\ Receive("JOIN") /\ status' = status /\ nickname' = nickname /\ toServer' = toServer
        /\ known' = IF ToMe THEN known \cup {Head(toBot).arg} ELSE known
    BY <1>3 DEF Joined
  <2>2. Head(toBot).cmd = "JOIN"
    BY <2>1 DEF Receive
  <2>3. ToMe => [nick |-> nickname', chans |-> known'] = Heard(BotState, Head(toBot))
    BY <2>1, <2>2 DEF Heard, BotState
  <2> QED BY <1>1, <2>1, <2>3, ChangeKeeps
<1>4. CASE Kicked
  <2>1. /\ Receive("KICK") /\ status' = status /\ nickname' = nickname
        /\ ToMe => /\ toServer' = toServer \o <<Command("JOIN", Head(toBot).arg)>>
                     /\ known' = known \ {Head(toBot).arg}
        /\ ~ToMe => known' = known /\ toServer' = toServer
    BY <1>4 DEF Kicked, Send
  <2>2. Head(toBot).cmd = "KICK" /\ Head(toBot) \in Message
    BY <1>1, <2>1, Received
  <2>3. ToMe => [nick |-> nickname', chans |-> known'] = Heard(BotState, Head(toBot))
    BY <2>1, <2>2 DEF Heard, BotState
  <2>4. Command("JOIN", Head(toBot).arg) \in Request
    BY <2>2 DEF Message, Request, Command
  <2>5. toServer' \in Seq(Request)
    BY <1>1, <2>1, <2>4
  <2> QED BY <2>1, <2>3, <2>5, ChangeKeeps
<1> QED BY <1>2, <1>3, <1>4, NickInUseKeeps, EndOfMotdKeeps DEF Hear

\* The server answers a request for a name.
LEMMA ServeNickKeeps ==
    ASSUME SessionInv, Serve, ServeNick PROVE SessionInv'
<1>1. /\ toServer # <<>> /\ toServer' = Tail(toServer)
      /\ UNCHANGED <<status, nickname, known, taken>>
  BY DEF Serve, bot
<1>2. SessionTypeOK /\ toServer \in Seq(Request) /\ Head(toServer) \in Request
  BY <1>1 DEF SessionInv, SessionTypeOK
<1>3. PICK n : n = Cut(Head(toServer).arg)
  OBVIOUS
<1>4. /\ Head(toServer).cmd = "NICK" /\ on' = on
      /\ \/ toBot' = Append(toBot, [cmd |-> "433", who |-> name, arg |-> n]) /\ name' = name
         \/ /\ name = Nobody /\ name' = n
            /\ toBot' = Append(toBot, [cmd |-> "376", who |-> name, arg |-> n])
         \/ /\ name \notin {n, Nobody} /\ name' = n
            /\ toBot' = Append(toBot, [cmd |-> "NICK", who |-> name, arg |-> n])
         \/ name = n /\ name' = name /\ toBot' = toBot
  BY <1>3 DEF ServeNick, Tell
<1>5. /\ n \in [base : {"bot", "guest"}, tail : 0..NickLen]
      /\ n \in ServerName \ {Nobody}
  <2>1. Head(toServer).arg \in Named
    BY <1>2, <1>4 DEF Request
  <2>2. n \in [base : {"bot", "guest"}, tail : 0..NickLen]
    BY <1>3, <2>1, CutName
  <2> QED BY <2>2 DEF ServerName, Nobody
<1>6. name \in ServerName
  BY <1>2 DEF SessionTypeOK
<1>7. \A cmd \in {"433", "376", "NICK"} : [cmd |-> cmd, who |-> name, arg |-> n] \in Message
  <2> SUFFICES ASSUME NEW cmd \in {"433", "376", "NICK"}
               PROVE  [cmd |-> cmd, who |-> name, arg |-> n]
                         \in [cmd : {"433", "376", "NICK"}, who : ServerName, arg : ServerName \ {Nobody}]
    BY DEF Message
  <2> QED BY <1>5, <1>6
<1>8. SessionTypeOK'
  <2>1. toBot' \in Seq(Message)
    <3>1. toBot' = toBot \/ \E m \in Message : toBot' = Append(toBot, m)
      BY <1>4, <1>7
    <3>2. toBot \in Seq(Message)
      BY <1>2 DEF SessionTypeOK
    <3> QED BY <3>1, <3>2, AppendProperties
  <2>2. name' \in ServerName
    BY <1>4, <1>5, <1>6
  <2>3. toServer' \in Seq(Request)
    BY <1>1, <1>2
  <2> QED BY <1>1, <1>2, <1>4, <2>1, <2>2, <2>3 DEF SessionTypeOK
<1>9. TooLong' = TooLong
  BY <1>1 DEF TooLong
<1>10. ASSUME ~TooLong PROVE Agreeing'
  <2>1. (Asking /\ Nameless) \/ (Online /\ name # Nobody /\ Leads(toBot, BotState, ServerState))
    BY <1>1, <1>10 DEF SessionInv, Agreeing, Offline, Refused, Welcome
  <2>2. CASE Asking /\ Nameless
    <3>1. /\ Head(toServer).arg = nickname /\ toServer' = <<>> /\ toBot = <<>>
          /\ name = Nobody /\ on = {} /\ known = {} /\ status = "CONNECTING"
      BY <1>1, <2>2 DEF Asking, Nameless, Command
    <3>2. n = nickname /\ n # Nobody
      BY <1>2, <1>3, <1>5, <1>10, <3>1, CutName DEF SessionTypeOK, TooLong
    <3>3. CASE toBot' = Append(toBot, [cmd |-> "433", who |-> name, arg |-> n]) /\ name' = name
      <4>1. Len(toBot') = 1 /\ toBot'[1].cmd = "433"
        BY <3>1, <3>3
      <4>2. Refused' /\ Nameless'
        BY <1>1, <1>4, <3>1, <3>3, <4>1 DEF Refused, Nameless
      <4> QED BY <4>2 DEF Agreeing
    <3>4. CASE /\ name' = n
               /\ toBot' = Append(toBot, [cmd |-> "376", who |-> name, arg |-> n])
      <4>1. PICK m \in Message : m = [cmd |-> "376", who |-> name, arg |-> n]
        BY <1>7
      <4>2. toBot' = Append(<<>>, m) /\ toBot' # <<>> /\ toBot'[1].cmd = "376"
        BY <3>1, <3>4, <4>1
      <4>3. BotState' = ServerState' /\ BotState' \in State
        <5>1. BotState' = [nick |-> nickname, chans |-> {}]
          BY <1>1, <3>1 DEF BotState
        <5>2. ServerState' = [nick |-> nickname, chans |-> {}]
          BY <1>4, <3>1, <3>2, <3>4 DEF ServerState
        <5> QED BY <1>2, <5>1, <5>2 DEF State, SessionTypeOK
      <4>4. Leads(Append(<<>>, m), BotState', BotState')
        <5>1. PICK s \in State : s = BotState'
          BY <4>3
        <5>2. Heard(s, m) = s /\ Meant(s, m)
          BY <4>1 DEF Heard, Meant
        <5>3. Leads(<<>>, s, s) /\ <<>> \in Seq(Message)
          BY LeadsNowhere
        <5>4. Leads(Append(<<>>, m), s, Heard(s, m))
          BY <5>2, <5>3, LeadsFurther
        <5> QED BY <5>1, <5>2, <5>4
      <4>5. Leads(toBot, BotState, ServerState)'
        <5>1. Leads(toBot', BotState', ServerState')
          BY <4>2, <4>3, <4>4
        <5> QED BY <5>1 DEF Leads
      <4>6. Welcome' /\ name' # Nobody
        BY <1>1, <3>1, <3>2, <3>4, <4>2 DEF Welcome
      <4> QED BY <4>5, <4>6 DEF Agreeing
    <3> QED BY <1>4, <3>1, <3>2, <3>3, <3>4
  <2>3. CASE Online /\ name # Nobody /\ Leads(toBot, BotState, ServerState)
    <3>1. CASE toBot' = Append(toBot, [cmd |-> "433", who |-> name, arg |-> n]) /\ name' = name
      <4>1. PICK m \in Message : m = [cmd |-> "433", who |-> name, arg |-> n]
        BY <1>7
      <4>2. [nick |-> name', chans |-> on'] = Heard(ServerState, m)
        BY <1>4, <3>1, <4>1 DEF Heard, ServerState
      <4> QED BY <1>1, <1>2, <2>3, <3>1, <4>1, <4>2, ServerTells
    <3>2. CASE /\ name' = n
               /\ toBot' = Append(toBot, [cmd |-> "NICK", who |-> name, arg |-> n])
      <4>1. PICK m \in Message : m = [cmd |-> "NICK", who |-> name, arg |-> n]
        BY <1>7
      <4>2. [nick |-> name', chans |-> on'] = Heard(ServerState, m)
        BY <1>4, <3>2, <4>1 DEF Heard, ServerState
      <4>3. name' # Nobody
        BY <1>5, <3>2
      <4> QED BY <1>1, <1>2, <2>3, <3>2, <4>1, <4>2, <4>3, ServerTells
    <3>3. CASE name' = name /\ toBot' = toBot
      <4>1. Leads(toBot, BotState, ServerState)'
        BY <1>1, <1>4, <2>3, <3>3 DEF Leads, BotState, ServerState
      <4> QED BY <1>1, <2>3, <3>3, <4>1 DEF Agreeing, Online
    <3> QED BY <1>4, <2>3, <3>1, <3>2, <3>3
  <2> QED BY <2>1, <2>2, <2>3
<1> QED BY <1>8, <1>9, <1>10 DEF SessionInv

\* The server lets the bot on a channel, and says so unless it is there already.
LEMMA ServeJoinKeeps ==
    ASSUME SessionInv, Serve, ServeJoin PROVE SessionInv'
<1>1. /\ toServer # <<>> /\ toServer' = Tail(toServer)
      /\ UNCHANGED <<status, nickname, known, taken>>
  BY DEF Serve, bot
<1>2. SessionTypeOK /\ toServer \in Seq(Request) /\ Head(toServer) \in Request
  BY <1>1 DEF SessionInv, SessionTypeOK
<1>3. PICK c : c = Head(toServer).arg
  OBVIOUS
<1>4. /\ Head(toServer).cmd = "JOIN" /\ name' = name /\ on' = on \cup {c}
      /\ \/ c \in on /\ toBot' = toBot
         \/ toBot' = Append(toBot, [cmd |-> "JOIN", who |-> name, arg |-> c])
  BY <1>3 DEF ServeJoin, Tell
<1>5. c \in Channels
  BY <1>2, <1>3, <1>4 DEF Request
<1>6. [cmd |-> "JOIN", who |-> name, arg |-> c] \in Message
  <2>1. name \in ServerName
    BY <1>2 DEF SessionTypeOK
  <2>2. [cmd |-> "JOIN", who |-> name, arg |-> c] \in [cmd : {"JOIN", "KICK"}, who : ServerName, arg : Channels]
    BY <1>5, <2>1
  <2> QED BY <2>2 DEF Message
<1>7. SessionTypeOK'
  <2>1. toBot' = toBot \/ \E m \in Message : toBot' = Append(toBot, m)
    BY <1>4, <1>6
  <2>2. toBot \in Seq(Message)
    BY <1>2 DEF SessionTypeOK
  <2>3. toBot' \in Seq(Message)
    BY <2>1, <2>2, AppendProperties
  <2>4. toServer' \in Seq(Request)
    BY <1>1, <1>2
  <2> QED BY <1>1, <1>2, <1>4, <1>5, <2>3, <2>4 DEF SessionTypeOK
<1>8. TooLong' = TooLong
  BY <1>1 DEF TooLong
<1>9. ASSUME ~TooLong PROVE Agreeing'
  <2>1. Online /\ name # Nobody /\ Leads(toBot, BotState, ServerState)
    BY <1>1, <1>4, <1>9 DEF SessionInv, Agreeing, Offline, Refused, Welcome, Asking, Command
  <2>2. CASE c \in on /\ toBot' = toBot
    <3>1. on' = on
      BY <1>4, <2>2
    <3>2. Leads(toBot, BotState, ServerState)'
      BY <1>1, <1>4, <2>1, <2>2, <3>1 DEF Leads, BotState, ServerState
    <3> QED BY <1>1, <1>4, <2>1, <3>2 DEF Agreeing, Online
  <2>3. CASE toBot' = Append(toBot, [cmd |-> "JOIN", who |-> name, arg |-> c])
    <3>1. PICK m \in Message : m = [cmd |-> "JOIN", who |-> name, arg |-> c]
      BY <1>6
    <3>2. [nick |-> name', chans |-> on'] = Heard(ServerState, m)
      BY <1>4, <3>1 DEF Heard, ServerState
    <3> QED BY <1>1, <1>2, <1>4, <2>1, <2>3, <3>1, <3>2, ServerTells
  <2> QED BY <1>4, <2>2, <2>3
<1> QED BY <1>7, <1>8, <1>9 DEF SessionInv

\* A service or an operator acts against a bot that is on the network.
LEMMA TroubleKeeps ==
    ASSUME SessionInv, Trouble PROVE SessionInv'
<1>1. SessionTypeOK
  BY DEF SessionInv
<1>2. ASSUME NEW n \in AnyName, Take(n) PROVE SessionInv'
  <2>1. taken' = taken \cup {n} /\ UNCHANGED <<status, nickname, known, toServer, toBot, name, on>>
    BY <1>2 DEF Take, bot
  <2>2. SessionTypeOK' /\ TooLong' = TooLong
    BY <1>1, <2>1 DEF SessionTypeOK, TooLong, AnyName
  <2>3. Agreeing => Agreeing'
    BY <2>1 DEF Agreeing, Offline, Asking, Refused, Nameless, Welcome, Online, Leads,
                BotState, ServerState, Command
  <2> QED BY <2>2, <2>3 DEF SessionInv
<1>3. ASSUME NEW c \in on, Kick(c) PROVE SessionInv'
  <2>1. /\ on' = on \ {c} /\ toBot' = Append(toBot, [cmd |-> "KICK", who |-> name, arg |-> c])
        /\ UNCHANGED <<status, nickname, known, toServer, name, taken>>
    BY <1>3 DEF Kick, Tell, bot
  <2>2. PICK m \in Message : m = [cmd |-> "KICK", who |-> name, arg |-> c]
    BY <1>1, <1>3 DEF Message, SessionTypeOK
  <2>3. SessionTypeOK' /\ TooLong' = TooLong
    <3>1. toBot' \in Seq(Message)
      BY <1>1, <2>1, <2>2 DEF SessionTypeOK
    <3> QED BY <1>1, <2>1, <3>1 DEF SessionTypeOK, TooLong
  <2>4. ASSUME ~TooLong PROVE Agreeing'
    <3>1. (Welcome \/ Online) /\ name # Nobody /\ Leads(toBot, BotState, ServerState)
      BY <1>3, <2>4 DEF SessionInv, Agreeing, Nameless
    <3>2. [nick |-> name', chans |-> on'] = Heard(ServerState, m)
      BY <2>1, <2>2 DEF Heard, ServerState
    <3> QED BY <1>1, <2>1, <2>2, <3>1, <3>2, ServerTells DEF Welcome
  <2> QED BY <2>3, <2>4 DEF SessionInv
<1>4. ASSUME NEW ghost \in BOOLEAN, Drop(ghost) PROVE SessionInv'
  <2>1. /\ status' = "DISCONNECTED" /\ known' = {} /\ toServer' = <<>> /\ toBot' = <<>>
        /\ name' = Nobody /\ on' = {} /\ nickname' = nickname
        /\ taken' \subseteq taken \cup ({name} \ {Nobody})
    BY <1>4 DEF Drop
  <2>2. taken' \subseteq [base : {"bot", "guest"}, tail : 0..NickLen]
    BY <1>1, <2>1 DEF SessionTypeOK, ServerName
  <2>3. SessionTypeOK'
    BY <1>1, <2>1, <2>2 DEF SessionTypeOK, ServerName
  <2>4. Offline' /\ Nameless'
    BY <2>1 DEF Offline, Nameless
  <2> QED BY <2>3, <2>4 DEF SessionInv, Agreeing
<1>5. CASE ForceName
  <2>1. /\ name # Nobody /\ name' = Guest
        /\ toBot' = Append(toBot, [cmd |-> "NICK", who |-> name, arg |-> Guest])
        /\ UNCHANGED <<status, nickname, known, toServer, on, taken>>
    BY <1>5 DEF ForceName, Tell, bot
  <2>2. Guest \in ServerName \ {Nobody}
    BY KnownNames DEF ServerName
  <2>3. PICK m \in Message : m = [cmd |-> "NICK", who |-> name, arg |-> Guest]
    BY <1>1, <2>2 DEF Message, SessionTypeOK
  <2>4. SessionTypeOK' /\ TooLong' = TooLong
    <3>1. toBot' \in Seq(Message)
      BY <1>1, <2>1, <2>3 DEF SessionTypeOK
    <3> QED BY <1>1, <2>1, <2>2, <3>1 DEF SessionTypeOK, TooLong
  <2>5. ASSUME ~TooLong PROVE Agreeing'
    <3>1. (Welcome \/ Online) /\ Leads(toBot, BotState, ServerState)
      BY <2>1, <2>5 DEF SessionInv, Agreeing, Nameless
    <3>2. [nick |-> name', chans |-> on'] = Heard(ServerState, m)
      BY <2>1, <2>3 DEF Heard, ServerState
    <3> QED BY <1>1, <2>1, <2>2, <2>3, <3>1, <3>2, ServerTells DEF Welcome
  <2> QED BY <2>4, <2>5 DEF SessionInv
<1> QED BY <1>2, <1>3, <1>4, <1>5 DEF Trouble

\* Every step keeps the invariant.
LEMMA SessionInvNext ==
    ASSUME SessionInv, [SessionNext]_(sessionVars) PROVE SessionInv'
<1>1. CASE UNCHANGED <<status, nickname, known, toServer, toBot, name, on>> /\ taken' \subseteq taken
  <2>1. SessionTypeOK' /\ TooLong' = TooLong
    BY <1>1 DEF SessionInv, SessionTypeOK, TooLong
  <2>2. Agreeing => Agreeing'
    BY <1>1 DEF Agreeing, Offline, Asking, Refused, Nameless, Welcome, Online, Leads,
                BotState, ServerState, Command
  <2> QED BY <2>1, <2>2 DEF SessionInv
<1>2. CASE \E n \in taken : Free(n)
  BY <1>1, <1>2 DEF Free, bot
<1>3. CASE UNCHANGED sessionVars
  BY <1>1, <1>3 DEF sessionVars, bot, server
<1>4. CASE Serve
  BY <1>4, ServeNickKeeps, ServeJoinKeeps DEF Serve
<1> QED BY <1>2, <1>3, <1>4, ConnectKeeps, KeepNickKeeps, HearKeeps, TroubleKeeps DEF SessionNext

\* Nothing is under way at first.
LEMMA SessionInvInit == ASSUME SessionInit PROVE SessionInv
<1>1. SessionTypeOK
  BY KnownNames DEF SessionInit, SessionTypeOK, ServerName
<1>2. Offline /\ Nameless
  BY DEF SessionInit, Offline, Nameless
<1> QED BY <1>1, <1>2 DEF SessionInv, Agreeing

\* irc_parser.c, keepnick and autojoin: a bot that has read all that the server
\* said knows its name and its channels, unless the server has cut the name, for
\* any channels, length of names and number of troubles.
THEOREM NameIsAgreed == SessionSpec => []NickAgreed
<1>1. SessionInit => SessionInv
  BY SessionInvInit
<1>2. SessionInv /\ [SessionNext]_(sessionVars) => SessionInv'
  BY SessionInvNext
<1>3. SessionInv => NickAgreed
  <2> SUFFICES ASSUME SessionInv, status = "CONNECTED", toBot = <<>>, ~TooLong
               PROVE  nickname = name /\ known = on
    BY DEF NickAgreed
  <2>1. Leads(<<>>, BotState, ServerState)
    BY DEF SessionInv, Agreeing, Offline, Asking, Refused
  <2>2. BotState = ServerState
    BY <2>1, LeadsNowhere, StatesTyped DEF SessionInv
  <2> QED BY <2>2 DEF BotState, ServerState
<1> QED BY <1>1, <1>2, <1>3, PTL DEF SessionSpec
=============================================================================
