---------------------------- MODULE TimersProofs ----------------------------
(***************************************************************************)
(* Proof that no timer goes off before its time and none is left over by a *)
(* pass that it was due for, whatever callbacks add and remove, however    *)
(* long they take, and for any number of timers.                           *)
(***************************************************************************)
EXTENDS Timers, ListLemmas

-----------------------------------------------------------------------------
(* The invariant.                                                          *)

TimerRec == [type : Types, set : Nat \ {0}, left : Int, added : Nat, base : Nat]

Typed ==
    /\ timers \in Seq(TimerRec)
    /\ now \in Nat /\ lastTest \in Nat /\ lastTest <= now
    /\ pass \in [on : BOOLEAN, time : Nat, at : Nat, last : Seq(TimerRec)]
    /\ pass.on => lastTest <= pass.time /\ pass.time <= now
    /\ pass.at <= Len(timers) /\ (~pass.on => pass.at = 0 /\ pass.last = <<>>)

\* The time up to which the i-th timer has been charged: the pass has visited
\* those before its place, and all of them at its end.
Ref(i) == IF pass.on /\ (pass.at = 0 \/ i < pass.at) THEN pass.time ELSE lastTest

\* What is left at that time is what was set, counted from no later than the
\* timer was added and no earlier than the pass before.
Good(t, ref) ==
    IF t.type = "at" THEN t.left = t.set /\ ref < t.set
    ELSE 0 < t.left /\ t.set + t.base <= t.left + ref /\ t.left + ref <= t.set + t.added

Charges == \A i \in 1..Len(timers) : Good(timers[i], Ref(i))

\* NotTooEarly, with what is known of the timer.
LastRight ==
    pass.last # <<>> =>
        LET t == pass.last[1]
        IN  pass.time >= (IF t.type = "at" THEN t.set ELSE t.base + t.set)

IInv == Typed /\ Charges /\ LastRight

\* No timers at first.
LEMMA InitIInv == ASSUME TimersInit PROVE IInv
<1>1. timers = <<>> /\ lastTest = 0 /\ now = 0 /\ pass = NoPass
  BY DEF TimersInit
<1>2. /\ NoPass.on = FALSE /\ NoPass.at = 0 /\ NoPass.last = <<>>
      /\ NoPass \in [on : BOOLEAN, time : Nat, at : Nat, last : Seq(TimerRec)]
      /\ timers \in Seq(TimerRec) /\ Len(timers) = 0
  BY <1>1, EmptySeq DEF NoPass
<1> QED BY <1>1, <1>2 DEF IInv, Typed, Charges, LastRight

-----------------------------------------------------------------------------
(* Between the passes.                                                     *)

\* timer_add keeps the invariant.
LEMMA AddIInv ==
    ASSUME IInv, NEW type \in Types, NEW timeout \in Timeout, Add(type, timeout)
    PROVE  IInv'
<1> DEFINE t == New(type, timeout)
           n == Len(timers)
<1>1. /\ ~pass.on /\ timers' = Append(timers, t)
      /\ lastTest' = lastTest /\ now' = now /\ pass' = pass
  BY DEF Add
<1>2. /\ timers \in Seq(TimerRec) /\ now \in Nat /\ lastTest \in Nat /\ lastTest <= now
      /\ timeout \in Nat /\ 0 < timeout /\ pass.at \in Nat /\ pass.at <= n
  BY TimersAssumption DEF IInv, Typed, TimersAssumption
<1>3. t \in TimerRec /\ Good(t, lastTest)
  BY <1>2 DEF New, Timer, Good, Types, TimerRec
<1>4. n \in Nat /\ timers' \in Seq(TimerRec) /\ Len(timers') = n + 1
      /\ timers'[n + 1] = t /\ \A i \in 1..n : timers'[i] = timers[i]
  BY <1>1, <1>2, <1>3, LenProperties, AppendProperties
<1> HIDE DEF t, n
<1>5. \A i : Ref(i) = lastTest /\ Ref(i)' = lastTest
  BY <1>1 DEF Ref
<1>6. Charges'
  <2>1. \A i \in 1..n : Good(timers[i], lastTest)
    BY <1>5 DEF IInv, Charges, n
  <2>2. ASSUME NEW i \in 1..(n + 1) PROVE Good(timers'[i], lastTest)
    BY <2>1, <1>3, <1>4
  <2>3. \A i \in 1..(n + 1) : Good(timers'[i], Ref(i)')
    BY <2>2, <1>5
  <2> QED BY <2>3, <1>4 DEF Charges, Good
<1>7. Typed' /\ LastRight'
  BY <1>1, <1>2, <1>4 DEF IInv, Typed, LastRight, n
<1> QED BY <1>6, <1>7 DEF IInv

\* timer_remove keeps the invariant.
LEMMA RemoveTimerIInv ==
    ASSUME IInv, NEW k \in 1..Len(timers), RemoveTimer(k)
    PROVE  IInv'
<1> DEFINE n == Len(timers)
<1>1. /\ ~pass.on /\ timers' = RemoveAt(timers, k)
      /\ lastTest' = lastTest /\ now' = now /\ pass' = pass
  BY DEF RemoveTimer
<1>2. timers \in Seq(TimerRec) /\ n \in Nat
  BY LenProperties DEF IInv, Typed
<1>3. /\ timers' \in Seq(TimerRec) /\ Len(timers') = n - 1
      /\ \A i \in 1..n - 1 : timers'[i] = IF i < k THEN timers[i] ELSE timers[i + 1]
  BY <1>1, <1>2, RemoveAtPositions
<1>4. \A i : Ref(i) = lastTest /\ Ref(i)' = lastTest
  BY <1>1 DEF Ref
<1>5. Charges'
  <2>1. \A i \in 1..n : Good(timers[i], lastTest)
    BY <1>4 DEF IInv, Charges
  <2>2. \A i \in 1..n - 1 : Good(timers'[i], lastTest)
    BY <2>1, <1>2, <1>3
  <2>3. \A i \in 1..n - 1 : Good(timers'[i], Ref(i)')
    BY <2>2, <1>4
  <2> HIDE DEF n
  <2> QED BY <2>3, <1>3 DEF Charges, Good
<1>6. pass.at = 0
  BY <1>1 DEF IInv, Typed
<1>7. Typed' /\ LastRight'
  BY <1>1, <1>2, <1>3, <1>6 DEF IInv, Typed, LastRight
<1> QED BY <1>5, <1>7 DEF IInv

\* The beginning of timers_check.
LEMMA StartPassIInv == ASSUME IInv, StartPass PROVE IInv'
<1> DEFINE n == Len(timers)
<1>1. /\ ~pass.on /\ timers' = timers /\ lastTest' = lastTest /\ now' = now
      /\ pass' = [on |-> TRUE, time |-> now, at |-> IF timers = <<>> THEN 0 ELSE 1, last |-> <<>>]
  BY DEF StartPass, NoPass
<1>2. timers \in Seq(TimerRec) /\ n \in Nat /\ (timers = <<>> <=> n = 0)
  BY LenProperties, EmptySeq DEF IInv, Typed
<1>3. pass' \in [on : BOOLEAN, time : Nat, at : Nat, last : Seq(TimerRec)]
  BY <1>1, EmptySeq DEF IInv, Typed
<1>4. /\ pass'.on /\ pass'.time = now /\ pass'.last = <<>>
      /\ pass'.at = IF timers = <<>> THEN 0 ELSE 1
  BY <1>1
<1>5. Typed' /\ LastRight'
  BY <1>1, <1>2, <1>3, <1>4 DEF IInv, Typed, LastRight
<1>6. \A i \in 1..n : Ref(i) = lastTest /\ Ref(i)' = lastTest
  BY <1>1, <1>2, <1>4 DEF Ref
<1>7. Charges'
  <2>1. \A i \in 1..n : Good(timers[i], Ref(i)')
    BY <1>6 DEF IInv, Charges
  <2> QED BY <2>1, <1>1 DEF Charges, Good
<1> QED BY <1>5, <1>7 DEF IInv

\* The end of timers_check.
LEMMA EndPassIInv == ASSUME IInv, EndPass PROVE IInv'
<1>1. /\ pass.on /\ pass.at = 0 /\ timers' = timers /\ now' = now
      /\ lastTest' = pass.time /\ pass' = NoPass
  BY DEF EndPass
<1>2. /\ NoPass.on = FALSE /\ NoPass.at = 0 /\ NoPass.last = <<>>
      /\ NoPass \in [on : BOOLEAN, time : Nat, at : Nat, last : Seq(TimerRec)]
  BY EmptySeq DEF NoPass
<1>3. \A i : Ref(i) = pass.time /\ Ref(i)' = pass.time
  BY <1>1, <1>2 DEF Ref
<1>4. Charges'
  <2>1. \A i \in 1..Len(timers) : Good(timers[i], Ref(i)')
    BY <1>3 DEF IInv, Charges
  <2> QED BY <2>1, <1>1 DEF Charges, Good
<1>5. Typed' /\ LastRight'
  BY <1>1, <1>2, LenProperties DEF IInv, Typed, LastRight
<1> QED BY <1>4, <1>5 DEF IInv

-----------------------------------------------------------------------------
(* A pass.                                                                 *)

\* What a pass makes of the timer that it visits: not yet charged for the time of
\* the pass when it comes to it, and so when it goes on.
LEMMA Visit ==
    ASSUME IInv, pass.on, pass.at # 0
    PROVE  LET t == Charged(timers[pass.at])
           IN  /\ pass.at \in 1..Len(timers)
               /\ t \in TimerRec
               /\ t.set = timers[pass.at].set /\ t.type = timers[pass.at].type
               /\ ~Due(t) => Good(t, pass.time)
               /\ Due(t) => pass.time >= (IF t.type = "at" THEN t.set ELSE t.base + t.set)
<1> DEFINE s == timers[pass.at]
           t == Charged(s)
<1>1. /\ pass.at \in 1..Len(timers) /\ s \in TimerRec
      /\ pass.time \in Nat /\ lastTest \in Nat /\ lastTest <= pass.time
  BY LenProperties, ElementOfSeq DEF IInv, Typed
<1>2. Good(s, lastTest)
  <2>1. Ref(pass.at) = lastTest
    BY <1>1 DEF Ref
  <2> QED BY <1>1, <2>1 DEF IInv, Charges
<1> HIDE DEF s
<1>3. CASE s.type = "at"
  BY <1>1, <1>2, <1>3 DEF Charged, Good, Due, TimerRec, s
<1>4. CASE s.type # "at"
  <2>1. /\ t = [s EXCEPT !.left = s.left - (pass.time - lastTest)]
        /\ t.left = s.left - (pass.time - lastTest) /\ t.left \in Int
        /\ t.type = s.type /\ t.set = s.set /\ t.base = s.base /\ t.added = s.added
    BY <1>1, <1>4 DEF Charged, TimerRec
  <2>2. t \in TimerRec
    BY <1>1, <2>1 DEF TimerRec
  <2>3. /\ s.set + s.base <= s.left + lastTest /\ s.left + lastTest <= s.set + s.added
        /\ s.set \in Nat /\ s.base \in Nat /\ s.left \in Int /\ s.added \in Nat
    BY <1>1, <1>2, <1>4 DEF Good, TimerRec
  <2>4. Due(t) <=> t.left <= 0
    BY <1>4, <2>1 DEF Due
  <2> HIDE DEF t
  <2>5. ~Due(t) => Good(t, pass.time)
    BY <1>1, <1>4, <2>1, <2>3, <2>4 DEF Good
  <2>6. Due(t) => pass.time >= t.base + t.set
    BY <1>1, <2>1, <2>3, <2>4
  <2> QED BY <1>1, <1>4, <2>1, <2>2, <2>5, <2>6 DEF t, s
<1> QED BY <1>3, <1>4

\* select waits, and the clock goes on.
LEMMA WaitIInv == ASSUME IInv, Wait PROVE IInv'
<1> DEFINE k == pass.at
           n == Len(timers)
           t == Charged(timers[k])
<1>1. /\ pass.on /\ k # 0 /\ ~Due(t) /\ timers' = [timers EXCEPT ![k] = t]
      /\ pass' = [pass EXCEPT !.at = NextPlace] /\ lastTest' = lastTest /\ now' = now
  BY DEF Wait
<1>2. k \in 1..n /\ t \in TimerRec /\ Good(t, pass.time)
  BY <1>1, Visit
<1>3. timers \in Seq(TimerRec) /\ n \in Nat
  BY LenProperties DEF IInv, Typed
<1>4. timers' \in Seq(TimerRec) /\ Len(timers') = n
  BY <1>1, <1>2, <1>3, ExceptSeq
<1>5. \A i \in 1..n : timers'[i] = IF i = k THEN t ELSE timers[i]
  BY <1>1, <1>2, <1>3, ExceptSeq, LenProperties
<1>6. /\ pass'.on /\ pass'.time = pass.time /\ pass'.last = pass.last
      /\ pass'.at = IF k = n THEN 0 ELSE k + 1
      /\ pass' \in [on : BOOLEAN, time : Nat, at : Nat, last : Seq(TimerRec)]
  BY <1>1, <1>2, <1>3 DEF IInv, Typed, NextPlace
<1> HIDE DEF t, n
<1>7. Typed' /\ LastRight'
  BY <1>1, <1>2, <1>3, <1>4, <1>6 DEF IInv, Typed, LastRight, n
<1>8. ASSUME NEW i \in 1..n PROVE Good(timers'[i], Ref(i)')
  <2>1. CASE i = k
    <3>1. Ref(i)' = pass.time
      BY <2>1, <1>2, <1>3, <1>6 DEF Ref
    <3> QED BY <3>1, <2>1, <1>2, <1>5
  <2>2. CASE i # k
    <3>1. Ref(i)' = Ref(i)
      BY <2>2, <1>1, <1>2, <1>3, <1>6 DEF Ref
    <3> QED BY <3>1, <2>2, <1>5 DEF IInv, Charges, n
  <2> QED BY <2>1, <2>2
<1>9. Charges'
  BY <1>4, <1>8 DEF Charges, Good
<1> QED BY <1>7, <1>9 DEF IInv

\* A timer whose times change is still a timer.
LEMMA ChangedTimer ==
    ASSUME NEW t \in TimerRec, NEW left \in Int, NEW added \in Nat, NEW base \in Nat
    PROVE  [t EXCEPT !.left = left, !.added = added, !.base = base] \in TimerRec
<1> DEFINE u == [t EXCEPT !.left = left]
           v == [u EXCEPT !.added = added]
<1>1. u \in TimerRec
  BY DEF TimerRec
<1> HIDE DEF u
<1>2. v \in TimerRec
  BY <1>1 DEF TimerRec
<1> HIDE DEF v
<1>3. [v EXCEPT !.base = base] \in TimerRec
  BY <1>2 DEF TimerRec
<1> QED BY <1>3 DEF u, v

\* The timers that a callback adds are good in this pass, visited or not.
LEMMA NewTimers ==
    ASSUME IInv, pass.on, NEW time \in now..MaxTime, NEW new,
           \/ new = <<>>
           \/ \E timeout \in Timeout : new = <<New("timeout", timeout)>>
    PROVE  LET extra == [i \in 1..Len(new) |-> [new[i] EXCEPT !.added = time]]
           IN  /\ extra \in Seq(TimerRec) /\ Len(extra) \in Nat
               /\ \A i \in 1..Len(extra) :
                      Good(extra[i], lastTest) /\ Good(extra[i], pass.time)
<1> DEFINE extra == [i \in 1..Len(new) |-> [new[i] EXCEPT !.added = time]]
           Fine ==
             /\ extra \in Seq(TimerRec) /\ Len(extra) \in Nat
             /\ \A i \in 1..Len(extra) :
                   Good(extra[i], lastTest) /\ Good(extra[i], pass.time)
<1>1. /\ now \in Nat /\ lastTest \in Nat /\ lastTest <= pass.time /\ pass.time <= now
      /\ pass.time \in Nat /\ time \in Nat /\ now <= time
  BY TimersAssumption DEF IInv, Typed, TimersAssumption
<1>2. ASSUME new = <<>> PROVE Fine
  <2>1. Len(new) = 0
    BY <1>2
  <2>2. extra \in Seq(TimerRec)
    BY <2>1, SeqDef
  <2>3. Len(extra) = 0
    BY <2>1, <2>2, LenProperties
  <2> HIDE DEF extra
  <2>4. \A i \in 1..Len(extra) : Good(extra[i], lastTest) /\ Good(extra[i], pass.time)
    BY <2>3
  <2>5. Len(extra) \in Nat
    BY <2>3
  <2> QED BY <2>2, <2>4, <2>5
<1>3. ASSUME \E timeout \in Timeout : new = <<New("timeout", timeout)>> PROVE Fine
  <2>1. PICK timeout \in Timeout : new = <<New("timeout", timeout)>>
    BY <1>3
  <2> DEFINE t == New("timeout", timeout)
             u == [t EXCEPT !.added = time]
  <2>2. timeout \in Nat \ {0}
    BY TimersAssumption DEF TimersAssumption
  <2>3. u = [type |-> "timeout", set |-> timeout, left |-> timeout,
             added |-> time, base |-> lastTest]
    BY DEF New, Timer
  <2>4. u \in TimerRec /\ Good(u, lastTest) /\ Good(u, pass.time)
    BY <1>1, <2>2, <2>3 DEF TimerRec, Types, Good
  <2> HIDE DEF t
  <2>5. Len(new) = 1 /\ new[1] = t
    BY <2>1 DEF t
  <2>6. extra = [i \in 1..1 |-> u]
    <3>1. \A i \in 1..1 : i = 1
      OBVIOUS
    <3> QED BY <2>5, <3>1
  <2> HIDE DEF u, extra
  <2>7. extra \in Seq(TimerRec)
    BY <2>4, <2>6, SeqDef
  <2>8. Len(extra) = 1 /\ \A i \in 1..Len(extra) : extra[i] = u
    BY <2>6, <2>7, LenProperties
  <2> QED BY <2>4, <2>7, <2>8
<1> QED BY <1>2, <1>3

\* A timer that goes off.
LEMMA GoOffIInv ==
    ASSUME IInv, NEW again \in BOOLEAN, NEW time \in now..MaxTime, NEW new,
           \/ new = <<>>
           \/ \E timeout \in Timeout : new = <<New("timeout", timeout)>>,
           GoOff(again, new, time)
    PROVE  IInv'
<1> DEFINE k == pass.at
           n == Len(timers)
           t == Charged(timers[k])
           extra == [i \in 1..Len(new) |-> [new[i] EXCEPT !.added = time]]
           m == Len(extra)
           more == timers \o extra
           keep == again /\ t.type = "timeout"
           u == [t EXCEPT !.left = t.set, !.added = pass.time, !.base = pass.time]
<1>1. /\ pass.on /\ k # 0 /\ Due(t) /\ lastTest' = lastTest /\ now' = time
      /\ timers' = IF keep THEN [more EXCEPT ![k] = u] ELSE RemoveAt(more, k)
      /\ pass' = [pass EXCEPT !.last = <<t>>,
                   !.at = IF keep \/ NextPlace = 0 THEN NextPlace ELSE NextPlace - 1]
  BY DEF GoOff
<1>2. /\ timers \in Seq(TimerRec) /\ n \in Nat /\ now \in Nat /\ time \in Nat /\ now <= time
      /\ lastTest \in Nat /\ lastTest <= pass.time /\ pass.time <= now
      /\ pass \in [on : BOOLEAN, time : Nat, at : Nat, last : Seq(TimerRec)]
      /\ pass.time \in Nat
  BY <1>1, LenProperties, TimersAssumption DEF IInv, Typed, TimersAssumption
<1>3. /\ k \in 1..n /\ t \in TimerRec
      /\ pass.time >= (IF t.type = "at" THEN t.set ELSE t.base + t.set)
  BY <1>1, Visit
<1>4. /\ extra \in Seq(TimerRec) /\ m \in Nat
      /\ \A i \in 1..m : Good(extra[i], lastTest) /\ Good(extra[i], pass.time)
  BY <1>1, NewTimers
<1>5. /\ more \in Seq(TimerRec) /\ Len(more) = n + m
      /\ \A i \in 1..n + m : more[i] = IF i <= n THEN timers[i] ELSE extra[i - n]
  <2>1. timers \in Seq(TimerRec) /\ extra \in Seq(TimerRec) /\ more = timers \o extra
    BY <1>2, <1>4
  <2> QED BY ONLY <2>1, ConcatProperties
<1>6. /\ pass'.on /\ pass'.time = pass.time /\ pass'.last = <<t>>
      /\ pass'.at = IF k = n THEN 0 ELSE IF keep THEN k + 1 ELSE k
      /\ pass' \in [on : BOOLEAN, time : Nat, at : Nat, last : Seq(TimerRec)]
  <2>1. NextPlace = IF k = n THEN 0 ELSE k + 1
    BY DEF NextPlace
  <2>2. <<t>> \in Seq(TimerRec)
    BY <1>3
  <2> DEFINE a == IF keep \/ NextPlace = 0 THEN NextPlace ELSE NextPlace - 1
  <2> HIDE DEF t, n, keep
  <2>3. a = (IF k = n THEN 0 ELSE IF keep THEN k + 1 ELSE k) /\ a \in Nat
    BY <2>1, <1>2, <1>3
  <2>4. pass' = [pass EXCEPT !.last = <<t>>, !.at = a]
    BY <1>1
  <2> HIDE DEF a
  <2>5. pass' = [on |-> pass.on, time |-> pass.time, at |-> a, last |-> <<t>>]
    BY <2>4, <1>2
  <2>6. pass' \in [on : BOOLEAN, time : Nat, at : Nat, last : Seq(TimerRec)]
    BY <2>2, <2>3, <2>5, <1>2
  <2>7. pass'.on = pass.on /\ pass'.time = pass.time /\ pass'.at = a /\ pass'.last = <<t>>
    BY <2>5
  <2>8. pass.on
    BY <1>1
  <2> QED BY <2>3, <2>6, <2>7, <2>8
<1>7. u \in TimerRec /\ (keep => Good(u, pass.time))
  <2>1. /\ u.type = t.type /\ u.set = t.set /\ u.left = t.set
        /\ u.added = pass.time /\ u.base = pass.time
    BY <1>3 DEF TimerRec
  <2> HIDE DEF t
  <2>2. u \in TimerRec
    <3>1. t.set \in Int
      BY <1>3 DEF TimerRec
    <3> QED BY <1>2, <1>3, <3>1, ChangedTimer
  <2>3. t.set \in Nat \ {0}
    BY <1>3 DEF TimerRec
  <2> HIDE DEF u
  <2> QED BY <1>2, <2>1, <2>2, <2>3 DEF Good, keep
<1> HIDE DEF t, u, extra, m, more, n, keep
<1>8. \A i \in 1..n : Good(timers[i], Ref(i))
  BY DEF IInv, Charges, n
<1>9. LastRight'
  BY <1>3, <1>6 DEF LastRight
<1>10. CASE keep
  <2>1. timers' \in Seq(TimerRec) /\ Len(timers') = n + m
    BY <1>1, <1>2, <1>3, <1>4, <1>5, <1>7, <1>10, ExceptSeq
  <2>2. \A i \in 1..n + m : timers'[i] = IF i = k THEN u ELSE more[i]
    BY <1>1, <1>2, <1>3, <1>4, <1>5, <1>7, <1>10, ExceptSeq
  <2>3. ASSUME NEW i \in 1..n + m PROVE Good(timers'[i], Ref(i)')
    <3>1. CASE i = k
      <4>1. Ref(i)' = pass.time
        BY <3>1, <1>2, <1>3, <1>6, <1>10 DEF Ref
      <4> QED BY <4>1, <3>1, <2>2, <1>7, <1>10
    <3>2. CASE i # k /\ i <= n
      <4>1. Ref(i)' = Ref(i)
        BY <3>2, <1>1, <1>2, <1>3, <1>6, <1>10 DEF Ref
      <4> QED BY <4>1, <3>2, <2>2, <1>2, <1>5, <1>8
    <3>3. CASE i > n
      <4>1. Ref(i)' \in {lastTest, pass.time}
        BY <1>1, <1>6 DEF Ref
      <4>2. i - n \in 1..m /\ timers'[i] = extra[i - n]
        BY <3>3, <2>2, <1>2, <1>3, <1>4, <1>5
      <4> QED BY <4>1, <4>2, <1>4
    <3> QED BY <3>1, <3>2, <3>3, <1>2, <1>3, <1>4
  <2>4. Charges'
    BY <2>1, <2>3 DEF Charges, Good
  <2>5. Typed'
    BY <2>1, <1>1, <1>2, <1>3, <1>4, <1>6, <1>10 DEF Typed
  <2> QED BY <2>4, <2>5, <1>9 DEF IInv
<1>11. CASE ~keep
  <2>1. /\ timers' \in Seq(TimerRec) /\ Len(timers') = n + m - 1
        /\ \A i \in 1..n + m - 1 : timers'[i] = IF i < k THEN more[i] ELSE more[i + 1]
    <3>1. k \in 1..Len(more) /\ timers' = RemoveAt(more, k)
      BY <1>1, <1>2, <1>3, <1>4, <1>5, <1>11
    <3>2. /\ timers' \in Seq(TimerRec) /\ Len(timers') = Len(more) - 1
          /\ \A i \in 1..Len(more) - 1 : timers'[i] = IF i < k THEN more[i] ELSE more[i + 1]
      BY <3>1, <1>5, RemoveAtPositions
    <3>3. Len(more) = n + m /\ n \in Nat /\ m \in Nat
      BY <1>2, <1>4, <1>5
    <3>4. Len(more) - 1 = n + m - 1
      BY <3>3
    <3> QED BY <3>2, <3>4, Zenon
  <2>2. ASSUME NEW i \in 1..n + m - 1 PROVE Good(timers'[i], Ref(i)')
    <3>1. CASE i < k
      <4>1. Ref(i)' = Ref(i) /\ i \in 1..n
        <5>1. i \in 1..n /\ i < pass.at
          BY <3>1, <1>2, <1>3, <1>4
        <5>2. Ref(i) = pass.time
          BY <5>1, <1>1 DEF Ref
        <5>3. Ref(i)' = pass.time
          BY <5>1, <1>1, <1>6, <1>11 DEF Ref
        <5> QED BY <5>1, <5>2, <5>3
      <4>2. timers'[i] = timers[i]
        <5>1. i \in 1..n + m /\ i <= n
          BY <4>1, <1>2, <1>4
        <5> QED BY <5>1, <3>1, <2>1, <1>5
      <4> QED BY <4>1, <4>2, <1>8
    <3>2. CASE i >= k /\ i + 1 <= n
      <4>1. Ref(i)' = Ref(i + 1)
        BY <3>2, <1>1, <1>2, <1>3, <1>6, <1>11 DEF Ref
      <4>2. timers'[i] = timers[i + 1] /\ i + 1 \in 1..n
        BY <3>2, <2>1, <1>2, <1>3, <1>4, <1>5
      <4> QED BY <4>1, <4>2, <1>8
    <3>3. CASE i >= k /\ i + 1 > n
      <4>1. Ref(i)' \in {lastTest, pass.time}
        BY <1>1, <1>6 DEF Ref
      <4>2. (i + 1) - n \in 1..m /\ timers'[i] = extra[(i + 1) - n]
        BY <3>3, <2>1, <1>2, <1>3, <1>4, <1>5
      <4> QED BY <4>1, <4>2, <1>4
    <3> QED BY <3>1, <3>2, <3>3, <1>2, <1>3, <1>4
  <2>3. Charges'
    BY <2>1, <2>2 DEF Charges, Good
  <2>4. Typed'
    BY <2>1, <1>1, <1>2, <1>3, <1>4, <1>6, <1>11 DEF Typed
  <2> QED BY <2>3, <2>4, <1>9 DEF IInv
<1> QED BY <1>10, <1>11

-----------------------------------------------------------------------------
(* The theorems.                                                           *)

\* Every step keeps the invariant.
LEMMA NextIInv == ASSUME IInv, [TimersNext]_timersVars PROVE IInv'
<1>1. CASE Tick
  <2>1. now' = now + 1 /\ timers' = timers /\ lastTest' = lastTest /\ pass' = pass
    BY <1>1 DEF Tick
  <2> QED BY <2>1 DEF IInv, Typed, Charges, LastRight, Ref, Good
<1>2. CASE StartPass
  BY <1>2, StartPassIInv
<1>3. CASE Pass
  <2>1. CASE Wait
    BY <2>1, WaitIInv
  <2>2. CASE EndPass
    BY <2>2, EndPassIInv
  <2>3. CASE \E again \in BOOLEAN, time \in now..MaxTime :
               \/ GoOff(again, <<>>, time)
               \/ \E timeout \in Timeout : GoOff(again, <<New("timeout", timeout)>>, time)
    <3>1. PICK again \in BOOLEAN, time \in now..MaxTime :
               \/ GoOff(again, <<>>, time)
               \/ \E timeout \in Timeout : GoOff(again, <<New("timeout", timeout)>>, time)
      BY <2>3
    <3>2. CASE GoOff(again, <<>>, time)
      BY <3>2, GoOffIInv
    <3>3. CASE \E timeout \in Timeout : GoOff(again, <<New("timeout", timeout)>>, time)
      BY <3>3, GoOffIInv
    <3> QED BY <3>1, <3>2, <3>3
  <2> QED BY <1>3, <2>1, <2>2, <2>3 DEF Pass
<1>4. CASE \E type \in Types, timeout \in Timeout : Add(type, timeout)
  BY <1>4, AddIInv
<1>5. CASE \E i \in DOMAIN timers : RemoveTimer(i)
  <2>1. DOMAIN timers = 1..Len(timers)
    BY LenProperties DEF IInv, Typed
  <2> QED BY <1>5, <2>1, RemoveTimerIInv
<1>6. CASE UNCHANGED timersVars
  BY <1>6 DEF timersVars, IInv, Typed, Charges, LastRight, Ref, Good
<1> QED BY <1>1, <1>2, <1>3, <1>4, <1>5, <1>6 DEF TimersNext

\* The invariant holds in every state.
LEMMA Invariance == TimersSpec => []IInv
<1>1. TimersInit => IInv
  BY InitIInv
<1>2. IInv /\ [TimersNext]_timersVars => IInv'
  BY NextIInv
<1> QED BY <1>1, <1>2, PTL DEF TimersSpec

\* No timer goes off earlier than its timeout after the pass before it was added,
\* and none that was set for a time before that time (timers_ctest).
THEOREM NoTimerTooEarly == TimersSpec => []NotTooEarly
<1>1. IInv => NotTooEarly
  BY DEF IInv, LastRight, NotTooEarly
<1> QED BY <1>1, Invariance, PTL

\* After a pass no timer is left that was due at its start: the next place that
\* ll_loop saves skips none, whatever the callbacks add and remove.
THEOREM NoTimerLate == TimersSpec => []NeverLate
<1>1. ASSUME IInv PROVE NeverLate
  <2>1. SUFFICES ASSUME ~pass.on, NEW i \in DOMAIN timers
                 PROVE  lastTest < (IF timers[i].type = "at" THEN timers[i].set
                                    ELSE timers[i].added + timers[i].set)
    BY DEF NeverLate
  <2>2. i \in 1..Len(timers) /\ timers[i] \in TimerRec /\ lastTest \in Nat
    BY <1>1, LenProperties, ElementOfSeq DEF IInv, Typed
  <2>3. Good(timers[i], lastTest)
    BY <1>1, <2>1, <2>2 DEF IInv, Charges, Ref
  <2> QED BY <2>2, <2>3 DEF Good, TimerRec
<1> QED BY <1>1, Invariance, PTL
=============================================================================
