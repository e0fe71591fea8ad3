------------------------------- MODULE Timers --------------------------------
(***************************************************************************)
(* The timers (timers.c) in the main loop: what timers_ctest charges each  *)
(* timer, when it goes off, and what a callback may do meanwhile.  Time is *)
(* whole seconds and passes between the passes and inside the callbacks,   *)
(* which may connect to a server and block.                                *)
(***************************************************************************)
EXTENDS Integers, Sequences, SequencesExt

CONSTANTS
    Timeout,    \* the timeouts that timers are set to
    MaxTimers,  \* bound: timers in the list
    MaxTime     \* bound: seconds

ASSUME TimersAssumption ==
    /\ Timeout \subseteq Nat \ {0}
    /\ MaxTimers \in Nat /\ MaxTime \in Nat

VARIABLES
    timers,     \* the list; added and base are histories (see Timer)
    lastTest,   \* the time of the last pass
    now,        \* the time
    pass        \* the pass under way: its time, and the place it goes to next

timersVars == <<timers, lastTest, now, pass>>

Types == {"timeout", "at"}

\* added is the time the timer was added or set again, base that of the pass
\* before, and left is currentTimeout.
Timer(type, timeout) ==
    [type |-> type, set |-> timeout, left |-> timeout, added |-> now, base |-> lastTest]

NoPass == [on |-> FALSE, time |-> 0, at |-> 0, last |-> <<>>]

TimersInit ==
    /\ timers = <<>> /\ lastTest = 0 /\ now = 0
    /\ pass = NoPass

Tick ==
    /\ now < MaxTime
    /\ now' = now + 1
    /\ UNCHANGED <<timers, lastTest, pass>>

\* timers_cadd, for which TM_AT takes a time and TM_TIMEOUT a span.
New(type, timeout) == Timer(type, IF type = "at" THEN now + timeout ELSE timeout)

Add(type, timeout) ==
    /\ ~pass.on /\ Len(timers) < MaxTimers
    /\ timers' = Append(timers, New(type, timeout))
    /\ UNCHANGED <<lastTest, now, pass>>

\* timers_remove by the owner of a timer, between two passes.
RemoveTimer(i) ==
    /\ ~pass.on
    /\ timers' = RemoveAt(timers, i)
    /\ UNCHANGED <<lastTest, now, pass>>

\* timers_ctest begins.
StartPass ==
    /\ ~pass.on
    /\ pass' = [NoPass EXCEPT !.on = TRUE, !.time = now, !.at = IF timers = <<>> THEN 0 ELSE 1]
    /\ UNCHANGED <<timers, lastTest, now>>

\* Mutant: the time that has passed is that since the timer was added.
ChargedTwice(t) ==
    IF t.type = "at" THEN t ELSE [t EXCEPT !.left = @ - (pass.time - t.base)]

\* What the pass takes from the timeout of a timer.
Charged(t) ==
    IF t.type = "at" THEN t ELSE [t EXCEPT !.left = @ - (pass.time - lastTest)]

\* Mutant: a timer goes off when less than nothing is left.
DueLate(t) == IF t.type = "at" THEN t.left <= pass.time ELSE t.left < 0

Due(t) == IF t.type = "at" THEN t.left <= pass.time ELSE t.left <= 0

\* The place behind the timer, saved by ll_loop before its callback; 0 is NULL.
NextPlace == IF pass.at = Len(timers) THEN 0 ELSE pass.at + 1

\* The pass comes to a timer that does not go off.
Wait ==
    /\ pass.on /\ pass.at # 0
    /\ LET t == Charged(timers[pass.at])
       IN  ~Due(t) /\ timers' = [timers EXCEPT ![pass.at] = t]
    /\ pass' = [pass EXCEPT !.at = NextPlace]
    /\ UNCHANGED <<lastTest, now>>

\* A callback may add a timer, after some time, and returns whether to go on.
GoOff(again, new, time) ==
    /\ pass.on /\ pass.at # 0
    /\ time \in now..MaxTime
    /\ LET t == Charged(timers[pass.at])
           more == timers \o [i \in 1..Len(new) |-> [new[i] EXCEPT !.added = time]]
           keep == again /\ t.type = "timeout"
       IN  /\ Due(t) /\ Len(more) <= MaxTimers
           /\ timers' = IF keep
                        THEN [more EXCEPT ![pass.at] =
                                [t EXCEPT !.left = t.set, !.added = pass.time, !.base = pass.time]]
                        ELSE RemoveAt(more, pass.at)
           /\ pass' = [pass EXCEPT
                         !.last = <<t>>,
                         !.at = IF keep \/ NextPlace = 0 THEN NextPlace ELSE NextPlace - 1]
    /\ now' = time
    /\ UNCHANGED lastTest

EndPass ==
    /\ pass.on /\ pass.at = 0
    /\ lastTest' = pass.time /\ pass' = NoPass
    /\ UNCHANGED <<timers, now>>

Pass ==
    \/ Wait \/ EndPass
    \/ \E again \in BOOLEAN, time \in now..MaxTime :
          \/ GoOff(again, <<>>, time)
          \/ \E timeout \in Timeout : GoOff(again, <<New("timeout", timeout)>>, time)

TimersNext ==
    \/ Tick \/ StartPass \/ Pass
    \/ \E type \in Types, timeout \in Timeout : Add(type, timeout)
    \/ \E i \in DOMAIN timers : RemoveTimer(i)

TimersSpec == TimersInit /\ [][TimersNext]_timersVars

-----------------------------------------------------------------------------
(* Properties.                                                             *)

\* What is left of a timeout is the timeout less the time since the pass it
\* is counted from; times do not run ahead.
TimersTypeOK ==
    /\ \A i \in DOMAIN timers :
          /\ timers[i].type \in Types /\ timers[i].set \in Nat /\ timers[i].left \in Int
          /\ timers[i].base \in 0..timers[i].added /\ timers[i].added \in 0..now
    /\ lastTest \in 0..now /\ now \in Nat
    /\ pass.on \in BOOLEAN /\ pass.at \in 0..Len(timers) /\ pass.time \in 0..now

\* A timer goes off no earlier than its timeout after the pass before it was
\* added (timers.c:96 charges it the time since then), and one set for a
\* time not before that time.
NotTooEarly ==
    pass.last # <<>> =>
        LET t == pass.last[1]
        IN  pass.time >= (IF t.type = "at" THEN t.set ELSE t.base + t.set)

\* A pass leaves no timer that was due when it began, whatever the callbacks
\* have added and removed: none is skipped, none is late by a second pass.
NeverLate ==
    ~pass.on =>
        \A i \in DOMAIN timers :
            lastTest < (IF timers[i].type = "at" THEN timers[i].set
                        ELSE timers[i].added + timers[i].set)
=============================================================================
