-------------------------------- MODULE Frog --------------------------------
(***************************************************************************)
(* The frog of the plugin dummytalk: who says "kvak" is answered, until    *)
(* the channel is flooded; and who has been shown a frog may kiss it for a *)
(* minute.  The flood control doubles a threshold with every "kvak"; a     *)
(* timer takes it down again once a minute.                                *)
(*                                                                         *)
(* threshold is an int.  The doubling wraps at 2^31, as the compiled       *)
(* addition does: undefined in C, and for the model the one outcome that   *)
(* the build has.                                                          *)
(***************************************************************************)
EXTENDS Integers, Sequences

CONSTANTS
    Nick,       \* who may speak
    None,       \* kissNick when it is NULL
    MaxMinutes, \* bound: runs of the timer
    MaxFlood,   \* bound: "kvak"s in a minute
    MaxFrogs    \* bound: frogs shown

ASSUME FrogAssumption ==
    None \notin Nick /\ MaxMinutes \in Nat /\ MaxFlood \in Nat /\ MaxFrogs \in Nat

VARIABLES
    threshold,  \* plugData->threshold
    kissNick,   \* plugData->kissNick
    kissTimers, \* of each timer that takes the kiss back: has a minute begun since?
    minutes,    \* runs of dummytalk_clear_threshold so far
    kvaks,      \* "kvak"s since the last of them
    answers,    \* history: those that were answered
    ignored,    \* history: those that were not, since the flood began
    frogs,      \* history: frogs shown to each nick
    kisses      \* history: frogs kissed by each nick

flood == <<threshold, minutes, kvaks, answers, ignored>>
kiss == <<kissNick, kissTimers, frogs, kisses>>
frogVars == <<flood, kiss>>

-----------------------------------------------------------------------------
\* PluginInit.  kissNick is not set there; memory from malloc that is not zero
\* is freed with the first frog, after which the model has nothing to say.
FrogInit ==
    /\ threshold = 1
    /\ kissNick = None /\ kissTimers = <<>>
    /\ minutes = 0 /\ kvaks = 0 /\ answers = 0 /\ ignored = 0
    /\ frogs = [n \in Nick |-> 0] /\ kisses = [n \in Nick |-> 0]

\* Mutant: one more, and not twice as much.
DoubleByOne(t) == t + 1

\* t + t in 32 bits, computed within them.
Double(t) ==
    CASE t >= 1073741824 -> 2 * (t - 1073741824) - 2147483647 - 1
      [] t < -1073741824 -> 2 * (t + 1073741824) + 2147483647 + 1
      [] OTHER -> 2 * t

\* One frog in a while (a random number adds up in a file).
ShowFrog(n) ==
    /\ frogs[n] < MaxFrogs
    /\ kissNick' = n
    /\ kissTimers' = Append(kissTimers, FALSE)
    /\ frogs' = [frogs EXCEPT ![n] = @ + 1]
    /\ UNCHANGED kisses

\* dummytalk_handle_frog, in a channel.  Above 65535 the speaker is kicked too.
Kvak(n) ==
    /\ kvaks < MaxFlood
    /\ kvaks' = kvaks + 1
    /\ threshold' = Double(threshold)
    /\ IF threshold' > 1024
       THEN ignored' = ignored + 1 /\ UNCHANGED <<answers, kiss>>
       ELSE /\ answers' = answers + 1 /\ UNCHANGED ignored
            /\ ShowFrog(n) \/ UNCHANGED kiss
    /\ UNCHANGED minutes

\* Mutant: the frog can be kissed again.
KissAndKeep(n) ==
    /\ kissNick = n
    /\ kisses' = [kisses EXCEPT ![n] = @ + 1]
    /\ UNCHANGED <<flood, kissNick, kissTimers, frogs>>

\* The "bot: :*" of the one who was shown the frog last, and dummytalk_frog_kiss.
Kiss(n) ==
    /\ kissNick = n
    /\ kissNick' = None
    /\ kisses' = [kisses EXCEPT ![n] = @ + 1]
    /\ UNCHANGED <<flood, kissTimers, frogs>>

\* dummytalk_frog_remkiss: the timers outlive the kiss, and the next frog.
TakeKissBack ==
    /\ kissTimers # <<>>
    /\ kissNick' = None
    /\ kissTimers' = Tail(kissTimers)
    /\ UNCHANGED <<flood, frogs, kisses>>

\* dummytalk_clear_threshold, once a minute; a timer of a minute goes off
\* between the run after it was set and the next.
ClearThreshold ==
    /\ minutes < MaxMinutes
    /\ \A i \in DOMAIN kissTimers : ~kissTimers[i]
    /\ minutes' = minutes + 1
    /\ threshold' = LET t == IF threshold > 1024 THEN threshold - 1024
                             ELSE IF threshold > 1 THEN threshold \div 2 ELSE threshold
                    IN  IF t < 1 THEN 1 ELSE t
    /\ kvaks' = 0 /\ answers' = 0
    /\ ignored' = IF threshold' > 1024 THEN ignored ELSE 0
    /\ kissTimers' = [i \in DOMAIN kissTimers |-> TRUE]
    /\ UNCHANGED <<kissNick, frogs, kisses>>

FrogNext ==
    \/ \E n \in Nick : Kvak(n) \/ Kiss(n)
    \/ TakeKissBack \/ ClearThreshold

FrogSpec == FrogInit /\ [][FrogNext]_frogVars

-----------------------------------------------------------------------------
\* The frog does not flood the channel: more than ten answers in a minute only
\* after twenty "kvak"s in one flood have been ignored, when the int has wrapped
\* and the control is off until the timer sets it right.
FrogQuiet == answers > 10 => ignored >= 20

\* Nobody kisses without a frog: whatever timers are left over from older frogs,
\* each frog is kissed at most once and by the one it was shown to.
KissEarned ==
    \A n \in Nick : kisses[n] + (IF kissNick = n THEN 1 ELSE 0) <= frogs[n]
=============================================================================
