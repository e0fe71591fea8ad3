------------------------------- MODULE Drinks -------------------------------
(***************************************************************************)
(* The plugins pivo and kofola: at most max_piv drinks in store, one more  *)
(* every minut_na_pivo minutes, all of it in one time stamp,               *)
(* posledni_pivo: the moment from which the store has been filling up.     *)
(***************************************************************************)
EXTENDS Naturals, Sequences

CONSTANTS
    Span,       \* seconds to a new drink: 60 * minut_na_pivo
    MaxPiv,        \* max_piv
    MaxClock     \* bound: seconds after the start

ASSUME DrinksAssumption == Span \in Nat \ {0} /\ MaxPiv \in Nat \ {0} /\ MaxClock \in Nat

VARIABLES
    clock,        \* time(NULL)
    last,       \* posledni_pivo of each plugin
    served      \* history: when the drinks of each plugin were served

drinksVars == <<clock, last, served>>

Drink == {"pivo", "kofola"}

-----------------------------------------------------------------------------
\* PluginInit: the store is full.
DrinksInit ==
    /\ clock = Span * MaxPiv
    /\ last = [d \in Drink |-> clock - Span * MaxPiv]
    /\ served = [d \in Drink |-> <<>>]

ClockTick ==
    /\ clock < Span * MaxPiv + MaxClock
    /\ clock' = clock + 1
    /\ UNCHANGED <<last, served>>

\* zbyva_piv, before it is cut.
Left(d) == (clock - last[d]) \div Span

\* Mutant: the time stamp is not brought forward when the store is full.
FilledNever(d) == last[d]

\* posledni_pivo after the cut: a full store does not fill up further.
Filled(d) == IF Left(d) > MaxPiv THEN clock - Span * MaxPiv ELSE last[d]

\* The command; zbyva_piv is 6 when it is cut, so the drink is served.
Order(d) ==
    /\ Left(d) > 0
    /\ last' = [last EXCEPT ![d] = Filled(d) + Span]
    /\ served' = [served EXCEPT ![d] = Append(@, clock)]
    /\ UNCHANGED clock

Pivo == Order("pivo")
Kofola == Order("kofola")

DrinksNext == ClockTick \/ Pivo \/ Kofola

DrinksSpec == DrinksInit /\ [][DrinksNext]_drinksVars

-----------------------------------------------------------------------------
\* In no stretch of time are there more drinks than a full store and what came
\* into it meanwhile: from the i-th drink to the j-th, MaxPiv, one for each Span,
\* and the one that was under way at the start.
DrinksBounded ==
    \A d \in Drink : \A i, j \in DOMAIN served[d] :
        i <= j => Span * (j - i + 1) < Span * (MaxPiv + 1) + served[d][j] - served[d][i]
=============================================================================
