------------------------------ MODULE Glossary -------------------------------
(***************************************************************************)
(* What the plugin calc promises to a channel: a glossary.  Anybody may    *)
(* ask what a name means and add a name that has no meaning yet; only who  *)
(* has the privilege may change or remove one.  The names are the words    *)
(* without the accidents of typing, which are the business of Calc.        *)
(***************************************************************************)
CONSTANTS
    Name,       \* names, of which Empty is none
    Meaning,    \* what a name may be said to mean, of which Empty is nothing
    Empty

VARIABLES
    entries,    \* the meaning of each name
    request,    \* what was asked or told last, and by whom
    reply       \* the answer

vars == <<entries, request, reply>>

Init ==
    /\ entries = [n \in Name |-> Empty]
    /\ request = [kind |-> "none", name |-> Empty, meaning |-> Empty, admin |-> FALSE]
    /\ reply = [kind |-> "none", meaning |-> Empty]

Request(kind, n, meaning, admin) ==
    request' = [kind |-> kind, name |-> n, meaning |-> meaning, admin |-> admin]

Answer(kind, meaning) == reply' = [kind |-> kind, meaning |-> meaning]

Known(n) == entries[n] # Empty

Ask(n) ==
    /\ IF Known(n) THEN Answer("is", entries[n]) ELSE Answer("unknown", Empty)
    /\ UNCHANGED entries

Keep(n, admin) ==
    /\ Known(n) /\ ~admin
    /\ Answer("known", Empty)
    /\ UNCHANGED entries

Set(n, meaning, admin) ==
    /\ Known(n) => admin
    /\ n # Empty /\ meaning # Empty
    /\ Answer("now", meaning)
    /\ entries' = [entries EXCEPT ![n] = meaning]

Remove(n, admin) ==
    /\ Known(n) /\ admin
    /\ Answer("unknown", Empty)
    /\ entries' = [entries EXCEPT ![n] = Empty]

\* Nothing is lost by a refusal, whatever the reason.
Refuse(n, admin) ==
    /\ Known(n) => admin
    /\ Answer("refused", Empty)
    /\ UNCHANGED entries

Tell(n, meaning, admin) ==
    \/ Keep(n, admin) \/ Set(n, meaning, admin) \/ Refuse(n, admin)
    \/ meaning = Empty /\ Remove(n, admin)

Next ==
    \E n \in Name, meaning \in Meaning, admin \in BOOLEAN :
        \/ Request("ask", n, Empty, admin) /\ Ask(n)
        \/ Request("tell", n, meaning, admin) /\ Tell(n, meaning, admin)

Spec == Init /\ [][Next]_vars
=============================================================================
