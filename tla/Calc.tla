--------------------------------- MODULE Calc --------------------------------
(***************************************************************************)
(* The plugin calc: "??name" asks for a row of its table, "??name=value"   *)
(* adds one; who has the privilege calcadmin changes it so, and removes it *)
(* with an empty value.  Whatever is typed, in whatever case and with      *)
(* whatever spaces, it is to be the glossary of the module Glossary.       *)
(*                                                                         *)
(* A message is modelled by what was meant by it and by how it is typed.   *)
(* The database is external: it compares names without regard to case, as  *)
(* the statements ask for (COLLATE NOCASE), and a statement that changes   *)
(* it may fail.                                                            *)
(***************************************************************************)
EXTENDS Sequences, SequencesExt, FiniteSets, FiniteSetsExt

CONSTANTS
    Typed,      \* names as they are typed
    Value,      \* values that they are given
    Pad,        \* spaces that are typed around both
    Lower       \* the lower case of each letter that is not in it

Char == {"?", "=", " "} \cup UNION {Range(str) : str \in Typed \cup Value \cup Pad}

\* What is typed is taken apart into words, the first of which ends at the
\* first "=", and spaces around them; a lower case has no other lower case.
ASSUME CalcAssumption ==
    /\ Typed \cup Value \cup Pad \subseteq Seq(Char)
    /\ \A pad \in Pad : Range(pad) \subseteq {" "}
    /\ \A str \in (Typed \cup Value) \ {<<>>} : str[1] # " " /\ str[Len(str)] # " "
    /\ \A name \in Typed : "=" \notin Range(name)
    /\ \A c \in DOMAIN Lower : Lower[c] \notin DOMAIN Lower

VARIABLES
    table,      \* the table calc
    asked,      \* history: what was meant by the last message
    said        \* the answer to it

calcVars == <<table, asked, said>>

Fold(str) == [i \in DOMAIN str |-> IF str[i] \in DOMAIN Lower THEN Lower[str[i]] ELSE str[i]]

-----------------------------------------------------------------------------
(* The texts.                                                              *)

Printed(str) == {i \in DOMAIN str : str[i] # " "}

TrimLeft(str) ==
    IF Printed(str) = {} THEN <<>> ELSE SubSeq(str, Min(Printed(str)), Len(str))

TrimRight(str) ==
    IF Printed(str) = {} THEN <<>> ELSE SubSeq(str, 1, Max(Printed(str)))

\* The text after "??".
Text(str) == TrimRight(TrimLeft(SubSeq(str, 3, Len(str))))

Equals(str) == SelectInSeq(str, LAMBDA c : c = "=")

NameOf(str) == TrimRight(SubSeq(str, 1, Equals(str) - 1))
ValueOf(str) == TrimLeft(SubSeq(str, Equals(str) + 1, Len(str)))

-----------------------------------------------------------------------------
(* The statements.                                                         *)

\* Mutant: the names are compared as they are.
SelectExactly(name) == {r \in table : r.name = name}

Select(name) == {r \in table : Fold(r.name) = Fold(name)}

Insert(name, value) == table' = table \cup {[name |-> name, value |-> value]}
Update(name, value) ==
    table' = (table \ Select(name)) \cup {[r EXCEPT !.value = value] : r \in Select(name)}
Delete(name) == table' = table \ Select(name)

-----------------------------------------------------------------------------
Reply(kind, value) == said' = [kind |-> kind, value |-> value]

Query(name) ==
    /\ IF Select(name) = {} THEN Reply("unknown", <<>>)
                            ELSE \E r \in Select(name) : Reply("is", r.value)
    /\ UNCHANGED table

Refused == Reply("refused", <<>>) /\ UNCHANGED table

\* A row that is there.
Modify(name, value, canUpdate) ==
    IF ~canUpdate THEN Reply("known", <<>>) /\ UNCHANGED table
    ELSE \/ Refused
         \/ value = <<>> /\ Delete(name) /\ Reply("unknown", <<>>)
         \/ value # <<>> /\ Update(name, value) /\ Reply("now", value)

Create(name, value) ==
    \/ Refused
    \/ /\ name # <<>> /\ value # <<>>
       /\ Insert(name, value) /\ Reply("now", value)

\* calc_message
Calculate(text, canUpdate) ==
    IF Contains(text, "=")
    THEN IF Select(NameOf(text)) = {}
         THEN Create(NameOf(text), ValueOf(text))
         ELSE Modify(NameOf(text), ValueOf(text), canUpdate)
    ELSE Query(text)

-----------------------------------------------------------------------------
(* The channel.                                                            *)

Meant(kind, name, value, admin) ==
    asked' = [kind |-> kind, name |-> Fold(name), value |-> value, admin |-> admin]

\* A question without a name is not answered.
AskFor(name, pad, admin) ==
    /\ name # <<>>
    /\ Meant("ask", name, <<>>, admin)
    /\ Calculate(Text(<<"?", "?">> \o pad \o name \o pad), admin)

Tell(name, value, left, right, admin) ==
    /\ Meant("tell", name, value, admin)
    /\ Calculate(Text(<<"?", "?">> \o right \o name \o left \o <<"=">> \o right \o value \o left),
                 admin)

CalcInit ==
    /\ table = {}
    /\ asked = [kind |-> "none", name |-> <<>>, value |-> <<>>, admin |-> FALSE]
    /\ said = [kind |-> "none", value |-> <<>>]

CalcNext ==
    \E name \in Typed, value \in Value, left, right \in Pad, admin \in BOOLEAN :
        \/ AskFor(name, left, admin)
        \/ Tell(name, value, left, right, admin)

CalcSpec == CalcInit /\ [][CalcNext]_calcVars

-----------------------------------------------------------------------------
EntryOf(name) ==
    IF Select(name) = {} THEN <<>> ELSE (CHOOSE r \in Select(name) : TRUE).value

G == INSTANCE Glossary WITH
    Name <- {Fold(n) : n \in Typed},
    Meaning <- Value,
    Empty <- <<>>,
    entries <- [n \in {Fold(t) : t \in Typed} |-> EntryOf(n)],
    request <- [kind |-> asked.kind, name |-> asked.name, meaning |-> asked.value,
                admin |-> asked.admin],
    reply <- [kind |-> said.kind, meaning |-> said.value]

\* However a name is typed, it is one entry: never two rows for it, no answer
\* but its last meaning, no change by who may not, and none half done.
ImplementsGlossary == G!Spec
=============================================================================
