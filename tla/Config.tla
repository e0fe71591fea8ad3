-------------------------------- MODULE Config --------------------------------
(***************************************************************************)
(* The configuration of src/config: a tree of sections with values, what   *)
(* looks up, sets and removes in it, the text it is saved as, and the      *)
(* automaton that parses such a text.                                      *)
(*                                                                         *)
(* Names and values are sequences of symbols, a symbol being a character   *)
(* or a word whose spelling does not matter.  White space is two symbols,  *)
(* one of which ends a line, and with it a comment.  Floats are left out.  *)
(***************************************************************************)
EXTENDS Integers, Sequences, SequencesExt

-----------------------------------------------------------------------------
(* Sections.                                                               *)

NewSection(name) ==
    [name |-> name, changed |-> FALSE, values |-> <<>>, subs |-> <<>>]

\* The place of the first one of that name, 0 when there is none.
First(seq, name) == SelectInSeq(seq, LAMBDA e : e.name = name)

InsertValue(s, name, value) ==
    [s EXCEPT !.values = Append(@, [name |-> name, value |-> value, index |-> Len(@)])]

\* config_set_changed of a section s itself.
Changed(s) == [s EXCEPT !.changed = TRUE]

\* Mutant: a section does not pass it on that it has changed.
WithOnly(s, i, sub) == [s EXCEPT !.subs[i] = sub]

\* Section s with another i-th subsection; config_set_changed goes up from there
\* when the subsection has not been marked before.
With(s, i, sub) ==
    [s EXCEPT !.subs[i] = sub, !.changed = @ \/ (sub.changed /\ ~s.subs[i].changed)]

CreateSection(s, name) == Changed([s EXCEPT !.subs = Append(@, Changed(NewSection(name)))])

\* config_lookup with create, and config_set_int of the value.
RECURSIVE SetValue(_, _, _, _)
SetValue(s, path, name, value) ==
    LET v == First(s.values, name)
        t == IF First(s.subs, Head(path)) > 0 THEN s ELSE CreateSection(s, Head(path))
        i == First(t.subs, Head(path))
    IN  IF path # <<>> THEN With(t, i, SetValue(t.subs[i], Tail(path), name, value))
        ELSE IF v > 0 THEN Changed([s EXCEPT !.values[v].value = value])
        ELSE Changed(InsertValue(s, name, value))

\* config_remove_value: the other values keep the indices they had.
RemoveValue(s, index) ==
    IF index >= Len(s.values) THEN s
    ELSE Changed([s EXCEPT !.values = RemoveAt(@, index + 1)])

\* config_remove_subsection.
RemoveSection(s, i) == Changed([s EXCEPT !.subs = RemoveAt(@, i)])

\* config_remove: the value that is looked up says where it is.
RECURSIVE RemovePath(_, _, _)
RemovePath(s, path, name) ==
    LET v == First(s.values, name)
        i == First(s.subs, Head(path))
    IN  IF path = <<>> THEN IF v = 0 THEN s ELSE RemoveValue(s, s.values[v].index)
        ELSE IF i = 0 THEN s
        ELSE With(s, i, RemovePath(s.subs[i], Tail(path), name))

\* config_lookup without create: the values at that path, at most one.
RECURSIVE Lookup(_, _, _)
Lookup(s, path, name) ==
    LET v == First(s.values, name)
        i == First(s.subs, Head(path))
    IN  IF path = <<>> THEN IF v = 0 THEN {} ELSE {s.values[v].value}
        ELSE IF i = 0 THEN {}
        ELSE Lookup(s.subs[i], Tail(path), name)

-----------------------------------------------------------------------------
(* Files.                                                                  *)

Digit == {"0", "1", "-"}
Space == {" ", "\n"}
Special == Space \cup {"{", "}", "=", "\"", ";", "/", "!"}

\* config_identifierAllowed.
IsName(c) == c \notin Special

\* config_validate_section.
Valid(name) == name # <<>> /\ \A i \in DOMAIN name : IsName(name[i])

Quoted(value) ==
    IF value # <<>> /\ Range(value) \subseteq Digit THEN value ELSE <<"\"">> \o value \o <<"\"">>

\* config_save_section: a name or a value is written as it is, whatever it holds.
RECURSIVE Text(_)
Text(s) ==
    FlattenSeq([i \in DOMAIN s.values |->
        s.values[i].name \o <<" ", "=", " ">> \o Quoted(s.values[i].value) \o <<";", "\n">>])
    \o FlattenSeq([i \in DOMAIN s.subs |->
        s.subs[i].name \o <<" ", "{", "\n">> \o Text(s.subs[i]) \o <<"}", "\n">>])

\* The flags that config_save_section leaves.
RECURSIVE Saved(_)
Saved(s) ==
    [s EXCEPT !.changed = FALSE, !.subs = [i \in DOMAIN @ |-> Saved(@[i])]]

\* What a file can hold of a section.
RECURSIVE Content(_)
Content(s) ==
    [name |-> s.name,
     values |-> [i \in DOMAIN s.values |-> <<s.values[i].name, s.values[i].value>>],
     subs |-> [i \in DOMAIN s.subs |-> Content(s.subs[i])]]

\* A section that can be read back: every name is valid, and no value holds the
\* character that ends a string.
RECURSIVE Writable(_)
Writable(s) ==
    /\ \A i \in DOMAIN s.values :
           Valid(s.values[i].name) /\ "\"" \notin Range(s.values[i].value)
    /\ \A i \in DOMAIN s.subs : Valid(s.subs[i].name) /\ Writable(s.subs[i])

-----------------------------------------------------------------------------
(* config_parse: fsm is the static state of config_fsm, retval its text,   *)
(* name the name of the value that is to come, open the sections that have *)
(* begun, outermost first, and stopped an error.                           *)

Goto(p, state) == [p EXCEPT !.fsm = state]

Keep(p, state, c) == [p EXCEPT !.fsm = state, !.retval = Append(@, c)]

Word(p, rest) == [p EXCEPT !.fsm = "word", !.rest = rest]

BeginIdentifier(p) ==
    [p EXCEPT !.fsm = "value_whitespace", !.name = p.retval, !.retval = <<>>]

BeginSection(p) ==
    [p EXCEPT !.fsm = "whitespace", !.open = Append(@, NewSection(p.retval)), !.retval = <<>>]

\* The innermost section is done with; it comes last in the one around it.
Closed(open) ==
    LET n == Len(open)
    IN  [SubSeq(open, 1, n - 1) EXCEPT ![n - 1].subs = Append(@, open[n])]

\* Mutant: the section goes on to be the current one.
EndSectionStays(p) == [p EXCEPT !.fsm = "whitespace", !.retval = <<>>]

\* A section that ends where none has begun is only complained about.
EndSection(p) ==
    [p EXCEPT !.fsm = "whitespace", !.retval = <<>>,
              !.open = IF Len(@) > 1 THEN Closed(@) ELSE @]

Process(p, value) ==
    [p EXCEPT !.fsm = "whitespace", !.retval = <<>>, !.name = <<>>,
              !.open = [@ EXCEPT ![Len(@)] = InsertValue(@, p.name, value)]]

\* What is not a number is complained about, and stays in retval.
ProcessDigit(p) ==
    IF Last(p.retval) # "-" THEN Process(p, p.retval) ELSE Goto(p, "whitespace")

Stop(p) == [p EXCEPT !.stopped = TRUE, !.retval = <<>>]

\* Outside of values.
BetweenValues(p, c) ==
    CASE p.fsm = "whitespace" /\ IsName(c)   -> Keep(p, "identifier", c)
      [] p.fsm = "whitespace" /\ c = "}"     -> EndSection(p)
      [] p.fsm = "whitespace" /\ c = "/"     -> Goto(p, "comment_1")
      [] p.fsm \in {"whitespace", "after_identifier"} /\ c \in Space -> p
      [] p.fsm = "comment_1" /\ c = "/"      -> Goto(p, "comment")
      [] p.fsm = "comment" -> IF c = "\n" THEN Goto(p, "whitespace") ELSE p
      [] p.fsm = "identifier" /\ IsName(c)   -> Keep(p, "identifier", c)
      [] p.fsm = "identifier" /\ c \in Space -> Goto(p, "after_identifier")
      [] p.fsm \in {"identifier", "after_identifier"} /\ c = "=" -> BeginIdentifier(p)
      [] p.fsm \in {"identifier", "after_identifier"} /\ c = "{" -> BeginSection(p)
      [] OTHER -> Stop(p)

\* In a number or a string, or before a value.
InValue(p, c) ==
    CASE p.fsm \in {"value_whitespace", "digit_end", "string_whitespace"} /\ c \in Space -> p
      [] p.fsm = "value_whitespace" /\ c \in Digit -> Keep(p, "digit", c)
      [] p.fsm \in {"value_whitespace", "string_whitespace"} /\ c = "\"" -> Goto(p, "string")
      [] p.fsm = "value_whitespace" /\ c = "t"     -> Word(p, <<"r", "u", "e">>)
      [] p.fsm = "value_whitespace" /\ c = "f"     -> Word(p, <<"a", "l", "s", "e">>)
      [] p.fsm = "digit" /\ c \in Digit \ {"-"}    -> Keep(p, "digit", c)
      [] p.fsm = "digit" /\ c \in Space            -> Goto(p, "digit_end")
      [] p.fsm \in {"digit", "digit_end"} /\ c = ";" -> ProcessDigit(p)
      [] p.fsm = "string" /\ c = "\""              -> Goto(p, "string_whitespace")
      [] p.fsm = "string" /\ c # "\""              -> Keep(p, "string", c)
      [] p.fsm = "string_whitespace" /\ c = ";"    -> Process(p, p.retval)
      [] OTHER -> Stop(p)

\* In the word true or false; what follows it is complained about, and skipped.
InWord(p, c) ==
    IF p.rest # <<>>
    THEN IF c = Head(p.rest) THEN [Keep(p, "word", c) EXCEPT !.rest = Tail(@)] ELSE Stop(p)
    ELSE IF c = ";" THEN Process(p, IF p.retval = <<"r", "u", "e">> THEN <<"1">> ELSE <<"0">>)
    ELSE p

\* One character: config_fsm and the switch of config_parse over its result.
Transition(p, c) ==
    CASE p.fsm \in {"whitespace", "comment_1", "comment", "identifier", "after_identifier"} ->
            BetweenValues(p, c)
      [] p.fsm = "word" -> InWord(p, c)
      [] OTHER -> InValue(p, c)

\* The loop over the characters of the file, which an error ends.
RECURSIVE Run(_, _)
Run(p, text) ==
    IF p.stopped \/ text = <<>> THEN p ELSE Run(Transition(p, Head(text)), Tail(text))

\* What has been read until the end or an error is the result; that an error
\* makes it NULL is what config.h says, and not what is done.
Parse(text, fsm) ==
    LET p == Run([fsm |-> fsm.state, rest |-> fsm.rest, retval |-> <<>>, name |-> <<>>,
                  open |-> <<NewSection(<<>>)>>, stopped |-> FALSE],
                 text)
    IN  [tree |-> FoldLeft(LAMBDA open, s : IF Len(open) > 1 THEN Closed(open) ELSE open,
                           p.open, p.open)[1],
         fsm |-> [state |-> p.fsm, rest |-> p.rest]]

Fresh == [state |-> "whitespace", rest |-> <<>>]
=============================================================================
