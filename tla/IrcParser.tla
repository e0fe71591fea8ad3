------------------------------ MODULE IrcParser ------------------------------
(***************************************************************************)
(* How a line of the server is read: tokenizer.c, and of irc_parser.c the  *)
(* tables of the reply 005, the messages, the MODE lines and the names of  *)
(* the reply 353, up to the events they fire.  What the events change is   *)
(* in IrcStore and IrcSession.                                             *)
(*                                                                         *)
(* A string is a sequence of characters; a word that is only ever compared *)
(* as a whole ("MODE", a nickname) counts as one character.  The server is *)
(* modelled by what it has to say and the line it writes for it.           *)
(***************************************************************************)
EXTENDS Naturals, Sequences, SequencesExt, FiniteSets, FiniteSetsExt

CONSTANTS
    Nickname,   \* connection->nickname
    Server,     \* the modes of the server: prefix, symbol, and the four groups
    Param,      \* parameters of modes, which are nicknames too
    Speech,     \* texts of messages
    MaxChanges  \* bound: mode changes of one line

VARIABLES
    tables,     \* userPrefixes, userPrefixesSymbols and chanModes* of 005
    heard,      \* events that the last line fired
    meant       \* what the server meant by it

vars == <<tables, heard, meant>>

NULL == <<"NULL">>

-----------------------------------------------------------------------------
(* tokenizer.c and irclib_stripcolon.                                      *)

\* Of separators in a row, the first one ends a token and the others belong to
\* the next.
tokenizer_tokenize(str, sep) ==
    LET cuts == {i \in DOMAIN str : str[i] = sep /\ (i = 1 \/ str[i - 1] # sep)}
    IN  [original |-> str,
         cuts     |-> cuts,
         tokens   |-> SelectSeq([i \in 1..(Len(str) + 1) |-> i],
                                LAMBDA i : i = 1 \/ i - 1 \in cuts)]

tokenizer_gettok(tok, num) ==
    IF num >= Len(tok.tokens) THEN <<>>
    ELSE LET first == tok.tokens[num + 1]
             ends == {c \in tok.cuts : c >= first} \cup {Len(tok.original) + 1}
         IN  SubSeq(tok.original, first, Min(ends) - 1)

tokenizer_gettok_skipleft(tok, num) ==
    IF num >= Len(tok.tokens) THEN <<>>
    ELSE SubSeq(tok.original, tok.tokens[num + 1], Len(tok.original))

irclib_stripcolon(str) ==
    IF Contains(str, ":") THEN RemoveFirst(str, ":") ELSE str

-----------------------------------------------------------------------------
(* The tables of 005.                                                      *)

Nothing == [known |-> {}, prefixes |-> <<>>, symbols |-> <<>>,
            address |-> <<>>, always |-> <<>>, set |-> <<>>, never |-> <<>>]

\* PREFIX=(ov)@+
ReadPrefix(t, value) ==
    LET step(s, c) ==
          IF s.state = "BEGIN" THEN IF c = "(" THEN [s EXCEPT !.state = "MODES"] ELSE s
          ELSE IF s.state = "SYMBOLS" THEN [s EXCEPT !.symbols = Append(@, c)]
          ELSE IF c = ")" THEN [s EXCEPT !.state = "SYMBOLS"]
          ELSE [s EXCEPT !.modes = Append(@, c)]
        r == FoldLeft(step, [state |-> "BEGIN", modes |-> <<>>, symbols |-> <<>>], value)
    IN  [t EXCEPT !.known = @ \cup {"PREFIX"}, !.prefixes = r.modes, !.symbols = r.symbols]

\* CHANMODES=beI,k,l,imn: the groups are told apart by the commas before them.
ReadChanModes(t, value) ==
    LET step(s, c) == IF c = "," THEN [s EXCEPT !.state = @ + 1]
                      ELSE IF s.state > 4 THEN s
                      ELSE [s EXCEPT !.group[s.state] = Append(@, c)]
        r == FoldLeft(step, [state |-> 1, group |-> [i \in 1..4 |-> <<>>]], value)
    IN  [t EXCEPT !.known = @ \cup {"CHANMODES"},
                  !.address = r.group[1], !.always = r.group[2],
                  !.set = r.group[3], !.never = r.group[4]]

irclib_parse_isupport(t, tok) ==
    LET word(i) == tokenizer_gettok(tok, i)
        colon == {i \in 3..(Len(tok.tokens) - 1) : word(i) # <<>> /\ word(i)[1] = ":"}
        read == 3..(Min(colon \cup {Len(tok.tokens)}) - 1)
        step(s, w) ==
          IF ~Contains(w, "=") THEN s
          ELSE LET at == SelectInSeq(w, LAMBDA c : c = "=")
                   name == SubSeq(w, 1, at - 1)
                   value == SubSeq(w, at + 1, Len(w))
               IN  CASE name = <<"PREFIX">> -> ReadPrefix(s, value)
                     [] name = <<"CHANMODES">> -> ReadChanModes(s, value)
                     [] OTHER -> s
    IN  FoldLeft(step, t, [i \in 1..Cardinality(read) |-> word(2 + i)])

-----------------------------------------------------------------------------
(* The messages.                                                           *)

MessageEvent(nickname, tok) ==
    LET privmsg == tokenizer_gettok(tok, 1) = <<"PRIVMSG">>
        to == tokenizer_gettok(tok, 2)
        text == irclib_stripcolon(tokenizer_gettok_skipleft(tok, 3))
    IN  IF to = nickname
        THEN [event |-> IF privmsg THEN "onprivatemessage" ELSE "onprivatenotice",
              channel |-> NULL, message |-> text]
        ELSE [event |-> IF privmsg THEN "onchannelmessage" ELSE "onchannelnotice",
              channel |-> to, message |-> text]

\* The event of a mode, or "" for a character in none of the tables.
ModeEvent(t, c, set) ==
    IF Contains(t.prefixes, c)
    THEN CASE c = "o" -> IF set THEN "onop" ELSE "ondeop"
           [] c = "v" -> IF set THEN "onvoice" ELSE "ondevoice"
           [] c = "h" -> IF set THEN "onhalfop" ELSE "ondehalfop"
           [] OTHER -> "onchangeprefix"
    ELSE IF Contains(t.address, c)
    THEN IF c = "b" THEN IF set THEN "onban" ELSE "onunban" ELSE "onchangelist"
    ELSE IF Contains(t.always \o t.set \o t.never, c) THEN "onmode" ELSE ""

\* Mutant: a mode that takes a parameter when it is set takes one always.
TakesParameterAlways(t, c, set) ==
    Contains(t.prefixes \o t.address \o t.always \o t.set, c)

TakesParameter(t, c, set) ==
    \/ Contains(t.prefixes \o t.address \o t.always, c)
    \/ set /\ Contains(t.set, c)

\* One character of the modes of a MODE line.
ModeChar(t, tok, s, c) ==
    IF c \in {"+", "-"} THEN [s EXCEPT !.setMode = (c = "+")]
    ELSE IF ModeEvent(t, c, s.setMode) = "" THEN s
    ELSE LET takes == TakesParameter(t, c, s.setMode)
         IN  [s EXCEPT !.tokPos = IF takes THEN @ + 1 ELSE @,
                       !.events = Append(@,
                          [event   |-> ModeEvent(t, c, s.setMode),
                           name    |-> c,
                           set     |-> s.setMode,
                           channel |-> tokenizer_gettok(tok, 2),
                           target  |-> IF takes THEN tokenizer_gettok(tok, s.tokPos)
                                                ELSE NULL])]

ModeEvents(t, tok) ==
    FoldLeft(LAMBDA s, c : ModeChar(t, tok, s, c),
             [setMode |-> TRUE, tokPos |-> 4, events |-> <<>>],
             tokenizer_gettok(tok, 3)).events

-----------------------------------------------------------------------------
(* The names of 353.                                                       *)

\* " " when the symbol, or the mode, is not one of the server's.
irclib_sym2prefix(t, sym) ==
    IF Contains(t.symbols, sym) THEN t.prefixes[SelectInSeq(t.symbols, LAMBDA c : c = sym)]
                                ELSE " "

irclib_nickHasPrefix(t, nick) == nick # <<>> /\ irclib_sym2prefix(t, nick[1]) # " "

\* The symbol that irclib_parse takes off, and the one that
\* irclib_add_channel_user finds after it.
NameEvent(t, word) ==
    LET user == IF word # <<>> /\ Contains(t.symbols, word[1]) THEN Tail(word) ELSE word
        nick == IF irclib_nickHasPrefix(t, user) THEN Tail(user) ELSE user
    IN  [event |-> "353", nick |-> nick]

NameEvents(t, tok) ==
    LET users == tokenizer_tokenize(
                   irclib_stripcolon(tokenizer_gettok_skipleft(tok, 5)), " ")
    IN  [i \in DOMAIN users.tokens |-> NameEvent(t, tokenizer_gettok(users, i - 1))]

\* The events that a line fires.
Events(t, line) ==
    LET tok == tokenizer_tokenize(line, " ")
        second == tokenizer_gettok(tok, 1)
    IN  CASE second = <<"353">> -> NameEvents(t, tok)
          [] second \in {<<"PRIVMSG">>, <<"NOTICE">>} -> <<MessageEvent(<<Nickname>>, tok)>>
          [] second = <<"MODE">> -> ModeEvents(t, tok)
          [] OTHER -> <<>>

-----------------------------------------------------------------------------
(* The server: what it has to say, how it writes it and what it means.     *)

TheChannel == "#c"

Groups == {"prefix", "address", "always", "set", "never"}

InGroup(g, c) == Contains(Server[g], c)

Carries(c, set) == ~InGroup("never", c) /\ (InGroup("set", c) => set)

Change == {[name |-> c, set |-> s, arg |-> w] :
             c \in UNION {Range(Server[g]) : g \in Groups}, s \in BOOLEAN, w \in Param}

Saying == [kind : {"PRIVMSG", "NOTICE"}, to : {Nickname, TheChannel}, text : Speech]
          \cup [kind : {"MODE"}, changes : SeqOf(Change, MaxChanges) \ {<<>>}]
          \cup [kind : {"353"},
                names : SeqOf([symbols : SubSeqs(Server.symbol), nick : Param], 2) \ {<<>>}]

Words(seq) == FoldLeft(LAMBDA a, w : a \o <<" ">> \o w, <<>>, seq)

\* A sign is written where it changes.
Signs(changes) ==
    [i \in DOMAIN changes |->
        LET sign == IF changes[i].set THEN <<"+">> ELSE <<"-">>
        IN  IF i > 1 /\ changes[i - 1].set = changes[i].set
            THEN <<changes[i].name>> ELSE sign \o <<changes[i].name>>]

Carried(changes) ==
    [i \in DOMAIN changes |-> IF Carries(changes[i].name, changes[i].set)
                              THEN <<" ", changes[i].arg>> ELSE <<>>]

Wording(m) ==
    CASE m.kind \in {"PRIVMSG", "NOTICE"} ->
           <<":", "x", " ", m.kind, " ", m.to, " ", ":">> \o m.text
      [] m.kind = "MODE" ->
           <<":", "x", " ", "MODE", " ", TheChannel, " ">>
           \o FlattenSeq(Signs(m.changes)) \o FlattenSeq(Carried(m.changes))
      [] m.kind = "353" ->
           <<":", "x", " ", "353", " ", Nickname, " ", "=", " ", TheChannel, " ", ":">>
           \o Tail(Words([i \in DOMAIN m.names |-> Append(m.names[i].symbols, m.names[i].nick)]))

MeantByChange(ch) ==
    [event   |-> LET says == [o |-> <<"onop", "ondeop">>, v |-> <<"onvoice", "ondevoice">>,
                              b |-> <<"onban", "onunban">>]
                 IN  IF ch.name \in DOMAIN says THEN says[ch.name][IF ch.set THEN 1 ELSE 2]
                     ELSE IF InGroup("prefix", ch.name) THEN "onchangeprefix"
                     ELSE IF InGroup("address", ch.name) THEN "onchangelist" ELSE "onmode",
     name    |-> ch.name,
     set     |-> ch.set,
     channel |-> <<TheChannel>>,
     target  |-> IF Carries(ch.name, ch.set) THEN <<ch.arg>> ELSE NULL]

Meaning(m) ==
    CASE m.kind = "MODE" -> [i \in DOMAIN m.changes |-> MeantByChange(m.changes[i])]
      [] m.kind = "353" -> [i \in DOMAIN m.names |-> [event |-> "353", nick |-> <<m.names[i].nick>>]]
      [] OTHER ->
           <<[event   |-> CASE m.kind = "PRIVMSG" /\ m.to = Nickname -> "onprivatemessage"
                            [] m.kind = "PRIVMSG" /\ m.to = TheChannel -> "onchannelmessage"
                            [] m.kind = "NOTICE" /\ m.to = Nickname -> "onprivatenotice"
                            [] m.kind = "NOTICE" /\ m.to = TheChannel -> "onchannelnotice",
              channel |-> IF m.to = Nickname THEN NULL ELSE <<m.to>>,
              message |-> m.text]>>

\* The two tables that matter, in one line or in two, and others beside them.
SupportLine(known) ==
    <<":", "x", " ", "005", " ", Nickname, " ", "NICKLEN", "=", "9">>
    \o (IF "PREFIX" \in known
        THEN <<" ", "PREFIX", "=", "(">> \o Server.prefix \o <<")">> \o Server.symbol ELSE <<>>)
    \o (IF "CHANMODES" \in known
        THEN <<" ", "CHANMODES", "=">> \o Server.address \o <<",">> \o Server.always
             \o <<",">> \o Server.set \o <<",">> \o Server.never ELSE <<>>)
    \o <<" ", ":", "are", " ", "PREFIX", "=", "x">>

-----------------------------------------------------------------------------
Init == tables = Nothing /\ heard = <<>> /\ meant = <<>>

Quiet == meant = <<>>

Isupport(known) ==
    /\ Quiet /\ known # {} /\ tables.known \cap known = {}
    /\ tables' = irclib_parse_isupport(tables, tokenizer_tokenize(SupportLine(known), " "))
    /\ UNCHANGED <<heard, meant>>

\* Modes and names are of a channel, which the bot joins after 005; before it
\* the tables are NULL, and the strchr of a MODE line reads them.
Hear(m) ==
    /\ m.kind \in {"MODE", "353"} => tables.known = {"PREFIX", "CHANMODES"}
    /\ heard' = Events(tables, Wording(m))
    /\ meant' = Meaning(m)
    /\ UNCHANGED tables

\* irclib_shutdown: the tables go with the connection.
Shutdown ==
    /\ Quiet /\ tables # Nothing
    /\ tables' = Nothing
    /\ UNCHANGED <<heard, meant>>

\* _irclib_parse_end
ParseEnd ==
    /\ ~Quiet
    /\ heard' = <<>> /\ meant' = <<>>
    /\ UNCHANGED tables

Next ==
    \/ \E known \in SUBSET {"PREFIX", "CHANMODES"} : Isupport(known)
    \/ Quiet /\ \E m \in Saying : Hear(m)
    \/ Shutdown \/ ParseEnd

Spec == Init /\ [][Next]_vars

-----------------------------------------------------------------------------
\* Every line is read as it was meant: each mode change with its sign and its
\* own parameter, whatever stands before it in the line; each message with its
\* text and for the one it was sent to; each name without its symbols.
HeardAsMeant == heard = meant
=============================================================================
