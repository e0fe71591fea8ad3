---------------------------- MODULE TelnetTerminal ----------------------------
(***************************************************************************)
(* From the bytes of a telnet client to its line and back to its screen:   *)
(* the automaton of telnet_socket_client_receive, the line editor of       *)
(* telnet_receiveWithEcho over a dynastring, and the terminal that shows   *)
(* what the two of them send.                                              *)
(*                                                                         *)
(* The handler reads what has arrived up to an Enter.  The state of the    *)
(* negotiation outlives a burst, that of an escape sequence does not: it   *)
(* ends with the burst, whether its code has come or not, and not before.  *)
(***************************************************************************)
EXTENDS Integers, Sequences, SequencesExt

CONSTANTS
    Letter,     \* the codes of the characters that are typed
    Size,       \* widths and heights of the client's window, from 1 to 239
    MaxTyped,   \* bound: keys and answers of a client
    MaxWire     \* bound: bytes on their way

ASSUME TerminalAssumption ==
    /\ Letter \subseteq 32..126 /\ Size \subseteq 1..239
    /\ MaxTyped \in Nat /\ MaxWire \in Nat

VARIABLES
    wire,       \* bytes on their way to the bot
    driver,     \* state of the automaton, and what it has learnt of the window
    edit,       \* recvbuffer: the line and the position in it; commands so far
    screen,     \* the row after the prompt and the cursor in it
    echo,       \* TC_ECHO
    meant,      \* the line as its typist sees it, the commands and the window
    typed,      \* keys and answers so far
    misread     \* history: an arrow key has been cut, or followed by another key, in a burst

terminalVars == <<wire, driver, edit, screen, echo, meant, typed, misread>>

-----------------------------------------------------------------------------
(* Bytes.                                                                  *)

NUL == 0
CR == 13
ESC == 27
BRACKET == 91
DEL == 127
Right == 67
Left == 68
ECHO == 1
TERMTYPE == 24
NAWS == 31
SE == 240
SB == 250
WILL == 251
WONT == 252
DO == 253
DONT == 254
IAC == 255

Arrow(code) == <<ESC, BRACKET, code>>

\* What a client sends: keys, and the size of its window.
Window(w, h) == <<IAC, SB, NAWS, NUL, w, NUL, h, IAC, SE>>
Keys == {<<ch>> : ch \in Letter} \cup {<<CR, NUL>>, <<DEL>>, Arrow(Left), Arrow(Right)}

-----------------------------------------------------------------------------
(* The line and the screen.                                                *)

\* dynastring_appendchar.
InsertChar(e, ch) ==
    [e EXCEPT !.line = InsertAt(@, e.pos + 1, ch), !.pos = @ + 1]

\* dynastring_delete of one character to the left.
DeleteChar(e) ==
    IF e.pos = 0 THEN e ELSE [e EXCEPT !.line = RemoveAt(@, e.pos), !.pos = @ - 1]

\* dynastring_seek by one character.
Seek(e, offset) == IF e.pos + offset \in 0..Len(e.line) THEN [e EXCEPT !.pos = @ + offset] ELSE e

\* A terminal prints a character over what is there, and 8 moves it back.
Show(s, ch) ==
    IF ch = 8 THEN [s EXCEPT !.cursor = IF @ = 0 THEN 0 ELSE @ - 1]
    ELSE [row |-> IF s.cursor < Len(s.row) THEN [s.row EXCEPT ![s.cursor + 1] = ch]
                  ELSE Append(s.row, ch),
          cursor |-> s.cursor + 1]

ShowAll(s, bytes) == FoldLeft(Show, s, bytes)

Blank == [row |-> <<>>, cursor |-> 0]

Times(n, ch) == [i \in 1..n |-> ch]
Back(n) == Times(n, 8)

\* The part of the line from its position on.
Rest(e) == SubSeq(e.line, e.pos + 1, Len(e.line))

\* Mutant: the rest of the line is written, and the cursor stays behind it.
EchoInsertStays(e, ch) == <<ch>> \o Rest(e)

\* What is sent for a character that went into the line.
EchoInsert(e, ch) == <<ch>> \o Rest(e) \o Back(Len(e.line) - e.pos)

\* What is sent for a character that has gone.
EchoDelete(e) == <<8>> \o Rest(e) \o <<32>> \o Back(Len(e.line) - e.pos + 1)

-----------------------------------------------------------------------------
(* The service: a record t of driver, edit, screen and echo.               *)

\* telnet_process_command: the line is done with and a prompt is shown.
Command(t) ==
    [t EXCEPT !.edit = [line |-> <<>>, pos |-> 0, commands |-> Append(@.commands, @.line)],
              !.screen = Blank]

\* telnet_receiveWithEcho.
Character(t, ch) ==
    LET e == InsertChar(t.edit, ch)
    IN  [t EXCEPT !.edit = e,
                  !.screen = IF t.echo THEN ShowAll(@, EchoInsert(e, ch)) ELSE @]

Move(t, offset) ==
    LET e == Seek(t.edit, offset)
        sent == IF e.pos < t.edit.pos THEN Back(1)
                ELSE SubSeq(e.line, t.edit.pos + 1, e.pos)
    IN  [t EXCEPT !.edit = e, !.screen = ShowAll(@, sent)]

Backspace(t) ==
    LET e == DeleteChar(t.edit)
    IN  IF e = t.edit THEN t
        ELSE [t EXCEPT !.edit = e, !.screen = ShowAll(@, EchoDelete(e))]

\* telnet_received of a key that came as one byte.
Key(t, ch) ==
    CASE ch = CR -> Command(t)
      [] ch = DEL -> Backspace(t)
      [] ch \in 32..255 \ {DEL} -> Character(t, ch)
      [] OTHER -> t

-----------------------------------------------------------------------------
(* The driver.                                                             *)

Goto(t, state) == [t EXCEPT !.driver.state = state]

\* The end of an escape sequence, by its code.
Escape(t, code) ==
    CASE code = Right -> Move(t, 1)
      [] code = Left -> Move(t, -1)
      [] OTHER -> t

\* A byte inside an escape sequence; esc is the state of the sequence, and code
\* the last code, which stays and is obeyed again.
InEscape(t, ch) ==
    CASE t.esc = "code" /\ ch = BRACKET -> [t EXCEPT !.esc = "param1"]
      [] t.esc = "code" /\ ch # BRACKET -> Key(Goto(t, "normal"), ch)
      [] t.esc = "param1" /\ ch \in 48..57 -> Escape(t, t.code)
      [] t.esc = "param1" /\ ch = 59 -> Escape([t EXCEPT !.esc = "param2"], t.code)
      [] t.esc = "param2" /\ ch \in 48..57 -> Escape(t, t.code)
      [] OTHER -> Escape([t EXCEPT !.code = ch], ch)

\* A byte inside a command of the telnet protocol.
Verb == [ch \in {SB, WILL, WONT, DO, DONT} |->
            CASE ch = SB -> "sb" [] ch = WILL -> "will" [] ch = WONT -> "wont"
              [] ch = DO -> "do" [] ch = DONT -> "dont"]

\* Mutant: the client's consent is noted, and the automaton stays where it is.
DoOptionStays(t, ch) == [t EXCEPT !.echo = @ \/ ch = ECHO]

DoOption(t, ch) == Goto([t EXCEPT !.echo = @ \/ ch = ECHO], "normal")

Negotiation(t, ch) ==
    LET state == t.driver.state
    IN  CASE state = "iac" -> IF ch \in DOMAIN Verb THEN Goto(t, Verb[ch]) ELSE t
          [] state = "do" -> DoOption(t, ch)
          [] state \in {"dont", "will", "wont"} -> Goto(t, "normal")
          [] state = "sb" -> IF ch # NAWS THEN Goto(t, "till_se")
                             ELSE [t EXCEPT !.driver = [state |-> "width", width |-> 0, height |-> 0]]
          [] state = "width" -> [t EXCEPT !.driver.width = @ + ch, !.driver.state = "height"]
          [] state = "height" -> [t EXCEPT !.driver.height = @ + ch, !.driver.state = "till_se"]
          [] state = "till_se" -> IF ch = SE THEN Goto(t, "normal") ELSE t

\* The body of the loop that reads.
Byte(t, ch) ==
    CASE ch = NUL -> t
      [] ch # NUL /\ t.driver.state = "normal" ->
            IF ch = IAC THEN Goto(t, "iac")
            ELSE IF ch = ESC THEN [Goto(t, "esc") EXCEPT !.esc = "code", !.code = 0]
            ELSE Key(t, ch)
      [] ch # NUL /\ t.driver.state = "esc" -> InEscape(t, ch)
      [] OTHER -> Negotiation(t, ch)

\* After the loop an escape sequence that is under way is given up.
BurstEnds(t) == IF t.driver.state = "esc" THEN Goto(t, "normal") ELSE t

\* telnet_socket_client_receive when these bytes can be read; more is left for
\* the next time when there is an Enter among them.
Burst(bytes) ==
    BurstEnds(FoldLeft(Byte, [driver |-> driver, edit |-> edit, screen |-> screen, echo |-> echo,
                              esc |-> "code", code |-> 0], bytes))

-----------------------------------------------------------------------------

\* The client has consented to our echo before anything is typed.
TerminalInit ==
    /\ wire = <<IAC, DO, ECHO>>
    /\ driver = [state |-> "normal", width |-> 0, height |-> 0]
    /\ edit = [line |-> <<>>, pos |-> 0, commands |-> <<>>]
    /\ screen = Blank
    /\ echo = FALSE
    /\ meant = [line |-> <<>>, pos |-> 0, commands |-> <<>>, width |-> 0, height |-> 0]
    /\ typed = 0 /\ misread = FALSE

\* The line as any editor would have it after a key.
Meant(m, key) ==
    CASE key \in {<<ch>> : ch \in Letter} ->
            [m EXCEPT !.line = SubSeq(@, 1, m.pos) \o key \o SubSeq(@, m.pos + 1, Len(@)),
                      !.pos = @ + 1]
      [] key = <<CR, NUL>> ->
            [m EXCEPT !.commands = Append(@, m.line), !.line = <<>>, !.pos = 0]
      [] key = <<DEL>> /\ m.pos > 0 ->
            [m EXCEPT !.line = SubSeq(@, 1, m.pos - 1) \o SubSeq(@, m.pos + 1, Len(@)),
                      !.pos = @ - 1]
      [] key = Arrow(Left) /\ m.pos > 0 -> [m EXCEPT !.pos = @ - 1]
      [] key = Arrow(Right) /\ m.pos < Len(m.line) -> [m EXCEPT !.pos = @ + 1]
      [] OTHER -> m

Sent(bytes) ==
    /\ typed < MaxTyped /\ typed' = typed + 1
    /\ Len(wire \o bytes) <= MaxWire
    /\ wire' = wire \o bytes

Type(key) ==
    /\ Sent(key)
    /\ meant' = Meant(meant, key)
    /\ UNCHANGED <<driver, edit, screen, echo, misread>>

Answer(w, h) ==
    /\ Sent(Window(w, h))
    /\ meant' = [meant EXCEPT !.width = w, !.height = h]
    /\ UNCHANGED <<driver, edit, screen, echo, misread>>

AnswerOption ==
    /\ \E option \in {NAWS, TERMTYPE} : Sent(<<IAC, WILL, option>>)
    /\ UNCHANGED <<driver, edit, screen, echo, meant, misread>>

\* In the first n bytes an arrow key has all of its bytes, and nothing comes
\* behind it but another one.  What else comes there is taken for a part of the
\* sequence, and what is left of a key that is cut is taken for characters.
Whole(n) == \A i \in 1..n : wire[i] = ESC => i + 2 <= n /\ (i + 2 < n => wire[i + 3] = ESC)

\* The first n bytes are there, and none before the last is read as an Enter.
ReceiveBytes(n) ==
    /\ Burst(SubSeq(wire, 1, n - 1)).edit.commands = edit.commands
    /\ LET t == Burst(SubSeq(wire, 1, n))
       IN  /\ driver' = t.driver /\ edit' = t.edit /\ screen' = t.screen /\ echo' = t.echo
    /\ wire' = SubSeq(wire, n + 1, Len(wire))
    /\ misread' = (misread \/ ~Whole(n))
    /\ UNCHANGED <<meant, typed>>

TerminalNext ==
    \/ \E key \in Keys : Type(key)
    \/ \E w, h \in Size : Answer(w, h)
    \/ AnswerOption
    \/ \E n \in 1..Len(wire) : ReceiveBytes(n)

TerminalSpec == TerminalInit /\ [][TerminalNext]_terminalVars

-----------------------------------------------------------------------------
(* Properties.                                                             *)

\* When all that was sent has been received, the line, the position in it, the
\* commands and the size of the window are what the typist has meant, however
\* the bytes were cut into bursts and mixed with answers to the handshake
\* (a zero byte skipped, or a state of the negotiation left behind, at
\* driver:281-600) - unless a burst has ended inside an arrow key or gone on
\* behind one with something else, which the code misreads (driver:367-399).
Understood ==
    wire = <<>> /\ ~misread =>
        /\ <<edit.line, edit.pos, edit.commands>> = <<meant.line, meant.pos, meant.commands>>
        /\ <<driver.width, driver.height>> = <<meant.width, meant.height>>

\* What the terminal shows after the prompt is the line and nothing but blanks
\* behind it, with the cursor at the position where the next character goes,
\* after any burst, misread or not (the counts of characters and moves at
\* telnet:427-486).
ScreenShowsLine ==
    /\ screen.cursor = edit.pos
    /\ SubSeq(screen.row, 1, Len(edit.line)) = edit.line
    /\ \A i \in Len(edit.line) + 1..Len(screen.row) : screen.row[i] = 32
=============================================================================
