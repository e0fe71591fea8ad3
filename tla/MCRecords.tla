------------------------------ MODULE MCRecords ------------------------------
(***************************************************************************)
(* Small instances of what the bot reads, writes down and tells: UsersDb   *)
(* with two users and a name that is not valid, a mask for everybody, one  *)
(* for one host and one that cannot be written, a mode with a global value *)
(* and one in a channel, and a configuration of the program that ends in a *)
(* comment or does not; IrcParser with a mode of each group; Seen with two *)
(* channels and two others; and Calc with a name that is typed in two      *)
(* ways.  They share no state: a behaviour is one of one part.             *)
(***************************************************************************)
EXTENDS Seen, Calc

MCUser == {<<"a">>, <<"b">>, <<"b", "=">>}
MCMask == {<<"*">>, <<"\"">>}
MCHost == {<<"x">>}
MCSection == {<<"#c">>}
MCFlag == {<<"o">>}
MCValue == {<<"1">>}
MCModes == <<<<"o">>, <<"v">>>>
MCLeft == {[state |-> state, rest |-> <<>>] : state \in {"whitespace", "comment"}}

\* A file written by hand, and one that stops with an error.
MCFiles == {
    <<"/", "/", " ", "x", "\n", "a", "{", "host", "=", "\"", "\"", "\"", "x", "\"", ";",
      "privileges", " ", "{", "o", " ", "=", "t", "r", "u", "e", " ", ";", "v", "=", "-", "1", ";",
      "}", "}",
      "b", "{", "privileges", "{",
      "#c", "{", "o", "=", "f", "a", "l", "s", "e", ";", "v", " ", "=", " ", "1", " ", ";",
      "}", "}", "}">>,
    <<"b", "{", "}", "a", "=", "!">>}

\* The modes of a server, and texts that hold what the parser looks for.
MCServer == [prefix |-> <<"o", "v">>, symbol |-> <<"@", "+">>, address |-> <<"b", "e">>,
             always |-> <<"k">>, set |-> <<"l">>, never |-> <<"m">>]
MCSpeech == {<<"a">>, <<"a", " ", " ", ":", "b">>, <<":", "a", " ">>}

MCTyped == {<<>>, <<"a">>, <<"A">>, <<"b", " ", "a">>}
MCMeaning == {<<>>, <<"x">>, <<"y", "=", " ", "Y">>}
MCPad == {<<>>, <<" ", " ">>}
MCLower == [A |-> "a"]

VARIABLES part, file, config, fsm, mode, given, astray, cut, commands, starts,
          tables, heard, meant

usersVars == <<file, config, fsm, mode, given, astray, cut, commands, starts>>
parserVars == <<tables, heard, meant>>

U == INSTANCE UsersDb WITH
    User <- MCUser, Mask <- MCMask, Host <- MCHost, Section <- MCSection, Flag <- MCFlag,
    Value <- MCValue, Modes <- MCModes, Files <- MCFiles, Left <- MCLeft,
    MaxCommands <- 2, MaxStarts <- 2,
    db <- config

P == INSTANCE IrcParser WITH
    Nickname <- "bot", Server <- MCServer, Param <- {"n", "w"}, Speech <- MCSpeech, MaxChanges <- 3

ASSUME UsersAreApart == U!UsersAssumption

\* Bound: one of the others at a time is on the channels, and one has a row.
Lonely ==
    /\ Cardinality({n \in Nick : n # me /\ Sighted(n) # {}}) <= 1
    /\ Cardinality({n \in Nick : db[n] # NoRow}) <= 1

\* The users plugin of the behaviours of another part.
NoUsers ==
    /\ file = <<>> /\ config = U!Parse(file, U!Fresh).tree /\ fsm = U!Fresh
    /\ mode = "unloaded" /\ given = U!Nothing
    /\ astray = FALSE /\ cut = <<>> /\ commands = 0 /\ starts = 0

MCInit ==
    /\ part \in {"users", "parser", "seen", "calc"}
    /\ IF part = "users" THEN U!Init ELSE NoUsers
    /\ P!Init /\ SeenInit /\ CalcInit

MCNext ==
    \/ part = "users" /\ U!Next /\ UNCHANGED <<part, parserVars, seenVars, calcVars>>
    \/ part = "parser" /\ P!Next /\ UNCHANGED <<part, usersVars, seenVars, calcVars>>
    \/ part = "seen" /\ SeenNext /\ Lonely' /\ UNCHANGED <<part, usersVars, parserVars, calcVars>>
    \/ part = "calc" /\ CalcNext /\ UNCHANGED <<part, usersVars, parserVars, seenVars>>

MCSpec == MCInit /\ [][MCNext]_<<part, usersVars, parserVars, seenVars, calcVars>>

\* What is loaded is what was saved: SavedIsLoaded of UsersDb.
SavedIsLoaded == U!SavedIsLoaded

\* A file that a crash has cut off does no harm: CutFileHarmless of UsersDb.
CutFileHarmless == U!CutFileHarmless

\* Who gets a mode has it from the database: GivenByUser of UsersDb.
GivenByUser == U!GivenByUser

\* Each line of the server is read as it was meant.
HeardAsMeant == P!HeardAsMeant
=============================================================================
