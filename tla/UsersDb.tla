-------------------------------- MODULE UsersDb --------------------------------
(***************************************************************************)
(* The database of the users plugin: the commands of users_telnet_admin.c  *)
(* and the save behind each of them, the mode given on a join, restarts,   *)
(* and a save that is cut off.                                             *)
(***************************************************************************)
EXTENDS Config

CONSTANTS
    User,       \* names of users that an administrator types, valid or not
    Mask,       \* host masks
    Host,       \* hosts that join
    Section,    \* sections of privileges: channels
    Flag,       \* names of privileges that an administrator types
    Value,      \* their values
    Modes,      \* the modes of the server that are given on a join, in order
    Files,      \* files the database may be at first
    Left,       \* what the configuration of the program leaves of config_fsm
    MaxCommands,    \* bound: commands
    MaxStarts   \* bound: starts of the program

\* What is assumed of the constants; of an invalid section or flag, the command
\* says so and does nothing (Look).
UsersAssumption ==
    /\ Fresh \in Left
    /\ \A name \in Section \cup Flag : Valid(name)
    /\ MaxCommands \in Nat /\ MaxStarts \in Nat

VARIABLES
    db,         \* usersdb
    file,       \* the text on the disk
    fsm,        \* the static state of config_fsm
    mode,       \* the program is running or not
    given,      \* the mode given on the join that came last
    astray,     \* history: db was changed without a mark, or misread, since the last save
    cut,        \* history: the database being saved when the program died, until the next command
    commands,   \* commands handled
    starts      \* starts of the program

vars == <<db, file, fsm, mode, given, astray, cut, commands, starts>>

Nothing == [given |-> FALSE]

Privileges == <<"privileges">>

HostName == <<"host">>

-----------------------------------------------------------------------------
(* Reading the database.                                                   *)

\* wildmatch.
RECURSIVE WildMatch(_, _)
WildMatch(mask, str) ==
    \/ mask = <<>> /\ str = <<>>
    \/ mask # <<>> /\ Head(mask) = "*" /\ WildMatch(Tail(mask), str)
    \/ mask # <<>> /\ Head(mask) = "*" /\ str # <<>> /\ WildMatch(mask, Tail(str))
    \/ mask # <<>> /\ str # <<>> /\ Head(mask) \in {"?", Head(str)}
       /\ WildMatch(Tail(mask), Tail(str))

\* users_match_user_host.
MatchesUser(user, host) ==
    \E i \in DOMAIN user.values :
        user.values[i].name = HostName /\ WildMatch(user.values[i].value, host)

\* users_match_host.
MatchHost(host) == SelectSeq(db.subs, LAMBDA user : MatchesUser(user, host))

\* Mutant: what is global comes before the section.
SayGlobalFirst(user, section, flag) ==
    IF Lookup(user, <<Privileges>>, flag) # {} THEN Lookup(user, <<Privileges>>, flag)
    ELSE Lookup(user, <<Privileges, section>>, flag)

\* What a user of the list says of a privilege, in one iteration of the loop of
\* users_get_priv: the section comes before what is global.
Say(user, section, flag) ==
    IF Lookup(user, <<Privileges, section>>, flag) # {}
    THEN Lookup(user, <<Privileges, section>>, flag)
    ELSE Lookup(user, <<Privileges>>, flag)

Number(value) == IF value = <<"1">> THEN 1 ELSE IF value = <<"-", "1">> THEN -1 ELSE 0

\* users_get_priv.
GetPriv(users, section, flag) ==
    FoldLeft(LAMBDA n, user : IF Say(user, section, flag) = {} THEN n
                              ELSE Number(CHOOSE v \in Say(user, section, flag) : TRUE),
             0, users)

-----------------------------------------------------------------------------
(* Changing it.                                                            *)

AtUser(i, user) == With(db, i, user)

AddUser(name) ==
    IF First(db.subs, name) > 0 \/ ~Valid(name) THEN db ELSE CreateSection(db, name)

DelUser(name) == IF First(db.subs, name) = 0 THEN db ELSE RemoveSection(db, First(db.subs, name))

\* users ren: nothing is said of the change, and the new name is not validated:
\* the old one is, twice.
RenUser(name, new) ==
    LET i == First(db.subs, name)
    IN  IF i = 0 \/ ~Valid(name) THEN db ELSE [db EXCEPT !.subs[i].name = new]

Swap(i, j) == [db EXCEPT !.subs[i] = db.subs[j], !.subs[j] = db.subs[i]]

UpUser(name) == LET i == First(db.subs, name) IN IF i > 1 THEN Swap(i, i - 1) ELSE db

DownUser(name) ==
    LET i == First(db.subs, name) IN IF i \in 1..Len(db.subs) - 1 THEN Swap(i, i + 1) ELSE db

\* The place of a host among the values of a user, 0 when it is not there.
HostAt(user, mask) == SelectInSeq(user.values, LAMBDA v : v.name = HostName /\ v.value = mask)

AddHost(name, mask) ==
    LET i == First(db.subs, name)
    IN  IF i = 0 \/ ~Valid(name) \/ HostAt(db.subs[i], mask) > 0 THEN db
        ELSE AtUser(i, Changed(InsertValue(db.subs[i], HostName, mask)))

DelHost(name, mask) ==
    LET i == First(db.subs, name)
    IN  IF i = 0 \/ HostAt(db.subs[i], mask) = 0 THEN db
        ELSE AtUser(i, RemoveValue(db.subs[i], HostAt(db.subs[i], mask) - 1))

\* The path of a privilege, of a section or global.
Path(section) == IF section = <<>> THEN <<Privileges>> ELSE <<Privileges, section>>

SetFlag(name, section, flag, value) ==
    LET i == First(db.subs, name)
    IN  IF i = 0 \/ ~Valid(name) THEN db
        ELSE AtUser(i, SetValue(db.subs[i], Path(section), flag, value))

DelFlag(name, section, flag) ==
    LET i == First(db.subs, name)
    IN  IF i = 0 \/ ~Valid(name) THEN db
        ELSE AtUser(i, RemovePath(db.subs[i], Path(section), flag))

-----------------------------------------------------------------------------

\* config_parse of the file, at the start of the plugin.
Load(from) ==
    LET loaded == Parse(file, from)
    IN  db' = loaded.tree /\ fsm' = loaded.fsm /\ astray' = (from # Fresh)

\* The program has parsed its own configuration before, with the same automaton.
Init ==
    /\ file \in Files
    /\ \E from \in Left :
           /\ db = Parse(file, from).tree /\ fsm = Parse(file, from).fsm
           /\ astray = (from # Fresh)
    /\ mode = "running" /\ given = Nothing /\ cut = <<>>
    /\ commands = 0 /\ starts = 1

\* The end of every command: a database that is marked is saved, if its file can
\* be opened; the program may die before all of it is on the disk.
Handled(new, silent) ==
    /\ mode = "running" /\ commands < MaxCommands
    /\ commands' = commands + 1 /\ given' = Nothing
    /\ UNCHANGED <<fsm, starts>>
    /\ \/ /\ db' = new /\ astray' = (astray \/ silent) /\ cut' = <<>>
          /\ UNCHANGED <<file, mode>>
       \/ /\ new.changed
          /\ db' = Saved(new) /\ file' = Text(new) /\ astray' = FALSE /\ cut' = <<>>
          /\ UNCHANGED mode
       \/ /\ new.changed /\ starts < MaxStarts
          /\ LET text == Text(new)
             IN  \E n \in 0..Len(text) - 1 : file' = SubSeq(text, 1, n)
          /\ mode' = "down" /\ cut' = <<new>>
          /\ UNCHANGED <<db, astray>>

\* A command that leaves the database as it is: list, info, or a name that the
\* other commands do not accept.
Look == Handled(db, FALSE)

Add(name) == Handled(AddUser(name), FALSE)

Del(name) == Handled(DelUser(name), FALSE)

AddHostTo(name, mask) == Handled(AddHost(name, mask), FALSE)

DelHostOf(name, mask) == Handled(DelHost(name, mask), FALSE)

FlagOf(name, section, flag, value) == Handled(SetFlag(name, section, flag, value), FALSE)

DelFlagOf(name, section, flag) == Handled(DelFlag(name, section, flag), FALSE)

\* ren, up and down do not mark the change.
Ren(name, new) == RenUser(name, new) # db /\ Handled(RenUser(name, new), TRUE)

Up(name) == UpUser(name) # db /\ Handled(UpUser(name), TRUE)

Down(name) == DownUser(name) # db /\ Handled(DownUser(name), TRUE)

Die ==
    /\ mode = "running" /\ starts < MaxStarts
    /\ mode' = "down" /\ given' = Nothing
    /\ UNCHANGED <<db, file, fsm, astray, cut, commands, starts>>

\* The message of a move down has a %s and no argument for it: the program may die.
DownDies(name) == DownUser(name) # db /\ Die

\* flag and delflag with a wrong number of words go on with no user's name.
FlagDies == Die

\* users_ircjoin: the first mode for which the privilege is there.
Join(host, section) ==
    /\ mode = "running"
    /\ LET users == MatchHost(host)
           p == SelectInSeq(Modes, LAMBDA flag : GetPriv(users, section, flag) > 0)
       IN  given' = IF p = 0 THEN Nothing
                    ELSE [given |-> TRUE, host |-> host, section |-> section, flag |-> Modes[p]]
    /\ UNCHANGED <<db, file, fsm, mode, astray, cut, commands, starts>>

\* The program starts anew, after a crash or when it was told to quit; the
\* plugin does not save what it has.
Restart ==
    /\ starts < MaxStarts /\ starts' = starts + 1
    /\ \E from \in Left : Load(from)
    /\ mode' = "running" /\ given' = Nothing
    /\ UNCHANGED <<file, cut, commands>>

\* The plugin is unloaded and loaded, and the parser is not.
Reload ==
    /\ mode = "running" /\ starts < MaxStarts /\ starts' = starts + 1
    /\ Load(fsm)
    /\ given' = Nothing /\ cut' = <<>>
    /\ UNCHANGED <<file, mode, commands>>

Next ==
    \/ \E u \in User : Add(u) \/ Del(u) \/ Up(u) \/ Down(u) \/ DownDies(u)
    \/ \E u, v \in User : Ren(u, v)
    \/ \E u \in User, m \in Mask : AddHostTo(u, m) \/ DelHostOf(u, m)
    \/ \E u \in User, s \in Section \cup {<<>>}, f \in Flag :
           DelFlagOf(u, s, f) \/ \E v \in Value : FlagOf(u, s, f, v)
    \/ \E h \in Host, s \in Section : Join(h, s)
    \/ Look \/ FlagDies \/ Restart \/ Reload

Spec == Init /\ [][Next]_vars

-----------------------------------------------------------------------------
(* Properties.                                                             *)

\* What has been saved is what the next start loads: the file and a database that
\* needs no save hold the same users, hosts and privileges, in the same order.
\* Not so when a change has not been marked (ren, up and down), when the parser
\* began in the middle of something that it had read before, and when a name
\* (one that ren gave) or a mask (with a quote) cannot be written.
SavedIsLoaded ==
    mode = "running" /\ ~db.changed /\ ~astray /\ Writable(db) =>
        Content(Parse(file, Fresh).tree) = Content(db)

\* Of a section, its first values and subsections, the last one of them in part.
RECURSIVE Below(_, _)
Below(s, t) ==
    LET n == Len(s.subs)
    IN  /\ s.name = t.name /\ IsPrefix(s.values, t.values) /\ n <= Len(t.subs)
        /\ n > 0 => /\ s.values = t.values
                    /\ SubSeq(s.subs, 1, n - 1) = SubSeq(t.subs, 1, n - 1)
                    /\ Below(s.subs[n], t.subs[n])

\* When the program dies during a save, what the next start makes of the rest is
\* the first part of what was saved: nobody has a host or a privilege of another.
\* The exceptions are a start and a database like those that SavedIsLoaded leaves out.
CutFileHarmless ==
    cut # <<>> /\ mode = "running" /\ ~astray /\ Writable(cut[1]) =>
        Below(Content(db), Content(cut[1]))

\* The last one of the users that says anything of a privilege grants it, in the
\* channel if the channel is where it says it.
Grants(users, section, flag) ==
    LET at(user, path) == Lookup(user, path, flag)
        here(user) == at(user, <<Privileges, section>>)
        saying == {i \in DOMAIN users : here(users[i]) \cup at(users[i], <<Privileges>>) # {}}
        last == users[CHOOSE i \in saying : \A j \in saying : j <= i]
    IN  /\ saying # {}
        /\ <<"1">> \in IF here(last) # {} THEN here(last) ELSE at(last, <<Privileges>>)

\* A mode is given on a join only when the last one of the users of that host
\* that says anything of it grants it, and no mode before it is so granted.
GivenByUser ==
    given.given =>
        \E p \in DOMAIN Modes :
            /\ given.flag = Modes[p]
            /\ Grants(MatchHost(given.host), given.section, given.flag)
            /\ \A q \in 1..p - 1 : ~Grants(MatchHost(given.host), given.section, Modes[q])
=============================================================================
