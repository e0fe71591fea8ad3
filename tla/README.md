# Verification of PreBot

TLA+ models of PreBot, a single-threaded IRC bot written in C, the TLC runs that
check them on small instances and TLAPS proofs about the core. `PROJECT.json`
lists the runs, the mutants, the findings, the hazards, the theorems and, for
every definition, the lines of the source that it models.

    tlc -workers 2 -config MCIrcStore.cfg MCIrcStore     # any run: its cfg, its module
    tlapm SocketPoolProofs.tla                           # any module *Proofs, and ListLemmas

## The system

One thread runs `main`: it sets up timers, events, the socket pool, irclib and
the plugins, connects, and then alternates `socketpool_pool(1000)` and
`timers_test()` until a signal ends the loop. Everything else is a callback of
these two: a receive, send or closed handler of a socket, a timer, or a listener
of an event that one of them fires. There are no data races; what is hard is
reentrancy. A callback may change the very list that its caller is walking,
close the socket it was called for, remove the timer it was called from, unload
the plugin it returns to, or start a connection while the old one is being taken
down.

| Component (source) | State | Operations | Hard about it | Right when |
|---|---|---|---|---|
| Socket pool (`socketpool.c`) | list of sockets, a send queue each, `shouldBeClosed` | add, remove, send, close, sendnode, pool, shutdown | handlers that close sockets during the walk; partial and failing writes; delayed close | streams arrive whole and in order; a delayed close happens; nothing freed is used |
| Timers (`timers.c`) | list of timers, time of the last pass | add, remove, test | a callback that adds and removes timers; a timer added between passes | none early, none late |
| Events (`events.c`) | events, their listeners | add and remove event and listener, fire | a listener that removes itself or others | nothing freed is called, every plugin's listener is there once |
| IRC connection (`irclib.c`) | status, socket, receive buffer, two timers | connect, receive, close, closed, sendraw, quit, alive check, reconnect | silent or closing server against commands and timers; a blocking read | dead servers are dropped, the bot comes back unless it was told to quit |
| IRC storages (`irc_users.c`, `irc_channels.c`) | users, channels, members, each user's channels | find, add, remove, rename, clear | three lists that must agree; removal by nickname | lists agree, no pointer dangles, they follow the network |
| IRC parser (`irc_parser.c`, `tokenizer.c`) | tables of 005 | one handler per message | messages in any order the network allows; which mode takes a parameter | a line is read as it was meant; storages and status follow it |
| Autojoin, keepnick | a timer; the configuration | answers to events | refusals, a nickname service and kicks cross on the wire | the bot knows its name and channels, and comes home to those configured |
| Plugin loader (`plugins.c`) | list of plugins | loaddir, load with dependencies, unload, close | an unload from a callback; loads that fail half way; dependencies unloaded during a walk | one sound list; no plugin without what it depends on; no call into code that is gone |
| Telnet (`telnet*`, `users_telnet_login.c`) | clients, their states, their sockets, their lines | accept, receive, command, login, disconnect, negotiation, line editor | disconnect in the middle of a command; a descriptor closed and added again; bursts of bytes | each client freed once, none left behind; nobody in without a password; the screen shows the line |
| Users (`users`) | accounts, hosts, privileges; the `changed` mark | telnet commands, save, load, mode on join | saves cut off; restarts; order of users, masks and channels | what is saved is loaded; no privilege but what was given |
| Configuration (`config/`) | tree of sections and values, the parser's automaton | parse, look up, set, remove, save | the parser's static state; array indices after removal | reads back what was set |
| seen | a database of its own, beside the storages | join, part, quit, answer | an event fired before the storage changes; KICK and NICK unheard | answers are true |
| calc | a table of names and meanings | ask, add, change, remove | two statements per request, four texts cut out of one | it is a glossary |
| pivo, kofola; dummytalk | one time stamp; a threshold, a nickname and timers | order; kvak, kiss | limits, wrap-around, old timers | not more than there is; no flood; one kiss per frog |
| `commands`, `linkfetcher`, `gc3c9rx`, `gpxtell`, `python`, hash tables, text helpers | little of their own | answers to events | as clients of the pool and of the events | (the parts they use) |

The interactions: main drives the pool and the timers; the pool calls irclib's
`irclib_receive` and `irclib_closed` and the telnet driver; irclib calls the pool
to send and to close, the parser for each line, and the events for the plugins;
the parser changes the storages; telnet commands, run by the pool too, quit and
connect irclib, load and unload plugins and change the users; plugins add and
remove listeners, timers and sockets.

## The modules

### The core

**IrcStore** - the two storages and the message handlers that change them.
`store` is a record of the C lists: `users` the user storage in list order,
`nick` and `chans` the nickname and the channel list of a record, `joined` and
`members` the channel storage, `prefix` the mode of a member. A record is an
element of `Uid` (its address): two records may carry one nickname, as in C, and
lookups return the first in the list. Each C function is an operator on that
record, each handler of `irclib_parse` an action that adds the sender first, as
the code does. `roster`, `due` and `held` are the network: the bot is told only
what happens on its own channels, so others connect, rename and quit unseen.
When a member points at a freed record, the program's behaviour is undefined and
the model stops.

**IrcConnection** - the connection's life: `irclib.c` with the main loop, its
part of the pool, its two timers and the telnet commands that quit and connect.
`conn` is a record of the connection, its sockets, the alive timer and histories;
`server` what is at the other end of each socket; `phase`, `turn` and `ready`
are where the loop is. An operator stands for each C function and denotes the
set of its outcomes, since anything that may connect may fail. Calls nest as in
the code: the alive timer closes the socket, whose closed handler removes the
alive timer and connects anew. Time is in units of `aliveCheckTimeout`.
`Tolerated` names the *hardships*, situations that the program is not proof
against; each run says which it lets happen, and the findings show what they do.

**SocketPool** - the pool with partial and failing writes, SIGPIPE, delayed
closes, closed handlers that open the next socket, calls of any client in
receive handlers and timers, and the drain at shutdown. `pool` holds the list and
two histories per descriptor, what was sent and what the peer has; `loop` holds
the locals of `socketpool_pool`: the socket visited, the saved next one,
`hasSomethingToSend` and the bits select has left. `freed` are the sockets freed
since the visit began; the loop crashes when it follows a pointer to one.

**ByteStreams** - the abstract specification of the pool: per descriptor what was
sent and what was got; got is a prefix of sent, both only grow, and the stream
closes when they are equal. SocketPool implements it (`ImplementsStreams`).

**Timers** - `timers_test` with callbacks that add and remove timers and take
their time. `pass` holds the locals of the walk, the saved next timer among them;
`added` and `base` are histories: when a timer was added, and the pass before.

### Plugins and what they do

**Plugins** - the loader with the listeners and timers that plugins register.
The calls under way are a `stack` of frames, since loads and unloads recurse and
are themselves run by a listener of an event: so the model sees a call return
into a plugin that has gone. A pointer to a plugin is its name; the list is kept
with its `prev` and `next`, its first and its last.

**IrcSession** - the bot's name and channels across reconnects: the replies 433
and 376, NICK, JOIN and KICK of the parser, with keepnick and autojoin. `bot` and
`server` exchange messages over two queues; `trouble` counts what others do
against the bot (a service that renames it, a nickname taken, a kick, a lost
connection).

**IrcParser** - how a line is read: the tokenizer, the tables of 005, MODE lines,
messages, the names of 353. The server is modelled by what it has to say
(`meant`) and the line it writes for it; `heard` is what the events say.

**Seen** - extends IrcStore with the plugin's three listeners, each a part of the
action of the handler that fires the event, and its answers. **Calc** - the
handler with its texts and its two statements; it implements **Glossary**, a map
from names to meanings. **Drinks** - pivo and kofola. **Frog** - dummytalk, with
a threshold of 32 bits.

### Telnet, users and configuration

**Telnet** - clients, sockets and the login. A client is in the list of the
service, in that of the driver and behind a socket's handler, and a command typed
on that socket takes all of it down; a step is a handler with all that it calls.
`guarded` says whether logins are asked for. **TelnetTerminal** - one client byte
by byte: the automaton of the driver, the line editor and a terminal that shows
what it is sent. The bytes come in any bursts. The automaton learns that an escape
sequence has ended from the end of the burst only (`telnet_socket_driver/plugin.c`
367-399): what follows an arrow key in its burst is taken for more of it, and what is
left of a key that was cut for characters. `misread` remembers that this has
happened (`Whole` says when), and `Understood` claims nothing from then on; the
screen is claimed to show the line all the same.

**Config** - the tree, the lookups that create what they do not find, set, remove,
the text a tree is saved as, and the automaton that reads it (a function from
text and state to tree and state: the state is static in C and outlives a parse).
**UsersDb** - extends Config with the commands of the administrator, the save
behind each of them, a save that is cut off by the death of the program, restarts,
reloads, and the mode given on a join. Names and masks are what an administrator
types: each command validates what it does in C, and no more, so that `ren` may give
any name and `addhost` any mask, and `Text` writes both as they are. A start parses
the program's own configuration first, with the same automaton, which `Left` says
may leave it in a comment. What the database loses by all this is modelled, and
`SavedIsLoaded` and `CutFileHarmless` name what they except: changes without a mark
and starts in the middle of something (`astray`), names and masks that cannot be
read back (`Writable`).

### Instances and proofs

`MC*` give the instances. MCPlugins, MCTelnet and MCRecords hold several systems
that share no state; `part` is chosen at the start and a behaviour is one of that
part, so that a run is the union of the parts' behaviours and its properties are
those of the parts, stated in the parts' own modules; only liveness is stated of the
part it belongs to (`part = ... =>`).

`ListLemmas` (sequences that lose or gain an element), `IrcStoreProofs`,
`IrcConnectionProofs`, `SocketPoolProofs`, `PluginsProofs`, `TelnetProofs`,
`TimersProofs` and `ChatPluginsProofs` are described below.

## The runs

| Run | Instance | Properties |
|---|---|---|
| `store` | 2 channels, 3 nicknames, 3 records, 1 mode | `BackLinks` (user's channels = channel's members), `NoDanglingUnclashed`, `MembersTracked` (members follow the network, late 353 included), `PrefixSound` (no stale prefix) |
| `store_dangling` | 1 channel, 4 nicknames, 5 records | violates `NoDangling`: finding 1 |
| `connection` | 3 descriptors, no hardship, fair | `MemorySafe`, `OneSocket`, `SilentServerDropped`, `ClosedServerDropped`, `Reconnects` |
| `connection_rough` | 2 descriptors, all hardships but an unheard quit | `Watched`, `StaysQuit`, up to the first undefined step |
| `connection_ping` | 3 descriptors, no hardship | violates `PingBeforeStoned`: finding 2 |
| `connection_quit` | a quit that is not answered | violates `MemorySafe`: finding 3 |
| `connection_partial` | half a line, fair | violates `SilentServerDropped`: finding 4 |
| `pool` | 2 sockets, 2 bytes each, 2 calls a turn, fair | `NothingLost`, `MemorySafe`, `ImplementsStreams`, `CloseCompletes` |
| `pool_foreign` | a handler may close another idle socket | violates `MemorySafe`: finding 5 |
| `plugins` | 8 plugins; 3 timers; a session; both drinks; the frog | loader: `ListSound`, `MemorySafe`, `DepsLoaded`, `Registered`, `LoaderReturns`; timers: `NotTooEarly`, `NeverLate`; session: `NickAgreed`, `SessionComesHome`; `DrinksBounded`; frog: `FrogQuiet`, `KissEarned` |
| `telnet` | 2 clients, 2 descriptors, with and without logins; a terminal | service: `Coherent`, `NoDeadDescriptor`, `MemorySafe`, `LoggedIn`, `ServiceQuitCompletes`; terminal: `Understood`, `ScreenShowsLine` |
| `records` | 2 users and an invalid name, a mask that cannot be written, 2 flags, a channel; a mode of each group; 2 channels and 2 others; 4 spellings of 2 names | users: `SavedIsLoaded`, `CutFileHarmless`, `GivenByUser`; parser: `HeardAsMeant`; `SeenRight`; calc: `ImplementsGlossary` |

Every property is broken by a mutant: a plausible slip in one operator of the
model, listed in `PROJECT.json`, under which TLC finds the property violated.

### Bounds, and why they are enough

* `store`: three nicknames give the bot, one who renames and one whose nickname is
  taken; with a third record there is room for a stale one. Two channels show that
  what happens in one leaves the other alone. `Modest` lets prefixes be recorded
  only while the bot is on one channel and no nickname is carried twice. The
  dangling pointer needs a fourth nickname (somebody who keeps the network's names
  apart) and two more records.
* connection: three descriptors are the socket in use, its successor and one leaked
  by a refused connection; two are enough where no attempt fails. `MaxFailures = 1`
  lets every state meet a failed attempt and keeps the leak below the number of
  descriptors (with more, `Reconnects` fails: see the hazards). `MaxQueue` only
  stops the server from filling the queue with PINGs.
* pool: two bytes per stream give a node that is written in two parts and two nodes
  that could pass each other; two sockets give a handler that acts on the other
  one. `MaxCalls` bounds the calls of clients per turn.
* plugins: the names, dependencies and listeners are the repository's, but for
  `greeter` (its second dependency is missing) and `keepnick_old` (dlopen refuses
  it, and another plugin's name is a prefix of its own). `Asked` are the plugins that
  commands load and unload. It leaves out those that others depend on together
  (`plugins.c:92` takes a shared dependency away and later calls go into code that
  is gone), and those whose `PluginDone` forgets a listener or a timer
  (`commands/plugin.c:195`, `linkfetcher/plugin.c:131`, `gc3c9rx/plugin.c:187`,
  `dummytalk/plugin.c:97` and 159), which are called after they have gone. No
  plugin is `Invalid` (223, 231: a half-made node stays in the list), none is
  broken in an empty list (236: NULL is dereferenced), no dependencies are cyclic.
  `MaxDepth = 8` is more than any stack of this instance reaches.
* timers: timeouts 1 and 2, three timers, four seconds: a timer that is added in a
  pass, one that is removed in it and one after both. Session: the server cuts
  names after the first `_`; four steps of others; at most three messages under way
  when keepnick sends one more. Drinks: two in store, one per two minutes, five
  minutes. Frog: 33 messages are what the threshold needs to wrap and to go on.
* telnet: two clients, so that one leaves while the other stays, and a descriptor
  that is given out again. Four keys and ten bytes under way: each command of the
  protocol and each key, cut anywhere, alone or with others in one burst.
* records: two commands and two starts, each command followed by a save that may be
  cut after any symbol; the program's configuration ends in the open or in a comment;
  one of the two flags is typed, the other is in the file. The server's list of modes has one of each group; three changes
  make a line. `Lonely`: one of the others at a time is on the channels, and one
  has a row. Two names, one of them typed in two ways, with and without spaces.

Symmetry is used in `store` and `store_dangling` only, of the other nicknames and
of the channels, with invariants only.

Deadlock is not checked: each of the systems may stop (a dangling pointer, an
exit, a crash, a bot that waits in `read`, the bounds of a session), and where it
must not, a liveness property says so.

### Fairness

* The main loop is one thread that always takes its next step (`WF` of `Loop`); it
  stops only in `read`. In IrcConnection time passes again and again (`SF` of
  `Select(1)`) and the reconnect timer, set to two seconds, goes off again and
  again (`SF` of `Timers(TRUE)`). A server that is up says something in the end,
  which the weak fairness of the loop implies when it waits for the rest of a line.
* In SocketPool a socket with a live peer becomes writable again and again, in the
  loop and in the drain of the shutdown.
* Plugins: code that is running goes on (`WF` of `Step`).
* IrcSession: the server reads, the bot reads, keepnick's timer goes off and a lost
  connection is made again (`WF` of `Serve`, `Hear`, `KeepNick`, `Connect`). That
  the name is free is not assumed; it is the antecedent of `ComesHome`, which `SessionComesHome` states of that part.
* Telnet: a queue that can be written is written in the end (`WF` of `Write` of each
  descriptor), and the program, once told to stop, leaves its loop for the shutdown
  (`Closes`) and ends when all queues are empty (`Stop`).

Nothing is assumed of commands, of peers or of the network.

## Findings

1. `store_dangling`: removing a user by nickname frees the wrong membership when
   two records carry one nickname (`irc_users.c:192`).
2. `connection_ping`: a new connection inherits `lastActivity` and is given up
   without a PING (`irclib.c:505`).
3. `connection_quit`: the alive timer is removed and freed twice after a quit that
   the server does not answer (`irclib.c:509`).
4. `connection_partial`: half a line stops the bot in `read` (`irclib.c:300`).
5. `pool_foreign`: the saved next socket is freed by a handler
   (`socketpool.c:499`), e.g. by `system unload gpxtell` on telnet.

Seen while modelling, modelled as it is or left out, and stated by no property:

* users (`users_telnet_admin.c`): `ren`, `up` and `down` do not mark the database as
  changed (`SavedIsLoaded` excepts what is not marked); `ren` checks the old name
  twice and the new one never (220), so that the next save writes a file which the
  next start reads up to that name only; `flag` and `delflag` with a wrong number of
  words go on with NULL (429, 499), and the program dies (`FlagDies`).
* configuration: `config_parse` "Loads configuration from file. If error occures
  during parsing, NULL is returned" (`config.h:70`, and `config_parser.c:387`); it
  returns what it has read before the error (554), and `PluginInit` of users, which
  looks for NULL, goes on with a part of the database and saves it over the whole
  (`Parse`, `Load`). A quote in a value is written as it is (`config.c:206`), so that
  a mask with one ends the reading there. `config_remove` uses the index a value had when it was made
  (`config.c:285`); the automaton's state survives an aborted parse, and the end of
  a file in a comment (`config_parser.c:85`), and is what the next file begins with,
  the database behind `ircbot.cfg` (`main.c:215`) included; one branch of the parser returns nothing (357-368).
* telnet: the end of a connection is never noticed
  (`telnet_socket_driver/plugin.c:296`); the comment "it is end of command" (346) is
  true of the end of a burst only: an arrow key and a letter in one burst are the arrow
  key, and a digit behind it another one (`misread`); a command of the protocol without option
  keeps the automaton where it is; a window of 256 or more columns.
* parser and session: a MODE before the reply 005 meets NULL tables; modes of the
  bot itself are read as a channel's; the symbols of 353 are stripped before the
  prefix is recorded (`irc_parser.c:326`); a space behind the last name adds an
  empty one; a nickname the server cuts is never recognised; a refused JOIN is not
  repeated; a server without MOTD (422) never counts as connected.
* seen does not hear KICK and NICK, so that one who was kicked "should be" on the
  channel (`missed` in `SeenRight`). The frog's threshold wraps after some thirty
  messages (`FrogQuiet` says so), and a kiss may be taken back by an older timer.
* `plugins_unload` takes a plugin's dependencies away (`plugins.c:92`), where
  `plugins.h:115` speaks of those that depend on it. `onquerymessage`, to which
  commands listens, is fired by nobody.

## What is proved

For every value of the constants, with the assumptions that are named:

| Module | Theorem | From |
|---|---|---|
| IrcStoreProofs | `Spec => []TypeOK`, `[]BackLinks`, `[]NoDanglingUnclashed`, `[]MembersTracked`, `[]PrefixSound` | `StoreAssumption`: the bot has a nickname, `NoNick` and `NoPrefix` are none |
| IrcStoreProofs | `SeenSpec => []SeenRight`, of the plugin seen on top of the storages | `StoreAssumption` |
| IrcStoreProofs | `CalcSpec => ImplementsGlossary` of Calc | `CalcAssumption`: a message is taken apart into words and spaces, a name has no `=`, a lower case is its own |
| SocketPoolProofs | `Spec => []MemorySafe`, `[]NothingLost`, `Spec => ImplementsStreams` | `PoolAssumption`; `Foreign = FALSE`: receive handlers close at once no socket but their own |
| IrcConnectionProofs | `Spec => []Watched`, `Spec => StaysQuit` | the constants' assumption only: any descriptors, queues, failures and hardships |
| IrcConnectionProofs | `Spec => []OneSocket` | that "hasty connect" and "change server" are not tolerated: the operator waits for the old connection to be gone |
| IrcConnectionProofs | `Spec => []MemorySafe` | that only "partial line" and "broken pipe" are tolerated (findings 2 and 3 are two of the others) |
| TelnetProofs | `Spec => []Coherent`, `[]NoDeadDescriptor`, `[]MemorySafe`, `[]LoggedIn` | `TelnetAssumption`: finitely many descriptors, `None` is no structure and no client |
| TelnetProofs | `TerminalSpec => []Understood`, `[]ScreenShowsLine` of TelnetTerminal | `TerminalAssumption`: letters are printable, a window is at most 239 wide and high. Any bursts; `Understood` up to the first arrow key that is cut or followed in its burst by another key |
| PluginsProofs | `Spec => []TypeOK`, `[]ListSound`, `[]Registered` | `PluginsAssumption`: any plugins, dependencies and directory, circular, missing, broken and invalid ones included |
| PluginsProofs | `Spec => []MemorySafe`, `[]DepsLoaded` | `Tidy`: an order of the directory, dependencies of one level, and commands for plugins that nobody needs (below) |
| TimersProofs | `TimersSpec => []NotTooEarly`, `[]NeverLate` | `TimersAssumption` |
| ChatPluginsProofs | `DrinksSpec => []DrinksBounded` of Drinks | `DrinksAssumption` |
| ChatPluginsProofs | `FrogSpec => []FrogQuiet`, `[]KissEarned` of Frog | `FrogAssumption`: `None` is nobody's nickname |
| ChatPluginsProofs | `SessionSpec => []NickAgreed` of IrcSession | `SessionAssumption`: the limit of a nickname is a number, one message at least may be under way |

*The storages.* `BackLinks` is not inductive. A removal by nickname keeps it only
if no record is twice in a list, a freed record is in no channel list of its own,
and a channel that is not joined has no members; `WellFormed` collects these, and
`IInv` adds that without a clash nothing dangles. One lemma per C function says
that it keeps `WellFormed`; one step per action puts them together (`NextIInv`).
That the clash is the only way to the dangling pointer (finding 1) is thus proved,
not only checked.

`MembersTracked` and `PrefixSound` need `Follows`, which ties the storages to the
network: the channels of the storage are those the bot is on; an entry of a channel
is of somebody who is there, with a prefix he was given; whoever is there and has no
entry is still to be named by a 353; and on a channel that the bot is not on
nobody is remembered, so that a rejoin begins anew. It speaks of nicknames where `IInv` speaks
of records, and holds until a clash: each handler is shown to change the entries
(`Entry`) as the network has changed.

*Seen.* Every step of the plugin is one of the storages (`SeenNextIsNext`), so their
invariants hold of it too. `KnownChannels` says what a handler of the plugin can
find: the channels in the record of a nickname are at least those the bot has been
told of (`Told`) and at most those where it is (`Sighted`); in between lies what
the order of the handlers for one PART or QUIT decides. `Remembered` ties each row
of the database to the last departure by that alone, so that the same lemma
(`WrittenDown`) serves all handlers that write a row.

*Calc.* The table has one row at most for each name in lower case, and none without
a name or a meaning (`OneRow`); a statement then changes the meaning of that name
and of no other (`Changed`). What the four texts are that the handler cuts out
of a message follows from where the first character that is no space is, and the last, and
the first `=` (`TrimLeftOf`, `TrimRightOf`, `Split`): a question is read as its
name (`QuestionRead`), an order as its name and value (`OrderRead`), with names or
values that are empty, of spaces, or hold an `=`. No induction is needed, since
`Min` and `Max` of the positions are given by what they are between.

*The pool.* The pointers of the loop are good because of what a visit may free:
`VisitOK` says that while a socket is visited only that socket may have been freed,
that it may not if it has something to say, and that the saved next one is another
socket of the list or NULL. `Good` is the shape of the pool: distinct descriptors.

*The streams.* `Whole` says of a socket that its queue is a chain of runs of bytes
that begins where the peer's bytes end and ends with the last byte sent; the order
of what is sent, queued and written is then arithmetic on the ends of the runs.
That a queue's concatenation is the missing part follows by induction along the
chain. For the refinement every step of the program is a `Moves`: streams grow
(`Grows`: sends, writes, new sockets), then sockets with an empty queue go
(`Shrinks`: closes), and nothing that is opened in a step is closed in it;
`MoveOfStream` shows that each stream then makes a step of ByteStreams, or none.

*The connection.* Since the C functions call each other, the proof composes: `Good`
(the types), `Served` (a connection in use is watched, or its socket is being
closed) and `LoopOK` are kept by each function, and `After(c, fd, d)` relates the
connection before a nest of calls to the one after it: what it may have done to
the socket it was called for, and that it did not leave QUITED. `Lone` adds that no
socket but the connection's own stands, for `OneSocket`. `MemorySafe` needs to know why the alive timer is never found
removed: `Settled` says when the timer is there, that a `QUIT` is the last line of
its queue and that a server which is given up has always something queued, so that its
close is delayed and the closed handler, which removes the timer, does not run
inside the timer. It bounds the silence and the queue together (`Timely`). The
hardships that are excluded are those that break it: an unheard quit and a
hasty connect free the timer under its own callback.

*Telnet.* `Shape` says that the list of the service, that of the driver, the
clients in use and the handlers of the sockets are one and the same set, each once,
and that a socket which waits to be closed has no handler any more unless its peer
has gone: so no later event reaches the freed client. `Calm` says what a client may
do between two handlers; inside a command it does not hold, and each handler is
shown to restore it. `plugins_close` walks the lists with handlers that change
them; these loops are folds, and their proofs (`Loop`, `Runs`, `Looped`) show that
the function by which `FoldLeft` is defined exists and takes one `Turn` per position.

*The terminal.* `Sound` ties the row and the cursor of the client to the line of the
editor, and each key keeps it: how the loops of the echo write over the rest of the line
is followed position by position. That the line is the one meant cannot be said while
bytes are on their way. `TInv` looks ahead: unless something has been misread, all that
is on its way leads, read byte by byte (`Reads`) and with an escape sequence over after
its code, from the record with which the next burst begins to the record that is meant. A
key or an answer makes the trace longer by its own bytes; a burst takes its first bytes
away. Inside a burst the code does not know that a key is over, and its record is
another one than that of the trace: `Matches` says which, and that the two are the same
again at the end of a burst in which every arrow key is whole and followed by nothing
but another one (`Uncut`). The screen needs none of this: `SInv` says that
`Sound` holds whatever the bytes are, once the client's consent to the echo, with which
every connection begins, has been read or is still ahead (`Pending`).

*The loader.* The invariant is about the list and about the calls under way.
`Linked` says that the list links a sequence of distinct names, which each of the
three changes of the list (`Appended`, `Dropped`, `Unlinked`) turns into another.
`Nested` is the shape of the stack: `main` or an event at the bottom, then
loads that each wait for the next, then unloads; a load whose dependency has failed
becomes an unload without `PluginDone`, and no plugin is being started twice. Then
the plugins whose `PluginInit` has run (`Started`) are those of the list that no call
on the stack is still starting or giving up, and they are the ones that are
registered (`Enlisted`), each once. `Sure` is why a load ends with its plugin still
in the list: failures are handed down to the load below before it looks again.
The invariant speaks of the time before a crash. That the loop over the list visits
just the sequence (`WalkIs`) needs that the recursive function `Reached` exists, which is
shown by a least place where two candidates differ. The recursion of `plugins_load` is bounded
by `MaxDepth` in the model, and a deeper one counts as a crash.

`MemorySafe` and `DepsLoaded` do not hold of every directory, and `Tidy` says of
which they do: `plugins_loaddir` meets a plugin behind what it depends on; what a
plugin depends on depends on nothing; the first file opens; what a plugin that
cannot be loaded (`Doomed`) has loaded in vain it has loaded itself, so that giving
it up takes nothing from others; and `Asked` are plugins that neither telnet nor
commands nor another one needs (`Apart`). The plugins of the repository are such:
the directory is sorted (`dirs.c:150`), and all that depend on anything
(telnet_commands, telnet_socket_driver, users) depend on telnet, ahead of them. What
`Tidy` leaves out goes wrong: with users ahead of telnet, with a broken first file,
with greeter behind telnet, with users, telnet or telnet_commands among the `Asked`,
TLC finds one of the two violated. The instance is tidy, which TLC evaluates
(`DirectoryIsTidy`). In a tidy directory `Tame` tells what the calls are, which are
three at most: while `main` starts (`Loading`), file k is met with just the files
before it that fit loaded (`Fits`), and then is either loaded with nothing left to
load (`Hopeful`), or loads in vain (`Trying`) and sheds what it has got (`Dropping`)
until the list is as it was; in the main loop (`Serving`) the list is closed under
dependencies, the listener that is called is there, and above it only a plugin comes
or goes that is apart; and in `plugins_close` (`Closing`) it is the first of the
list that goes, of whose needs, as the list is in order (`OrderedIn`), none is left,
so that the saved next plugin stays good.

*The small plugins.* TimersProofs keeps, per timer, how much of its timeout has
been charged since the pass before it was added, and that the timers behind the
walk are not due. ChatPluginsProofs bounds every stretch of the history of the
drinks by the time stamp: products are split by lemmas, as the provers know only
linear arithmetic. The frog is quiet since each answer of a minute doubles the least that
the threshold can be, up to 1024 with the tenth, and each ignored message the most,
`1024 * 2^ignored`, which stays below the wrap until twenty are ignored (`Calm`). For the
session, what the server and the bot have told each other and not yet read is kept in
order: read to the end, the messages to the bot lead what it believes to what the
server holds (`Leads`). `Agreeing` says so for each phase of a login (`Offline`,
`Asking`, `Refused`, `Welcome`, `Online`); a name that the server has once cut
stays so, and from then on nothing is claimed.

Only model-checked: liveness (out of the prover's reach, as is `ENABLED`);
IrcParser; Config and UsersDb, which use `RECURSIVE` operators, out of
the prover's reach too.

## Not modelled

* `commands` dispatches and keeps no state. `linkfetcher` and `gc3c9rx` are a child
  process with a pipe, HTML and SQL; `gpxtell` turns foreign XML into SQL; python is
  glue to an interpreter whose state is its own. What they do to the pool is in
  SocketPool, what their unloads forget is above.
* Hash tables hold the values of the configuration, one at a time; their operations
  on indices are called by nobody. io and directories are input and output.
* Formats, colours, encodings, logging; the command line and signals. User and host
  names in IrcStore, on which no other field depends. In IrcStore the reply 005 is
  taken for received; in IrcConnection a line is one of three kinds and the receive
  buffer does not outlive a connection. In Config floats and arrays.
* In SocketPool `sendHandler`, which no client sets, and a descriptor that is given
  out again in one turn under the old bits of select.

## What could follow

Proofs of `MemorySafe` and `DepsLoaded` of Plugins for dependencies of more than one
level. The stale bits of select, with a handler that waits. A composition of SocketPool and
Telnet over one pool: today Telnet has the part of the pool that it sees.
