------------------------------- MODULE Plugins -------------------------------
(***************************************************************************)
(* The plugin loader (plugins.c) with the events and the timers that       *)
(* plugins register (events.c, timers.c), from plugins_loaddir at the      *)
(* start of main to plugins_close at its end.                              *)
(*                                                                         *)
(* The loader is recursive - a plugin loads and unloads what it depends    *)
(* on - and is itself called from an event handler: `system load` and      *)
(* `system unload` come in through the event of the telnet service.  The   *)
(* calls under way are a stack of frames, so that code which returns into  *)
(* a plugin that has gone meanwhile can be seen.  The list of plugins is   *)
(* kept with its pointers; a pointer to a plugin is its name.              *)
(***************************************************************************)
EXTENDS Naturals, Sequences, SequencesExt, FiniteSets

CONSTANTS
    Name,           \* names of plugins, and names that somebody may ask for
    NoName,         \* the NULL pointer
    Dir,            \* the plugin files, in the order of the directory
    Deps,           \* what each plugin depends on, a sequence of names
    StartsWith,     \* the files whose names begin with a given name
    Broken,         \* files that dlopen refuses
    Invalid,        \* files without PluginInit or PluginDone
    TelListener,    \* plugins that listen to the event of a telnet command
    IrcListener,    \* plugins that listen to the events of IRC
    Timed,          \* plugins that have a timer
    Telnet,         \* the plugin that fires the event of a telnet command
    Commander,      \* the plugin whose listener loads and unloads
    Asked,          \* the plugins that are loaded and unloaded by command
    MaxDepth        \* bound: calls under way

ASSUME PluginsAssumption ==
    /\ NoName \notin Name
    /\ Dir \in Seq(Name)
    /\ Deps \in [Name -> Seq(Name)]
    /\ StartsWith \in [Name -> SUBSET Name]
    /\ Broken \subseteq Name /\ Invalid \subseteq Name
    /\ TelListener \subseteq Name /\ IrcListener \subseteq Name /\ Timed \subseteq Name
    /\ Telnet \in Name /\ Commander \in TelListener /\ Asked \subseteq Name
    /\ MaxDepth \in Nat \ {0, 1}

VARIABLES
    list,       \* loadedPlugins: first, last, and prev and next of each plugin
    chains,     \* the listeners of each event, in the order they are called
    timerOwners,     \* the owners of the timers
    stack,      \* the calls under way, the innermost last
    result,     \* what plugins_load has returned
    mode        \* how far main has come

vars == <<list, chains, timerOwners, stack, result, mode>>

-----------------------------------------------------------------------------
(* The list of plugins.                                                    *)

Loaded == DOMAIN list.node

EmptyList == [first |-> NoName, last |-> NoName, node |-> <<>>]

\* Mutant: the predecessor does not learn of its successor.
AppendedOneWay(l, n) ==
    [first |-> IF l.last = NoName THEN n ELSE l.first,
     last  |-> n,
     node  |-> [m \in DOMAIN l.node \cup {n} |->
                  IF m = n THEN [prev |-> l.last, next |-> NoName] ELSE l.node[m]]]

\* plugins_loadplugin puts a plugin at the end of the list before it is opened.
Appended(l, n) ==
    [first |-> IF l.last = NoName THEN n ELSE l.first,
     last  |-> n,
     node  |-> [m \in DOMAIN l.node \cup {n} |->
                  IF m = n THEN [prev |-> l.last, next |-> NoName]
                  ELSE IF m = l.last THEN [l.node[m] EXCEPT !.next = n]
                  ELSE l.node[m]]]

\* The end of plugins_unloadplugin.
Unlinked(l, n) ==
    LET p == l.node[n].prev
        q == l.node[n].next
    IN  [first |-> IF p = NoName THEN q ELSE l.first,
         last  |-> IF q = NoName THEN p ELSE l.last,
         node  |-> [m \in DOMAIN l.node \ {n} |->
                      [prev |-> IF m = q THEN p ELSE l.node[m].prev,
                       next |-> IF m = p THEN q ELSE l.node[m].next]]]

\* plugins_loadplugin after a dlopen that failed: the last one goes again.
Dropped(l, n) ==
    [l EXCEPT !.last = l.node[n].prev,
              !.node = [m \in DOMAIN @ \ {n} |->
                          IF m = l.node[n].prev THEN [@[m] EXCEPT !.next = NoName] ELSE @[m]]]

\* Where a loop over the list is after k steps.
Reached[k \in Nat] ==
    IF k = 0 THEN list.first
    ELSE IF Reached[k - 1] \in Loaded THEN list.node[Reached[k - 1]].next ELSE NoName

\* The names from the first to the last, as the loops over the list see them.
Walk ==
    LET steps == Cardinality({k \in 0..Cardinality(Loaded) : Reached[k] # NoName})
    IN  [k \in 1..steps |-> Reached[k - 1]]

\* The plugin that plugins_unload takes for a name: the first that begins so.
Matching(n) == SelectInSeq(Walk, LAMBDA m : m \in StartsWith[n])

\* The file that plugins_load takes for a name.
File(n) == SelectInSeq(Dir, LAMBDA m : m \in StartsWith[n])

-----------------------------------------------------------------------------
(* What plugins register.                                                  *)

\* PluginInit of the plugins: events_addEventListener puts a listener at the
\* head of its chain, timers_cadd a timer at the end of the list.
InitPlugin(n) ==
    /\ chains' = [tel |-> (IF n \in TelListener THEN <<n>> ELSE <<>>) \o chains.tel,
                  irc |-> (IF n \in IrcListener THEN <<n>> ELSE <<>>) \o chains.irc]
    /\ timerOwners' = IF n \in Timed THEN Append(timerOwners, n) ELSE timerOwners

\* events_removeEventListener and timers_remove of what a plugin has added.
Others(s, n) == RemoveFirst(s, n)

\* Mutant: the timer is not removed.
DonePluginKeepsTimer(n) ==
    /\ chains' = [e \in DOMAIN chains |-> Others(chains[e], n)]
    /\ UNCHANGED timerOwners

\* PluginDone of the plugins that remove what they have registered.
DonePlugin(n) ==
    /\ chains' = [e \in DOMAIN chains |-> Others(chains[e], n)]
    /\ timerOwners' = Others(timerOwners, n)

-----------------------------------------------------------------------------
(* The stack.                                                              *)

Frame(proc, name) ==
    [proc |-> proc, name |-> name, at |-> 1, wait |-> FALSE, done |-> TRUE,
     ret |-> "ok", ask |-> NoName]

Top == stack[Len(stack)]

Running(proc) == stack # <<>> /\ Top.proc = proc /\ mode # "crashed"

Under(frame) == Append(Front(stack), frame)

Crash == mode' = "crashed" /\ UNCHANGED <<list, chains, timerOwners, stack, result>>

\* plugins_loadplugin of the file n, up to its dependencies, called by frame.
LoadPlugin(n, frame) ==
    CASE n \in Loaded ->
            /\ result' = "already loaded" /\ stack' = Under(frame)
            /\ UNCHANGED <<list, chains, timerOwners, mode>>
      [] n \notin Loaded /\ n \in Broken /\ list.last # NoName ->
            /\ list' = Dropped(Appended(list, n), n)
            /\ result' = "dl error" /\ stack' = Under(frame)
            /\ UNCHANGED <<chains, timerOwners, mode>>
      \* last is NULL and written through, or an invalid plugin is unloaded twice.
      [] n \notin Loaded /\ (n \in Invalid \ Broken \/ (n \in Broken /\ list.last = NoName)) ->
            Crash
      [] n \notin Loaded \cup Broken \cup Invalid ->
            /\ list' = Appended(list, n)
            /\ IF Len(stack) = MaxDepth THEN mode' = "crashed" /\ UNCHANGED stack
               ELSE stack' = Append(Under(frame), Frame("load", n)) /\ UNCHANGED mode
            /\ UNCHANGED <<chains, timerOwners, result>>

\* plugins_load.
Load(n, frame) ==
    IF File(n) = 0
    THEN /\ result' = "file not found" /\ stack' = Under(frame)
         /\ UNCHANGED <<list, chains, timerOwners, mode>>
    ELSE LoadPlugin(Dir[File(n)], frame)

\* plugins_unload.
Unload(n, frame) ==
    /\ IF Matching(n) = 0 THEN stack' = Under(frame) /\ UNCHANGED mode
       ELSE IF Len(stack) = MaxDepth THEN mode' = "crashed" /\ UNCHANGED stack
       ELSE stack' = Append(Under(frame), Frame("unload", Walk[Matching(n)])) /\ UNCHANGED mode
    /\ UNCHANGED <<list, chains, timerOwners, result>>

-----------------------------------------------------------------------------
(* The steps of each procedure.                                            *)

\* Mutant: the directory is read from the same file again.
LoadDirStuck ==
    /\ Running("dir") /\ Top.at <= Len(Dir)
    /\ LoadPlugin(Dir[Top.at], Top)

\* plugins_loaddir goes to the next file.
LoadDir ==
    /\ Running("dir") /\ Top.at <= Len(Dir)
    /\ LoadPlugin(Dir[Top.at], [Top EXCEPT !.at = @ + 1])

LoadDirEnds ==
    /\ Running("dir") /\ Top.at > Len(Dir)
    /\ stack' = Front(stack) /\ mode' = "running"
    /\ UNCHANGED <<list, chains, timerOwners, result>>

NextDep == Deps[Top.name][Top.at]

\* plugins_loadplugin loads what the plugin depends on and is not there.
LoadDep ==
    /\ Running("load") /\ ~Top.wait /\ Top.at <= Len(Deps[Top.name])
    /\ IF NextDep \in Loaded
       THEN /\ stack' = Under([Top EXCEPT !.at = @ + 1])
            /\ UNCHANGED <<list, chains, timerOwners, result, mode>>
       ELSE Load(NextDep, [Top EXCEPT !.wait = TRUE])

\* Mutant: what plugins_load has returned is not looked at.
DepLoadedAnyhow ==
    /\ Running("load") /\ Top.wait
    /\ stack' = Under([Top EXCEPT !.at = @ + 1, !.wait = FALSE])
    /\ UNCHANGED <<list, chains, timerOwners, result, mode>>

\* One dependency is loaded; when it could not be, the plugin is unloaded with
\* those loaded so far, and without its PluginDone.
DepLoaded ==
    /\ Running("load") /\ Top.wait
    /\ stack' = Under(IF result = "ok" THEN [Top EXCEPT !.at = @ + 1, !.wait = FALSE]
                      ELSE [Frame("unload", Top.name) EXCEPT !.done = FALSE,
                                                             !.ret = "dependency"])
    /\ UNCHANGED <<list, chains, timerOwners, result, mode>>

LoadEnds ==
    /\ Running("load") /\ ~Top.wait /\ Top.at > Len(Deps[Top.name])
    /\ InitPlugin(Top.name)
    /\ result' = "ok" /\ stack' = Front(stack)
    /\ UNCHANGED <<list, mode>>

\* plugins_unloadplugin takes the dependencies that are loaded along.
UnloadDep ==
    /\ Running("unload") /\ Top.at <= Len(Deps[Top.name])
    /\ LET up == [Top EXCEPT !.at = @ + 1]
       IN  IF NextDep \in Loaded THEN Unload(NextDep, up)
           ELSE stack' = Under(up) /\ UNCHANGED <<list, chains, timerOwners, result, mode>>

\* The plugin goes, unless a call further in has freed it already.
UnloadEnds ==
    /\ Running("unload") /\ Top.at > Len(Deps[Top.name])
    /\ IF Top.name \notin Loaded THEN Crash
       ELSE /\ IF Top.done THEN DonePlugin(Top.name) ELSE UNCHANGED <<chains, timerOwners>>
            /\ list' = Unlinked(list, Top.name)
            /\ result' = Top.ret /\ stack' = Front(stack)
            /\ UNCHANGED mode

\* plugins_close saves the next plugin, and unloads this one.
Close ==
    /\ Running("close") /\ Top.name # NoName
    /\ IF Top.name \notin Loaded THEN Crash
       ELSE /\ stack' = Append(Under([Top EXCEPT !.name = list.node[Top.name].next]),
                               Frame("unload", Top.name))
            /\ UNCHANGED <<list, chains, timerOwners, result, mode>>

CloseEnds ==
    /\ Running("close") /\ Top.name = NoName
    /\ stack' = Front(stack) /\ mode' = "closed"
    /\ UNCHANGED <<list, chains, timerOwners, result>>

-----------------------------------------------------------------------------
(* Events and timers.                                                      *)

HeadOf(e) == IF chains[e] = <<>> THEN NoName ELSE Head(chains[e])

\* The listener behind that of n, read when that of n has returned.
NextListener(e, n) ==
    LET i == SelectInSeq(chains[e], LAMBDA m : m = n)
    IN  IF i = Len(chains[e]) THEN NoName ELSE chains[e][i + 1]

InChain(e, n) == SelectInSeq(chains[e], LAMBDA m : m = n) # 0

\* events_fireEvent calls a listener: that of the commander loads or unloads.
CallListener ==
    /\ Running("tel") \/ Running("irc")
    /\ Top.name # NoName /\ ~Top.wait
    /\ LET called == [Top EXCEPT !.wait = TRUE]
       IN  IF Top.name \notin Loaded THEN Crash
           ELSE IF Top.proc = "tel" /\ Top.name = Commander
                THEN IF Top.ret = "load" THEN Load(Top.ask, called) ELSE Unload(Top.ask, called)
                ELSE stack' = Under(called) /\ UNCHANGED <<list, chains, timerOwners, result, mode>>

\* It has returned, and the loop goes on from its node unless it was cancelled.
ListenerReturns ==
    /\ Running("tel") \/ Running("irc")
    /\ Top.name # NoName /\ Top.wait
    /\ IF Top.name \notin Loaded \/ ~InChain(Top.proc, Top.name) THEN Crash
       ELSE /\ \E cancel \in BOOLEAN :
                 stack' = Under([Top EXCEPT !.wait = FALSE,
                                            !.name = IF cancel THEN NoName
                                                     ELSE NextListener(Top.proc, Top.name)])
            /\ UNCHANGED <<list, chains, timerOwners, result, mode>>

\* events_fireEvent returns to the plugin or the library that has called it.
FireEnds ==
    /\ Running("tel") \/ Running("irc")
    /\ Top.name = NoName
    /\ IF Top.proc = "tel" /\ Telnet \notin Loaded THEN Crash
       ELSE stack' = Front(stack) /\ UNCHANGED <<list, chains, timerOwners, result, mode>>

Idle == stack = <<>> /\ mode = "running"

\* A telnet client asks for something to be loaded or unloaded.
TelnetCommand(op, n) ==
    /\ Idle /\ Telnet \in Loaded
    /\ stack' = <<[Frame("tel", HeadOf("tel")) EXCEPT !.ret = op, !.ask = n]>>
    /\ UNCHANGED <<list, chains, timerOwners, result, mode>>

IrcEvent ==
    /\ Idle
    /\ stack' = <<Frame("irc", HeadOf("irc"))>>
    /\ UNCHANGED <<list, chains, timerOwners, result, mode>>

\* timers_ctest calls back into the owners of the timers.
TestTimers ==
    /\ Idle
    /\ IF Range(timerOwners) \subseteq Loaded THEN UNCHANGED vars ELSE Crash

\* main leaves its loop.
Quit ==
    /\ Idle
    /\ stack' = <<Frame("close", list.first)>> /\ mode' = "closing"
    /\ UNCHANGED <<list, chains, timerOwners, result>>

\* irclib_close tells the listeners that are left; then events and timers go.
Shutdown ==
    /\ mode = "closed"
    /\ IF Range(chains.irc) \subseteq Loaded
       THEN /\ chains' = [tel |-> <<>>, irc |-> <<>>] /\ timerOwners' = <<>>
            /\ mode' = "ended"
            /\ UNCHANGED <<list, stack, result>>
       ELSE Crash

Init ==
    /\ list = EmptyList
    /\ chains = [tel |-> <<>>, irc |-> <<>>] /\ timerOwners = <<>>
    /\ stack = <<Frame("dir", NoName)>> /\ result = "ok" /\ mode = "starting"

Step ==
    \/ LoadDir \/ LoadDirEnds \/ LoadDep \/ DepLoaded \/ LoadEnds
    \/ UnloadDep \/ UnloadEnds \/ Close \/ CloseEnds
    \/ CallListener \/ ListenerReturns \/ FireEnds \/ Shutdown

Next ==
    \/ Step \/ IrcEvent \/ TestTimers \/ Quit
    \/ \E op \in {"load", "unload"}, n \in Asked : TelnetCommand(op, n)

Spec == Init /\ [][Next]_vars /\ WF_vars(Step)

-----------------------------------------------------------------------------
(* Directories that the loader can deal with.                              *)

\* Of the plugin n something is missing that it depends on, or does not open.
Doomed(n) == \E d \in Range(Deps[n]) : File(d) = 0 \/ d \in Broken

Fit(n) == n \notin Broken /\ ~Doomed(n)

\* A plugin that can come and go while the others stay as they are.
Apart(n) ==
    /\ Deps[n] = <<>> /\ n \notin {Telnet, Commander}
    /\ \A m \in Range(Dir) : n \notin Range(Deps[m])

\* A directory and commands that the loader can deal with.  plugins_loaddir meets
\* a plugin behind what it depends on (plugins_close would free it twice
\* otherwise); what a plugin depends on depends on nothing; and what one that
\* cannot be loaded takes along, when it is given up, was loaded for it alone.
\* The plugins of the repository are such: files are sorted by name, and all that
\* depend on anything depend on telnet.
Tidy ==
    /\ MaxDepth > 2
    /\ Range(Dir) \cap Invalid = {}
    /\ Dir # <<>> => Fit(Dir[1])
    /\ \A n \in Range(Dir) : n \in StartsWith[n]
    /\ \A i \in DOMAIN Dir : \A d \in Range(Deps[Dir[i]]) :
          /\ File(d) # 0 => Dir[File(d)] = d /\ Deps[d] = <<>>
          /\ Fit(Dir[i]) => File(d) < i
          /\ Doomed(Dir[i]) /\ Dir[i] \notin Broken =>
                \/ File(d) = 0 \/ d \in Broken
                \/ File(d) > i /\ StartsWith[d] \cap Range(Deps[Dir[i]]) = {d}
    /\ \A n \in Asked : \A m \in StartsWith[n] : Apart(m)

-----------------------------------------------------------------------------
(* Properties.                                                             *)

\* The pointers of the list are to plugins of the list or NULL, and the calls
\* under way are those of plugins.c, events.c and their callers.
TypeOK ==
    /\ Loaded \subseteq Name
    /\ {list.first, list.last} \subseteq Loaded \cup {NoName}
    /\ \A n \in Loaded : {list.node[n].prev, list.node[n].next} \subseteq Loaded \cup {NoName}
    /\ DOMAIN chains = {"tel", "irc"} /\ \A e \in DOMAIN chains : chains[e] \in Seq(Name)
    /\ timerOwners \in Seq(Name)
    /\ Len(stack) <= MaxDepth
    /\ \A i \in DOMAIN stack :
          /\ stack[i].proc \in {"dir", "load", "unload", "close", "tel", "irc"}
          /\ stack[i].name \in Name \cup {NoName}
    /\ mode \in {"starting", "running", "closing", "closed", "ended", "crashed"}

\* plugins.c keeps one list of all loaded plugins, the same in both directions,
\* through loads that fail half way and unloads from its middle.
ListSound ==
    /\ TypeOK
    /\ Range(Walk) = Loaded /\ Len(Walk) = Cardinality(Loaded)
    /\ list.last = IF Walk = <<>> THEN NoName ELSE Last(Walk)
    /\ \A i \in DOMAIN Walk :
          list.node[Walk[i]].prev = IF i = 1 THEN NoName ELSE Walk[i - 1]

\* Nobody reads a plugin, a listener or a timer that has been freed, and nobody
\* calls or returns into a plugin that is gone: not plugins_close, whose next
\* plugin a dependency's unload may take, nor events_fireEvent under a command.
MemorySafe == mode # "crashed"

\* Between two commands what a plugin depends on is loaded (plugins.c:186), with
\* loads that fail at any depth.  It does not survive the unload of a plugin that
\* shares a dependency with another one (plugins.c:92), which is left to Asked.
DepsLoaded == Idle => \A n \in Loaded : Range(Deps[n]) \subseteq Loaded

Once(s, n) == \E i \in DOMAIN s : \A j \in DOMAIN s : s[j] = n <=> j = i

\* Between two commands the listeners and timers are those of the plugins that
\* are there, each once, so that no event and no timer gets lost or doubled.
Registered ==
    Idle =>
        /\ \A n \in Loaded :
              /\ n \in TelListener => Once(chains.tel, n)
              /\ n \in IrcListener => Once(chains.irc, n)
              /\ n \in Timed => Once(timerOwners, n)
        /\ Range(chains.tel) \cup Range(chains.irc) \cup Range(timerOwners) \subseteq Loaded

\* The recursion of loads and unloads ends, and with it every command; main
\* comes to its loop, and out of plugins_close.
Returns == stack # <<>> ~> stack = <<>>
=============================================================================
