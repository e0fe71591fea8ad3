------------------------------ MODULE MCPlugins ------------------------------
(***************************************************************************)
(* A small instance of Plugins with the names of the repository: a plugin  *)
(* that cannot be loaded because one of its dependencies is missing, one   *)
(* that dlopen refuses, two that may come and go, and the telnet plugins.  *)
(* Beside it Timers, and the plugins that live by the time and by the      *)
(* channel: keepnick and autojoin (IrcSession), pivo and kofola (Drinks)   *)
(* and dummytalk (Frog).  They share no state: a behaviour is one of one   *)
(* part.                                                                   *)
(***************************************************************************)
EXTENDS Plugins, Timers, IrcSession, Drinks, Frog

MCDir == <<"autojoin", "greeter", "keepnick", "keepnick_old", "seen", "telnet",
           "telnet_commands", "users">>

MCName == Range(MCDir) \cup {"missing"}

MCDeps == [n \in MCName |->
             CASE n \in {"telnet_commands", "users"} -> <<"telnet">>
               [] n = "greeter" -> <<"telnet", "missing">>
               [] OTHER -> <<>>]

MCStartsWith == [n \in MCName |->
                   CASE n = "telnet" -> {"telnet", "telnet_commands"}
                     [] n = "keepnick" -> {"keepnick", "keepnick_old"}
                     [] n = "missing" -> {}
                     [] OTHER -> {n}]

\* The instance is one that the theorems about the loader are about.
ASSUME DirectoryIsTidy == Tidy

MCAutojoin == <<"#a", "#b">>

VARIABLE part

notLoader == <<part, timersVars, sessionVars, drinksVars, frogVars>>
notTimers == <<part, vars, sessionVars, drinksVars, frogVars>>
notSession == <<part, vars, timersVars, drinksVars, frogVars>>
notDrinks == <<part, vars, timersVars, sessionVars, frogVars>>
notFrog == <<part, vars, timersVars, sessionVars, drinksVars>>
allVars == <<part, vars, timersVars, sessionVars, drinksVars, frogVars>>

MCInit ==
    /\ part \in {"loader", "timers", "session", "drinks", "frog"}
    /\ Init /\ TimersInit /\ SessionInit /\ DrinksInit /\ FrogInit
    /\ part = "session" \/ taken = {}

MCNext ==
    \/ part = "loader" /\ Next /\ UNCHANGED notLoader
    \/ part = "timers" /\ TimersNext /\ UNCHANGED notTimers
    \/ part = "session" /\ SessionNext /\ UNCHANGED notSession
    \/ part = "drinks" /\ DrinksNext /\ UNCHANGED notDrinks
    \/ part = "frog" /\ FrogNext /\ UNCHANGED notFrog

InSession(A) == part = "session" /\ A /\ UNCHANGED notSession

MCSpec ==
    /\ MCInit /\ [][MCNext]_allVars
    /\ WF_allVars(part = "loader" /\ Step /\ UNCHANGED notLoader)
    /\ WF_allVars(InSession(Connect)) /\ WF_allVars(InSession(KeepNick))
    /\ WF_allVars(InSession(Hear)) /\ WF_allVars(InSession(Serve))

\* The recursion of plugins_load and plugins_unload ends, and main comes to its
\* loop and out of plugins_close: Returns, of the behaviours of the loader.
LoaderReturns == part = "loader" /\ stack # <<>> ~> stack = <<>>

\* The bot ends up under its configured name and on its configured channels:
\* ComesHome of IrcSession, of the behaviours of the session.
SessionComesHome == part = "session" => ComesHome
=============================================================================
