------------------------------ MODULE MCTelnet -------------------------------
(***************************************************************************)
(* Small instances of Telnet and of TelnetTerminal.  The two share no      *)
(* state: a behaviour is one of the service with its clients, or one of    *)
(* the line of a single client.                                            *)
(***************************************************************************)
EXTENDS Telnet, TelnetTerminal

MCLine == {<<"telnet">>, <<"quit">>, <<"telnet", "quit">>, <<"system", "quit">>, <<"..">>}

VARIABLE part

MCInit ==
    /\ Init /\ TerminalInit
    /\ part \in IF guarded THEN {"service"} ELSE {"service", "terminal"}

MCNext ==
    \/ part = "service" /\ Next /\ UNCHANGED <<part, terminalVars>>
    \/ part = "terminal" /\ TerminalNext /\ UNCHANGED <<part, vars>>

MCSpec ==
    /\ MCInit /\ [][MCNext]_<<part, vars, terminalVars>>
    /\ part = "service" => Fairness

\* Whoever quits is disconnected: QuitCompletes, of the behaviours of the service.
ServiceQuitCompletes == part = "service" => QuitCompletes
=============================================================================
