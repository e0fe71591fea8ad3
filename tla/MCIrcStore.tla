----------------------------- MODULE MCIrcStore -----------------------------
(***************************************************************************)
(* Small instances of IrcStore: the nicknames other than the bot's are     *)
(* interchangeable, and so are the channels.                               *)
(***************************************************************************)
EXTENDS IrcStore, TLC

Symmetry == Permutations(Nick \ {Bot}) \cup Permutations(Channel)

\* Bound: modes are held, or recorded, on a channel only while the bot is on no
\* other and no nickname is carried twice.
Modest ==
    Cardinality(MyChannels) > 1 \/ clashed =>
        \A c \in Channel : held[c] = {} /\ \A u \in Uid : store.prefix[c][u] = NoPrefix

MCSpec == Init /\ [][Next /\ Modest']_vars
=============================================================================
