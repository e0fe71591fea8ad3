--------------------------- MODULE MCIrcConnection ---------------------------
(***************************************************************************)
(* Small instances of IrcConnection.  Descriptors 0 to 2 are taken; three  *)
(* are enough for the socket in use, the one that replaces it before it is *)
(* closed, and one that a refused connection has left open.                *)
(***************************************************************************)
EXTENDS IrcConnection

MCFd == 3..5

MCTwoFd == 3..4

\* The hardships that leave every server it hears from able to hear the bot.
MCHardships == Hardships \ {"quit unheard"}
=============================================================================
