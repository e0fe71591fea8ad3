---------------------------- MODULE MCSocketPool -----------------------------
(***************************************************************************)
(* Small instances of SocketPool.  Two sockets are enough for a handler    *)
(* that acts on another socket than its own, and for a closed handler that *)
(* opens the next one.                                                     *)
(***************************************************************************)
EXTENDS SocketPool

MCFd == 1..2
=============================================================================
