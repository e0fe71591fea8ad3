----------------------------- MODULE ByteStreams -----------------------------
(***************************************************************************)
(* What the socket pool promises to those who send through it, whatever    *)
(* its queues and its loop look like: the peer gets the bytes that were    *)
(* given to socketpool_send, in their order and each of them once, and a   *)
(* socket is closed only when the peer has got them all.                   *)
(***************************************************************************)
EXTENDS Sequences, SequencesExt

CONSTANT Fd

VARIABLE streams    \* per descriptor: is it open, what was sent, what was got

Closed == [open |-> FALSE, sent |-> <<>>, got |-> <<>>]

\* What one step may make of a stream.  Streams make their steps together: a
\* call may close one socket and open another.
Opens(s, t) == ~s.open /\ t.open /\ t.got = <<>>

Flows(s, t) ==
    /\ s.open
    /\ IsPrefix(s.sent, t.sent)
    /\ IsPrefix(s.got, t.got) /\ IsPrefix(t.got, t.sent)
    /\ t.open \/ t.got = t.sent

Init == streams = [fd \in Fd |-> Closed]

Next ==
    \A fd \in Fd :
        \/ streams'[fd] = streams[fd]
        \/ Opens(streams[fd], streams'[fd])
        \/ Flows(streams[fd], streams'[fd])

Spec == Init /\ [][Next]_streams
=============================================================================
