----------------------------- MODULE MCSendBuff -----------------------------
(* Instances of SendBuff for TLC. *)
EXTENDS SendBuff

Threads(size, windows) ==
    [same_core |-> FALSE, stale_acks |-> FALSE, size |-> size, windows |-> windows]

(* Threads with a window for everything, and with a buffer that is soon    *)
(* full; coroutines with small windows, and with acks that overtake each   *)
(* other.                                                                  *)
ThreadsAndCoroutines ==
    {Threads(3, {3}), Threads(2, {2}),
     [Threads(3, {2, 3}) EXCEPT !.same_core = TRUE],
     [Threads(3, {3}) EXCEPT !.same_core = TRUE, !.stale_acks = TRUE]}
=============================================================================
