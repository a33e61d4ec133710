----------------------------- MODULE MCRecvBuff -----------------------------
(* Instances of RecvBuff for TLC. *)
EXTENDS RecvBuff, TLC

Coroutines(offsets, priorities, size, bytes) ==
    [same_core |-> TRUE, offsets |-> offsets, priorities |-> priorities, size |-> size,
     bytes |-> bytes]
Threads(offsets, priorities, size, bytes) ==
    [Coroutines(offsets, priorities, size, bytes) EXCEPT !.same_core = FALSE]

(* Threads: segments in order and old ones of low priority; segments in    *)
(* order of both priorities.  Coroutines: segments in order, ahead of a    *)
(* gap and closing it, of low and of both priorities; old ones of both     *)
(* priorities; and several gaps, in a buffer with room for them.           *)
ThreadsAndCoroutines ==
    {Threads({-1, 0}, {0}, 3, 5), Threads({0}, {0, 1}, 3, 4),
     Coroutines({0, 1, 2}, {0}, 3, 5), Coroutines({0, 1}, {0, 1}, 3, 4),
     Coroutines({-1, 0}, {0, 1}, 3, 3), Coroutines({1, 2, 3}, {0}, 4, 6)}
OneGap == {Coroutines({0, 1}, {0}, 3, 6)}

MbufSymmetry == Permutations(Mbufs)
=============================================================================
