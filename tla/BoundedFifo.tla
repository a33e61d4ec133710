---------------------------- MODULE BoundedFifo ----------------------------
(***************************************************************************)
(* What a circular queue promises to its one producer and its one          *)
(* consumer: every call behaves as one atomic operation on a first-in      *)
(* first-out queue of bounded capacity, and its result is exact (FAILED    *)
(* only when the queue is full, NULL only when it is empty).               *)
(***************************************************************************)
EXTENDS Naturals, Sequences

CONSTANTS
    Capacity,   \* the number of items the queue can hold
    Items,      \* what is enqueued: non-NULL pointers
    NULL        \* the result of a dequeue from an empty queue

VARIABLES
    fifo,       \* the items in the queue, oldest first
    aret,       \* the result of the producer's last call
    gret        \* the result of the consumer's last call

fifoVars == <<fifo, aret, gret>>

FifoInit ==
    /\ fifo = <<>>
    /\ aret = "none"
    /\ gret = NULL

Enqueue(it) ==
    /\ Len(fifo) < Capacity
    /\ fifo' = Append(fifo, it)
    /\ aret' = "SUCCESS"
    /\ UNCHANGED gret

EnqueueFull ==
    /\ Len(fifo) = Capacity
    /\ aret' = "FAILED"
    /\ UNCHANGED <<fifo, gret>>

Dequeue ==
    /\ fifo # <<>>
    /\ gret' = Head(fifo)
    /\ fifo' = Tail(fifo)
    /\ UNCHANGED aret

DequeueEmpty ==
    /\ fifo = <<>>
    /\ gret' = NULL
    /\ UNCHANGED <<fifo, aret>>

Peek ==
    /\ fifo # <<>>
    /\ gret' = Head(fifo)
    /\ UNCHANGED <<fifo, aret>>

FifoNext ==
    \/ \E it \in Items : Enqueue(it)
    \/ EnqueueFull
    \/ Dequeue
    \/ DequeueEmpty
    \/ Peek

FifoSpec == FifoInit /\ [][FifoNext]_fifoVars
=============================================================================
