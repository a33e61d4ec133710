------------------------------ MODULE MbufList ------------------------------
(***************************************************************************)
(* The containers of mbufs: the list linked through buf_next (mbuf.h) and  *)
(* the queue over a direct ring (mbuf_queue.h, DIRECT_CIRCULAR_QUEUE).     *)
(* Both are sequences; an operator gives the container the call leaves,    *)
(* and the mbuf a call returns is the Head of the one before.  What the    *)
(* two calls that empty a container give to mbuf_free is a set.            *)
(***************************************************************************)
EXTENDS SequencesExt

mbuf_list_init == <<>>

mbuf_list_pop(list) == IF list = <<>> THEN list ELSE Tail(list)

mbuf_list_append(list, mbuf) == Append(list, mbuf)

(* b2 behind the i-th mbuf of the list *)
mbuf_list_insert(list, i, b2) == InsertAt(list, i + 1, b2)

mbuf_list_free(list) == ToSet(list)

mbufq_init == <<>>

(* size: the mbufs the ring holds.  A full ring is left as it is. *)
mbufq_enqueue(q, mbuf, size) == IF Len(q) = size THEN q ELSE Append(q, mbuf)

mbufq_dequeue(q) == IF q = <<>> THEN q ELSE Tail(q)

mbufq_clear(q) == ToSet(q)
=============================================================================
