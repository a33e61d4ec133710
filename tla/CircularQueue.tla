--------------------------- MODULE CircularQueue ---------------------------
(***************************************************************************)
(* struct circular_queue (tools/src/include/circular_queue.h) in the       *)
(* SIMPLE_HEADTAIL build: a ring of Size slots shared without a lock by    *)
(* one producer thread (cirq_add) and one consumer thread (cirq_get,       *)
(* cirq_prefetch).  Every access to shared memory is a step of its own:    *)
(* the test of the other side's index, the access to the slot, the update  *)
(* of the own index.  dir_cirq_add and dir_cirq_get are the same code on   *)
(* a ring embedded in the structure (Size = STATIC_BUFF_SIZE).             *)
(***************************************************************************)
EXTENDS Naturals, Sequences

CONSTANTS
    Size,       \* q->size
    Items,      \* the pointers that are enqueued
    NULL

ASSUME SizeAssumption == Size \in Nat \ {0}
ASSUME NullAssumption == NULL \notin Items

VARIABLES
    queue,      \* q->queue: the slots
    head,       \* q->head: index ready to insert, written by the producer only
    tail,       \* q->tail: index ready to get, written by the consumer only
    ppc,        \* where the producer is in cirq_add
    item,       \* the producer's argument
    aret,       \* the result of the producer's last call
    cpc,        \* where the consumer is in cirq_get or cirq_prefetch
    ret,        \* the consumer's local variable ret
    gret        \* the result of the consumer's last call

prodVars == <<ppc, item, aret>>
consVars == <<cpc, ret, gret>>
vars == <<queue, head, tail, ppc, item, aret, cpc, ret, gret>>

Index == 0 .. Size - 1

\* Slip for NoSlotRace: the index does not wrap.
FullNoWrap == head + 1 = tail

cirq_succ(p) == (p + 1) % Size
cirq_full == cirq_succ(head) = tail
cirq_empty == head = tail
cirq_count == IF head >= tail THEN head - tail ELSE head + Size - tail

(* cirq_init: calloc leaves the slots NULL. *)
Init ==
    /\ queue = [i \in Index |-> NULL]
    /\ head = 0
    /\ tail = 0
    /\ ppc = "idle" /\ item = NULL /\ aret = "none"
    /\ cpc = "idle" /\ ret = NULL /\ gret = NULL

-----------------------------------------------------------------------------
(* The producer: cirq_add, dir_cirq_add. *)

cirq_add_test(it) ==
    /\ ppc = "idle"
    /\ IF cirq_full
         THEN aret' = "FAILED" /\ UNCHANGED <<ppc, item>>
         ELSE ppc' = "store" /\ item' = it /\ UNCHANGED aret
    /\ UNCHANGED <<queue, head, tail, consVars>>

cirq_add_store ==
    /\ ppc = "store"
    /\ queue' = [queue EXCEPT ![head] = item]
    /\ ppc' = "publish"
    /\ UNCHANGED <<head, tail, item, aret, consVars>>

cirq_add_publish ==
    /\ ppc = "publish"
    /\ head' = cirq_succ(head)
    /\ ppc' = "idle"
    /\ aret' = "SUCCESS"
    /\ UNCHANGED <<queue, tail, item, consVars>>

-----------------------------------------------------------------------------
(* The consumer: cirq_get, dir_cirq_get, cirq_prefetch. *)

(* A plausible slip: the test for an empty ring is left out. *)
GetUntested ==
    /\ cpc = "idle"
    /\ cpc' = "load"
    /\ UNCHANGED <<queue, head, tail, ret, gret, prodVars>>

cirq_get_test ==
    /\ cpc = "idle"
    /\ IF cirq_empty
         THEN gret' = NULL /\ UNCHANGED cpc
         ELSE cpc' = "load" /\ UNCHANGED gret
    /\ UNCHANGED <<queue, head, tail, ret, prodVars>>

cirq_get_load ==
    /\ cpc = "load"
    /\ ret' = queue[tail]
    /\ cpc' = "advance"
    /\ UNCHANGED <<queue, head, tail, gret, prodVars>>

cirq_get_advance ==
    /\ cpc = "advance"
    /\ tail' = cirq_succ(tail)
    /\ gret' = ret
    /\ cpc' = "idle"
    /\ UNCHANGED <<queue, head, ret, prodVars>>

cirq_prefetch_test ==
    /\ cpc = "idle"
    /\ IF cirq_empty
         THEN gret' = NULL /\ UNCHANGED cpc
         ELSE cpc' = "peek" /\ UNCHANGED gret
    /\ UNCHANGED <<queue, head, tail, ret, prodVars>>

cirq_prefetch_load ==
    /\ cpc = "peek"
    /\ gret' = queue[tail]
    /\ cpc' = "idle"
    /\ UNCHANGED <<queue, head, tail, ret, prodVars>>

-----------------------------------------------------------------------------
Producer ==
    \/ \E it \in Items : cirq_add_test(it)
    \/ cirq_add_store
    \/ cirq_add_publish

Consumer ==
    \/ cirq_get_test
    \/ cirq_get_load
    \/ cirq_get_advance
    \/ cirq_prefetch_test
    \/ cirq_prefetch_load

Next == Producer \/ Consumer

Spec == Init /\ [][Next]_vars

-----------------------------------------------------------------------------
(* Type correctness of the ring: both indices stay inside q->queue. *)
TypeOK ==
    /\ queue \in [Index -> Items \cup {NULL}]
    /\ head \in Index
    /\ tail \in Index
    /\ ppc \in {"idle", "store", "publish"}
    /\ item \in Items \cup {NULL}
    /\ aret \in {"none", "SUCCESS", "FAILED"}
    /\ cpc \in {"idle", "load", "advance", "peek"}
    /\ ret \in Items \cup {NULL}
    /\ gret \in Items \cup {NULL}

(* The lock-free discipline of cirq_add and cirq_get: while the producer is *)
(* about to store to its slot, the consumer is not reading that slot, so   *)
(* the unsynchronised accesses to q->queue[] never race.                   *)
NoSlotRace ==
    ~ (ppc = "store" /\ cpc \in {"load", "peek"} /\ head = tail)

(* The items in the ring, oldest first: the slots from tail up to head. *)
Contents == [i \in 1 .. cirq_count |-> queue[(tail + i - 1) % Size]]

(* The ring implements the bounded queue of capacity Size - 1: cirq_add    *)
(* takes effect when it publishes head, cirq_get when it advances tail,    *)
(* and FAILED and NULL are exact when the index of the other side is read. *)
Fifo == INSTANCE BoundedFifo WITH Capacity <- Size - 1, fifo <- Contents
ImplementsFifo == Fifo!FifoSpec
=============================================================================
