----------------------------- MODULE N21Queue ------------------------------
(***************************************************************************)
(* struct n21_queue (tools/src/include/n21_queue.h): N producers and one   *)
(* consumer.  Every producer owns one circular queue; the consumer walks   *)
(* over them from queue_point, one cirq_get per step, while the producers  *)
(* keep adding.  A circular queue is the bounded FIFO that CircularQueue   *)
(* implements, so one cirq_add or cirq_get is one step here.               *)
(*                                                                         *)
(* The build has N21Q_DEQUEUE_STRONG and no N21Q_PREFETCH: n21q_dequeue,   *)
(* n21q_dequeue_strong and the stream queues on top of them are            *)
(* __n21q_dequeue_strong; the message queue uses n21q_dequeue_local.       *)
(***************************************************************************)
EXTENDS Naturals, Sequences

CONSTANTS
    N,          \* q->queue_num
    Capacity,   \* the items one circular queue holds: its size - 1
    Items,
    NULL

ASSUME NAssumption == N \in Nat \ {0}
ASSUME CapacityAssumption == Capacity \in Nat
ASSUME NullAssumption == NULL \notin Items

VARIABLES
    dequeue,        \* which of the two dequeue functions the consumer uses
    queues,         \* q->queues, one FIFO per producer
    queue_point,    \* q->queue_point
    cpc,            \* "idle" between calls, "walk" inside the do-while loop
    start_point,    \* the consumer's local variable
    ret,            \* the result of the consumer's last call
    waiting,        \* history: the queues non-empty since the call began
    passed          \* history: items taken elsewhere while queue i had one

vars == <<dequeue, queues, queue_point, cpc, start_point, ret, waiting, passed>>

Queues == 0 .. N - 1

n21q_succ(p) == IF p + 1 = N THEN 0 ELSE p + 1

(* n21q_init *)
Init ==
    /\ dequeue \in {"strong", "local"}
    /\ queues = [i \in Queues |-> <<>>]
    /\ queue_point = 0
    /\ cpc = "idle"
    /\ start_point = 0
    /\ ret = NULL
    /\ waiting = {}
    /\ passed = [i \in Queues |-> 0]

(* A full queue makes cirq_add return FAILED and leaves everything as it is. *)
n21q_enqueue(q_id, item) ==
    /\ Len(queues[q_id]) < Capacity
    /\ queues' = [queues EXCEPT ![q_id] = Append(@, item)]
    /\ UNCHANGED <<dequeue, queue_point, cpc, start_point, ret, waiting, passed>>

n21q_dequeue_begin ==
    /\ cpc = "idle"
    /\ cpc' = "walk"
    /\ start_point' = queue_point
    /\ waiting' = {i \in Queues : queues[i] # <<>>}
    /\ UNCHANGED <<dequeue, queues, queue_point, ret, passed>>

(* The history of a successful cirq_get from queue k by the strong dequeue *)
(* (the local one passes a queue any number of times: nothing is counted). *)
NotePassed(k) ==
    passed' = [i \in Queues |->
                 IF i = k \/ queues[i] = <<>> \/ dequeue = "local" THEN 0 ELSE passed[i] + 1]

\* Slips for BoundedBypass and NullIsHonest: the dequeue stays on the queue it
\* found; the walk ends one queue early.
FoundStays ==
    /\ cpc = "walk"
    /\ queues[queue_point] # <<>>
    /\ ret' = Head(queues[queue_point])
    /\ queues' = [queues EXCEPT ![queue_point] = Tail(@)]
    /\ cpc' = "idle"
    /\ NotePassed(queue_point)
    /\ UNCHANGED <<dequeue, queue_point, start_point, waiting>>

NextEndsEarly ==
    /\ cpc = "walk"
    /\ queues[queue_point] = <<>>
    /\ queue_point' = n21q_succ(queue_point)
    /\ IF n21q_succ(queue_point') = start_point
         THEN cpc' = "idle" /\ ret' = NULL
         ELSE UNCHANGED <<cpc, ret>>
    /\ UNCHANGED <<dequeue, queues, start_point, waiting, passed>>

(* One turn of the loop that finds an item: it ends the call.  The strong  *)
(* dequeue moves on to the next queue, the local one stays.                *)
n21q_dequeue_found ==
    /\ cpc = "walk"
    /\ queues[queue_point] # <<>>
    /\ ret' = Head(queues[queue_point])
    /\ queues' = [queues EXCEPT ![queue_point] = Tail(@)]
    /\ queue_point' = IF dequeue = "strong" THEN n21q_succ(queue_point) ELSE queue_point
    /\ cpc' = "idle"
    /\ NotePassed(queue_point)
    /\ UNCHANGED <<dequeue, start_point, waiting>>

(* One turn that finds an empty queue: the walk ends where it began. *)
n21q_dequeue_next ==
    /\ cpc = "walk"
    /\ queues[queue_point] = <<>>
    /\ queue_point' = n21q_succ(queue_point)
    /\ IF queue_point' = start_point
         THEN cpc' = "idle" /\ ret' = NULL
         ELSE UNCHANGED <<cpc, ret>>
    /\ UNCHANGED <<dequeue, queues, start_point, waiting, passed>>

Consumer == n21q_dequeue_begin \/ n21q_dequeue_found \/ n21q_dequeue_next

Next ==
    \/ \E q_id \in Queues, item \in Items : n21q_enqueue(q_id, item)
    \/ Consumer

Spec == Init /\ [][Next]_vars

-----------------------------------------------------------------------------
(* Types of the queue and of the consumer's local variables. *)
TypeOK ==
    /\ dequeue \in {"strong", "local"}
    /\ queues \in [Queues -> Seq(Items)]
    /\ \A i \in Queues : Len(queues[i]) <= Capacity
    /\ queue_point \in Queues
    /\ cpc \in {"idle", "walk"}
    /\ start_point \in Queues
    /\ ret \in Items \cup {NULL}
    /\ waiting \subseteq Queues
    /\ passed \in [Queues -> Nat]

(* __n21q_dequeue_strong and n21q_dequeue_local: NULL is returned only if  *)
(* every queue was empty when the call began, although the producers add   *)
(* behind the walk: an item that was there when the consumer asked is      *)
(* never overlooked.                                                       *)
NullIsHonest ==
    [][cpc = "walk" /\ cpc' = "idle" /\ ret' = NULL => waiting = {}]_vars

(* Round robin of __n21q_dequeue_strong: while a queue has an item, at     *)
(* most N - 1 items of other queues are taken before its turn comes, so no *)
(* producer can push another aside.                                        *)
BoundedBypass ==
    dequeue = "strong" => \A i \in Queues : queues[i] # <<>> => passed[i] <= N - 1

=============================================================================
