------------------------------ MODULE RecvBuff ------------------------------
(***************************************************************************)
(* The receive buffer of one established stream (tcp_recv_buff.c), shared  *)
(* by the stack thread (process_tcp_payload, rb_put) and an application    *)
(* thread (q_recv, rb_get, q_free_mbuf) without a lock.                    *)
(*                                                                         *)
(* A segment waits in merged_q (in order), in ooo_list (ahead of a gap)    *)
(* and, when its priority is high, also in high_q, which the application   *)
(* reads first.  The mbuf's fields mbuf_state and holding tell the two     *)
(* queues which of them hands the mbuf out and which one frees it.         *)
(*                                                                         *)
(* One operation on a ring is one step (CircularQueue implements           *)
(* BoundedFifo); every other access to a shared field is a step as well.   *)
(***************************************************************************)
EXTENDS OooList

CONSTANTS
    Mbufs,          \* the mbufs of the receive pool
    NULL,
    RingSize,       \* STATIC_BUFF_SIZE: a ring holds RingSize - 1 mbufs
    InitWindow,     \* TCP_INITIAL_WINDOW
    InitSeq,        \* the first sequence number
    Lens,           \* their payload lengths
    MaxEvents,      \* bound: no segment arrives while so many events wait
    Modes           \* the ways to run: whether the two threads are coroutines of one
                    \* core, where segments arrive, relative to rcv_nxt, their
                    \* priorities, 0 or 1, the size of the buffer in bytes, and a
                    \* bound, the bytes the peer sends in all

ASSUME RecvBuffAssumption ==
    /\ NULL \notin Mbufs
    /\ \A m \in Modes : m.priorities \subseteq {0, 1} /\ m.same_core \in BOOLEAN
                        /\ m.size \in Nat /\ m.bytes < SeqSpace \div 2

VARIABLES
    mode,                       \* a member of Modes, chosen once
    d_queue, q_head, q_tail,    \* buff->merged_q
    high_q,                     \* buff->high_q
    ooo_list,                   \* buff->ooo_list, a sequence of mbufs
    head_seq, merged_next,      \* buff->head_seq, buff->merged_next
    rcv_nxt, rcv_wnd,           \* of the stream
    mb,                         \* the fields of every mbuf
    pool,                       \* the free mbufs
    spc, cur, ret, prev,        \* the stack thread and its local variables
    apc, got,                   \* the application thread and its local variable
    wnd,                        \* per thread: the window it is about to store
    events,                     \* read events the application has not handled
    delivered,                  \* history: the bytes q_recv handed out
    lost,                       \* history: mbufs taken in that no queue holds
    untold,                     \* history: the mbufs merged without an event of their own
    faults                      \* history: what went wrong, and the steps that cause it

ringVars == <<d_queue, q_head, q_tail>>
stackVars == <<spc, cur, ret, prev>>
appVars == <<apc, got>>
buffVars == <<high_q, ooo_list, head_seq, merged_next, rcv_nxt, rcv_wnd>>
histVars == <<delivered, lost, untold, faults>>
vars == <<mode, ringVars, buffVars, mb, pool, stackVars, appVars, wnd, events, histVars>>

Index == 0 .. RingSize - 1
MbufType ==
    [seq : SeqNum, len : Lens \cup {0}, priority : {0, 1}, holding : {0, 1},
     state : {"FREE", "RCVED", "RBUFFED", "RREAD"}]

Segment(m) == [seq |-> mb[m].seq, len |-> mb[m].len]
Segments(list) == [i \in DOMAIN list |-> Segment(list[i])]
Bytes(m) == SeqBytes(mb[m].seq, mb[m].len)

\* Slip for AckedIsKept: the ring is full one slot early.
FullOneEarly == (q_head + 2) % RingSize = q_tail

(* merged_q, the ring with its slots: d_queue and the indices. *)
dir_cirq_succ(p) == (p + 1) % RingSize
dir_cirq_full == dir_cirq_succ(q_head) = q_tail
dir_cirq_empty == q_head = q_tail
MergedLen == (q_head - q_tail) % RingSize
MergedAt(i) == d_queue[(q_tail + i) % RingSize]
merged_q == {MergedAt(i) : i \in 0 .. MergedLen - 1}

high_full == Len(high_q) = RingSize - 1

(* buff->size, from CONFIG.rcvbuf_size *)
BuffSize == mode.size

(* rb_merged_len, and the window both threads compute from it.  BuffSize   *)
(* less a length is a 32-bit difference.                                   *)
rb_merged_len == SeqDiff(merged_next, head_seq)
Window == SeqDiff(BuffSize, rb_merged_len)

(* Once an mbuf is back in the pool although it is still needed, other     *)
(* streams may be given it: the model finishes the packet and the call at  *)
(* hand and begins no other.                                               *)
Sound == faults \cap {"double free", "freed in use", "freed unread", "wrong head"} = {}

(* History: fault has happened if cond holds; only the first is noted. *)
Noted(fault, cond) == IF cond /\ Sound THEN {fault} ELSE {}

(* mbuf_free, with the out-of-order list of that moment and the faults the *)
(* caller has noticed.                                                     *)
mbuf_free(m, list, noticed) ==
    /\ mb' = [mb EXCEPT ![m].state = "FREE"]
    /\ pool' = pool \cup {m}
    /\ faults' = faults \cup noticed \cup Noted("double free", m \in pool)
                 \cup Noted("freed in use", m \in merged_q \cup Range(high_q) \cup Range(list))

(* rb_init on a new stream *)
Init ==
    /\ mode \in Modes
    /\ d_queue = [i \in Index |-> NULL] /\ q_head = 0 /\ q_tail = 0
    /\ high_q = mbufq_init
    /\ ooo_list = mbuf_list_init
    /\ head_seq = InitSeq /\ merged_next = InitSeq
    /\ rcv_nxt = InitSeq /\ rcv_wnd = InitWindow
    /\ mb = [m \in Mbufs |-> [seq |-> 0, len |-> 0, priority |-> 0, holding |-> 0,
                              state |-> "FREE"]]
    /\ pool = Mbufs
    /\ spc = "idle" /\ cur = NULL /\ ret = 0 /\ prev = InitSeq
    /\ apc = "idle" /\ got = NULL /\ wnd = [stack |-> 0, app |-> 0]
    /\ events = 0
    /\ delivered = {} /\ lost = {} /\ untold = 0
    /\ faults = {}

-----------------------------------------------------------------------------
\* Slips in the steps below, one operator each; none is in Next: the state is
\* not set (DeliveredExactly), no event for a single mbuf (NothingStranded), the
\* window is not stored (WindowExact), holding is not looked at (MbufsExact).

PutLeavesState ==
    /\ spc = "done"
    /\ spc' = "window"
    /\ UNCHANGED <<ringVars, buffVars, mb, pool, cur, ret, prev, appVars, wnd, events, histVars,
                   mode>>

NoEventForOne ==
    /\ spc = "event"
    /\ events' = events + mb[cur].priority + (IF ret > 1 THEN 1 ELSE 0)
    /\ spc' = "check"
    /\ UNCHANGED <<ringVars, buffVars, mb, pool, cur, ret, prev, appVars, wnd, histVars, mode>>

WindowNotStored ==
    /\ apc = "store"
    /\ wnd' = [wnd EXCEPT !.app = 0]
    /\ apc' = IF got = NULL THEN "idle" ELSE "free"
    /\ UNCHANGED <<ringVars, buffVars, mb, pool, stackVars, got, events, histVars, mode>>

FreeIgnoresHolding ==
    /\ apc = "free"
    /\ mbuf_free(got, ooo_list, {})
    /\ got' = NULL
    /\ apc' = "idle"
    /\ UNCHANGED <<ringVars, buffVars, stackVars, wnd, events, delivered, lost, untold, mode>>

-----------------------------------------------------------------------------
(* The stack thread: process_tcp_payload and rb_put. *)

(* A segment that passes check_sequence_validation and the two tests at    *)
(* the head of process_tcp_payload; every other one is freed by the main   *)
(* loop and leaves the stream as it is.                                    *)
process_tcp_payload(m, offset, len, priority) ==
    LET seq == SeqAdd(rcv_nxt, offset)
        end == SeqAdd(seq, len)
    IN  /\ spc = "idle"
        /\ mode.same_core => apc = "idle"
        /\ m \in pool
        /\ SeqDiff(seq, InitSeq) + len <= mode.bytes
        /\ events < MaxEvents /\ Sound
        /\ TCP_SEQ_GT(end, rcv_nxt)
        /\ TCP_SEQ_LEQ(end, SeqAdd(rcv_nxt, rcv_wnd))
        /\ mb' = [mb EXCEPT ![m].seq = seq, ![m].len = len, ![m].priority = priority,
                            ![m].state = "RCVED"]
        /\ pool' = pool \ {m}
        /\ cur' = m
        /\ prev' = rcv_nxt
        /\ lost' = lost \ {m}
        /\ spc' = "put"
        /\ UNCHANGED <<ringVars, buffVars, ret, appVars, wnd, events, delivered, untold, faults,
                       mode>>

(* rb_put: the test against head_seq, which the application moves. *)
rb_put_begin ==
    /\ spc = "put"
    /\ IF TCP_SEQ_GT(SegEnd(mb[cur]), SeqAdd(head_seq, BuffSize))
         THEN ret' = -2 /\ spc' = "window" /\ UNCHANGED mb
         ELSE /\ mb' = [mb EXCEPT ![cur].holding = 0]
              /\ spc' = IF mb[cur].priority = 1 THEN "high" ELSE "merge"
              /\ UNCHANGED ret
    /\ UNCHANGED <<ringVars, buffVars, pool, cur, prev, appVars, wnd, events, histVars, mode>>

rb_put_high ==
    /\ spc = "high"
    /\ spc' = IF high_full THEN "merge" ELSE "hold"
    /\ high_q' = mbufq_enqueue(high_q, cur, RingSize - 1)
    /\ faults' = faults \cup Noted("full high_q", high_full)
    /\ UNCHANGED <<ringVars, ooo_list, head_seq, merged_next, rcv_nxt, rcv_wnd, mb, pool,
                   cur, ret, prev, appVars, wnd, events, delivered, lost, untold, mode>>

rb_put_hold ==
    /\ spc = "hold"
    /\ mb' = [mb EXCEPT ![cur].holding = 1, ![cur].state = "RBUFFED"]
    /\ spc' = "merge"
    /\ UNCHANGED <<ringVars, buffVars, pool, cur, ret, prev, appVars, wnd, events, histVars, mode>>

(* The segment merged_next waits for.  FAILED (-2) of a full ring is as    *)
(* true as SUCCESS, so merged_next moves on in either case.                *)
rb_put_merged ==
    /\ spc = "merge"
    /\ mb[cur].seq = merged_next
    /\ IF dir_cirq_full
         THEN UNCHANGED ringVars
         ELSE /\ d_queue' = [d_queue EXCEPT ![q_head] = cur]
              /\ q_head' = dir_cirq_succ(q_head)
              /\ UNCHANGED q_tail
    /\ lost' = IF MergedLen = RingSize - 1 THEN lost \cup {cur} ELSE lost
    /\ ret' = 1
    /\ spc' = "next"
    /\ UNCHANGED <<buffVars, mb, pool, cur, prev, appVars, wnd, events, delivered, untold, faults,
                   mode>>

rb_put_next ==
    /\ spc = "next"
    /\ merged_next' = SegEnd(mb[cur])
    /\ spc' = "ooo"
    /\ UNCHANGED <<ringVars, high_q, ooo_list, head_seq, rcv_nxt, rcv_wnd, mb, pool, cur,
                   ret, prev, appVars, wnd, events, histVars, mode>>

(* One turn of the loop of try_merge_ooo.  cirq_add stores through         *)
(* q->queue, which in a ring embedded in the structure shares its memory   *)
(* with d_queue[0]: the slot at head keeps its old content.  FAILED is     *)
(* true here as well.                                                      *)
try_merge_ooo ==
    /\ spc = "ooo"
    /\ OooReady(Segments(ooo_list), merged_next)
    /\ ooo_list' = mbuf_list_pop(ooo_list)
    /\ LET m == Head(ooo_list)
       IN  IF mb[m].seq # merged_next
             THEN mbuf_free(m, mbuf_list_pop(ooo_list), {}) /\ UNCHANGED <<q_head, merged_next, ret, lost, untold>>
             ELSE /\ q_head' = IF dir_cirq_full THEN q_head ELSE dir_cirq_succ(q_head)
                  /\ ret' = IF mb[m].priority = 0 THEN ret + 1 ELSE ret
                  /\ untold' = IF mb[m].priority = 0 THEN untold ELSE untold + 1
                  /\ merged_next' = SegEnd(mb[m])
                  /\ lost' = lost \cup {m}
                  /\ faults' = faults \cup Noted("stale slot", ~ dir_cirq_full)
                  /\ UNCHANGED <<mb, pool>>
    /\ UNCHANGED <<d_queue, q_tail, high_q, head_seq, rcv_nxt, rcv_wnd, spc, cur, prev,
                   appVars, wnd, events, delivered, mode>>

try_merge_ooo_end ==
    /\ spc = "ooo"
    /\ ~ OooReady(Segments(ooo_list), merged_next)
    /\ spc' = "done"
    /\ UNCHANGED <<ringVars, buffVars, mb, pool, cur, ret, prev, appVars, wnd, events, histVars,
                   mode>>

(* A segment ahead of a gap, or a duplicate of one that waits there.  The  *)
(* swapped arguments at the head make mbuf_list_add_head write over the    *)
(* buf_addr of the mbuf and over a word of the stream behind ooo_list:     *)
(* what the stack thread does from there is undefined.                     *)
rb_put_ooo ==
    /\ spc = "merge"
    /\ mb[cur].seq # merged_next
    /\ LET place == OooPlace(Segments(ooo_list), Segment(cur))
       IN  IF place = 0
             THEN ret' = -2 /\ spc' = "window" /\ UNCHANGED ooo_list
             ELSE /\ ret' = 0
                  /\ spc' = IF OooAtHead(ooo_list, place) THEN "undefined" ELSE "done"
                  /\ ooo_list' = ooo_insert(ooo_list, place, cur)
    /\ lost' = IF ret' = -2 /\ mb[cur].holding = 1 THEN lost \cup {cur} ELSE lost
    /\ faults' = faults \cup Noted("stray high", mb[cur].priority = 1)
    /\ UNCHANGED <<ringVars, high_q, head_seq, merged_next, rcv_nxt, rcv_wnd, mb, pool, cur,
                   prev, appVars, wnd, events, delivered, untold, mode>>

rb_put_end ==
    /\ spc = "done"
    /\ mb' = IF mb[cur].priority = 0 THEN [mb EXCEPT ![cur].state = "RBUFFED"] ELSE mb
    /\ spc' = "window"
    /\ UNCHANGED <<ringVars, buffVars, pool, cur, ret, prev, appVars, wnd, events, histVars, mode>>

(* The rest of process_tcp_payload: rcv_nxt and the window. *)
payload_window ==
    /\ spc = "window"
    /\ rcv_nxt' = merged_next
    /\ wnd' = [wnd EXCEPT !.stack = Window]
    /\ spc' = "store"
    /\ UNCHANGED <<ringVars, high_q, ooo_list, head_seq, merged_next, rcv_wnd, mb, pool, cur,
                   ret, prev, appVars, events, histVars, mode>>

payload_store ==
    /\ spc = "store"
    /\ rcv_wnd' = wnd.stack
    /\ wnd' = [wnd EXCEPT !.stack = 0]
    /\ spc' = "event"
    /\ UNCHANGED <<ringVars, high_q, ooo_list, head_seq, merged_next, rcv_nxt, mb, pool, cur,
                   ret, prev, appVars, events, histVars, mode>>

(* One event for a high-priority mbuf, one for what else became readable,  *)
(* none when a low-priority segment did not move rcv_nxt.                  *)
payload_event ==
    LET high == mb[cur].priority
        low == IF ret - high > 0 THEN 1 ELSE 0
    IN  /\ spc = "event"
        /\ events' = IF TCP_SEQ_LEQ(rcv_nxt, prev) /\ high = 0 THEN events
                     ELSE events + high + low
        /\ untold' = untold + (IF ret - high > 1 THEN ret - high - 1 ELSE 0)
        /\ spc' = "check"
        /\ UNCHANGED <<ringVars, buffVars, mb, pool, cur, ret, prev, appVars, wnd, delivered, lost,
                       faults, mode>>

(* What rb_get frees, and what is counted as merged, is taken to have been *)
(* read before it is free.                                                 *)
FreedUnread(m) == Noted("freed unread", ~ (Bytes(m) \subseteq delivered))

(* The main loop frees what is still in state RCVED. *)
recv_loop_end ==
    /\ spc = "check"
    /\ IF mb[cur].state = "RCVED"
         THEN mbuf_free(cur, ooo_list, IF TCP_SEQ_LEQ(SegEnd(mb[cur]), merged_next)
                                         THEN FreedUnread(cur) ELSE {})
         ELSE UNCHANGED <<mb, pool, faults>>
    /\ cur' = NULL /\ ret' = 0 /\ prev' = InitSeq
    /\ spc' = "idle"
    /\ UNCHANGED <<ringVars, buffVars, appVars, wnd, events, delivered, lost, untold, mode>>

-----------------------------------------------------------------------------
(* The application thread: one q_recv for each read event, then            *)
(* q_free_mbuf (HandleReadEvent of the applications).                      *)

q_recv ==
    /\ apc = "idle"
    /\ mode.same_core => spc = "idle"
    /\ events > 0 /\ Sound
    /\ events' = events - 1
    /\ apc' = "high"
    /\ UNCHANGED <<ringVars, buffVars, mb, pool, stackVars, got, wnd, histVars, mode>>

try_get_high_mbuf ==
    /\ apc = "high"
    /\ IF high_q = <<>>
         THEN apc' = "merged" /\ UNCHANGED <<high_q, got>>
         ELSE apc' = "hstate" /\ got' = Head(high_q) /\ high_q' = mbufq_dequeue(high_q)
    /\ UNCHANGED <<ringVars, ooo_list, head_seq, merged_next, rcv_nxt, rcv_wnd, mb, pool,
                   stackVars, wnd, events, histVars, mode>>

(* "the mbuf has been processed, just free it" *)
rb_get_free(m) ==
    mbuf_free(m, ooo_list, FreedUnread(m) \cup Noted("early free", m = cur /\ mb[m].state = "RCVED"))

high_mbuf_state ==
    /\ apc = "hstate"
    /\ IF mb[got].state = "RBUFFED"
         THEN /\ apc' = IF mb[got].seq = head_seq THEN "hmerged" ELSE "read"
              /\ UNCHANGED <<mb, pool, faults, got>>
         ELSE /\ rb_get_free(got)
              /\ got' = NULL
              /\ apc' = "high"
    /\ UNCHANGED <<ringVars, buffVars, stackVars, wnd, events, delivered, lost, untold, mode>>

(* The mbuf should be the head of merged_q as well: remove it there. *)
high_mbuf_merged ==
    /\ apc = "hmerged"
    /\ apc' = "read"
    /\ q_tail' = IF dir_cirq_empty THEN q_tail ELSE dir_cirq_succ(q_tail)
    /\ IF dir_cirq_empty \/ d_queue[q_tail] = NULL
         THEN UNCHANGED <<head_seq, mb, lost, faults>>
         ELSE /\ head_seq' = SeqAdd(head_seq, mb[got].len)
              /\ mb' = [mb EXCEPT ![got].holding = 0]
              /\ lost' = lost \cup ({d_queue[q_tail]} \ {got})
              /\ faults' = faults \cup Noted("wrong head", d_queue[q_tail] # got)
    /\ UNCHANGED <<d_queue, q_head, high_q, ooo_list, merged_next, rcv_nxt, rcv_wnd, pool,
                   stackVars, got, wnd, events, delivered, untold, mode>>

try_get_merged_mbuf ==
    /\ apc = "merged"
    /\ IF dir_cirq_empty
         THEN got' = NULL /\ UNCHANGED q_tail
         ELSE got' = d_queue[q_tail] /\ q_tail' = dir_cirq_succ(q_tail)
    /\ apc' = IF got' = NULL THEN "window" ELSE "mstate"
    /\ UNCHANGED <<d_queue, q_head, buffVars, mb, pool, stackVars, wnd, events, histVars, mode>>

merged_mbuf_state ==
    /\ apc = "mstate"
    /\ head_seq' = SeqAdd(head_seq, mb[got].len)
    /\ IF mb[got].state = "RBUFFED"
         THEN apc' = "read" /\ UNCHANGED <<mb, pool, faults, got>>
         ELSE /\ rb_get_free(got)
              /\ got' = NULL
              /\ apc' = "merged"
    /\ UNCHANGED <<ringVars, high_q, ooo_list, merged_next, rcv_nxt, rcv_wnd, stackVars, wnd,
                   events, delivered, lost, untold, mode>>

(* The bytes before s that have been accepted from the peer. *)
Earlier(s) == SeqBytes(InitSeq, SeqDiff(s, InitSeq))

LostBytes == UNION {Bytes(m) : m \in lost}

(* q_recv hands the mbuf to the application. *)
q_recv_read ==
    /\ apc = "read"
    /\ mb' = [mb EXCEPT ![got].state = "RREAD"]
    /\ delivered' = delivered \cup Bytes(got)
    /\ faults' = faults
         \cup Noted("delivered twice", Bytes(got) \cap delivered # {})
         \cup Noted("out of order", mb[got].priority = 0 /\
                      ~ (Earlier(mb[got].seq) \subseteq delivered \cup LostBytes))
    /\ apc' = "window"
    /\ UNCHANGED <<ringVars, buffVars, pool, stackVars, got, wnd, events, lost, untold, mode>>

q_recv_window ==
    /\ apc = "window"
    /\ wnd' = [wnd EXCEPT !.app = Window]
    /\ apc' = "store"
    /\ UNCHANGED <<ringVars, buffVars, mb, pool, stackVars, got, events, histVars, mode>>

q_recv_store ==
    /\ apc = "store"
    /\ rcv_wnd' = wnd.app
    /\ wnd' = [wnd EXCEPT !.app = 0]
    /\ apc' = IF got = NULL THEN "idle" ELSE "free"
    /\ UNCHANGED <<ringVars, high_q, ooo_list, head_seq, merged_next, rcv_nxt, mb, pool,
                   stackVars, got, events, histVars, mode>>

q_free_mbuf ==
    /\ apc = "free"
    /\ IF mb[got].priority = 1 /\ mb[got].holding = 1
         THEN mb' = [mb EXCEPT ![got].holding = 0] /\ UNCHANGED <<pool, faults>>
         ELSE mbuf_free(got, ooo_list, {})
    /\ got' = NULL
    /\ apc' = "idle"
    /\ UNCHANGED <<ringVars, buffVars, stackVars, wnd, events, delivered, lost, untold, mode>>

-----------------------------------------------------------------------------
(* The mbufs that wait in high_q and in merged_q or ooo_list. *)
HeldTwice == Range(high_q) \cap (merged_q \cup Range(ooo_list))

(* tcp_stream_destroy of a stream the application has closed and reads no  *)
(* more.  An mbuf that waits in merged_q and in high_q is given to         *)
(* mbuf_free by both loops.                                                *)
rb_clear ==
    /\ spc = "idle" /\ apc = "idle"
    /\ LET all == (merged_q \ {NULL}) \cup mbuf_list_free(ooo_list) \cup mbufq_clear(high_q)
       IN  /\ mb' = [m \in Mbufs |-> IF m \in all THEN [mb[m] EXCEPT !.state = "FREE"] ELSE mb[m]]
           /\ pool' = pool \cup all
    /\ faults' = faults \cup Noted("cleared twice", HeldTwice # {})
    /\ q_tail' = q_head /\ high_q' = mbufq_init /\ ooo_list' = mbuf_list_init
    /\ spc' = "destroyed" /\ apc' = "closed"
    /\ UNCHANGED <<d_queue, q_head, head_seq, merged_next, rcv_nxt, rcv_wnd, cur, ret, prev, got,
                   wnd, events, delivered, lost, untold, mode>>

-----------------------------------------------------------------------------
Stack ==
    \/ \E m \in Mbufs, offset \in mode.offsets, len \in Lens, priority \in mode.priorities :
           process_tcp_payload(m, offset, len, priority)
    \/ rb_put_begin \/ rb_put_high \/ rb_put_hold \/ rb_put_merged \/ rb_put_next
    \/ try_merge_ooo \/ try_merge_ooo_end \/ rb_put_ooo \/ rb_put_end
    \/ payload_window \/ payload_store \/ payload_event \/ recv_loop_end
    \/ rb_clear

App ==
    \/ q_recv \/ try_get_high_mbuf \/ high_mbuf_state \/ high_mbuf_merged
    \/ try_get_merged_mbuf \/ merged_mbuf_state \/ q_recv_read
    \/ q_recv_window \/ q_recv_store \/ q_free_mbuf

Next == Stack \/ App

Spec == Init /\ [][Next]_vars

-----------------------------------------------------------------------------
(* Types of the buffer, of the mbufs and of the two threads. *)
TypeOK ==
    /\ d_queue \in [Index -> Mbufs \cup {NULL}]
    /\ q_head \in Index /\ q_tail \in Index
    /\ high_q \in Seq(Mbufs) /\ Len(high_q) <= RingSize - 1
    /\ ooo_list \in Seq(Mbufs)
    /\ {head_seq, merged_next, rcv_nxt, rcv_wnd, prev, wnd.stack, wnd.app} \subseteq SeqNum
    /\ mb \in [Mbufs -> MbufType]
    /\ pool \subseteq Mbufs
    /\ {cur, got} \subseteq Mbufs \cup {NULL}
    /\ ret \in Int
    /\ events \in Nat

Quiet == spc = "idle" /\ apc = "idle"

(* The bytes the stack has acknowledged: those before rcv_nxt. *)
Acked == Earlier(rcv_nxt)

(* The mbufs rb_get still finds, or has found and not yet handed out. *)
Readable == (merged_q \ {NULL}) \cup Range(high_q) \cup
            (IF apc \in {"hstate", "hmerged", "mstate", "read"} THEN {got} ELSE {})

(* fault has only happened if one of the causes has happened before. *)
OnlyBy(fault, causes) == fault \in faults => faults \cap causes # {}

(* rb_put and rb_get: a byte that was acknowledged to the peer (which      *)
(* forgets it) has been read or is still in the buffer, until the stream   *)
(* is destroyed.  The only acknowledged bytes nobody will read are those   *)
(* of mbufs that rb_put counted as merged although merged_q was full, that *)
(* try_merge_ooo added without storing them, or that were taken from       *)
(* merged_q in place of another.                                           *)
AckedIsKept ==
    Sound /\ spc # "destroyed" =>
        \A b \in Acked : b \in delivered \cup LostBytes \/ \E m \in Readable : b \in Bytes(m)

(* Ownership through mbuf_state and holding: an mbuf that sits in two      *)
(* queues is freed by exactly one of rb_get, q_free_mbuf, the main loop    *)
(* and, if it waits in no more than one of them, rb_clear, never while a   *)
(* queue or the application still refers to it; between packets and calls  *)
(* every mbuf is in the pool, in a queue or was lost as AckedIsKept says.  *)
(* Only a slot that try_merge_ooo did not write, a high-priority segment   *)
(* out of order, and one that finds high_q full make a free go wrong.      *)
MbufsExact ==
    /\ OnlyBy("double free", {"stale slot"})
    /\ OnlyBy("freed in use", {"stale slot", "stray high", "full high_q"})
    /\ Sound => pool \cap (Range(high_q) \cup Range(ooo_list)) = {}
    /\ Sound /\ "stale slot" \notin faults => pool \cap (merged_q \cup {got}) = {}
    /\ Sound /\ (Quiet \/ spc = "destroyed") =>
          Mbufs = pool \cup (merged_q \ {NULL}) \cup Range(high_q) \cup Range(ooo_list) \cup lost

(* q_recv hands out every byte at most once although a high-priority mbuf  *)
(* waits in two queues, a low-priority one only after every byte before    *)
(* it that was not lost, and rb_get frees an mbuf ("the mbuf has been      *)
(* processed, just free it") only if the application has read it.  The     *)
(* exceptions: the application finds the mbuf between its entry into a     *)
(* queue and the store of its state, a slot was not written, high_q was    *)
(* full, or a high-priority segment was not the next one.                  *)
DeliveredExactly ==
    /\ OnlyBy("freed unread", {"early free", "stale slot", "full high_q"})
    /\ OnlyBy("delivered twice", {"stray high"})
    /\ "out of order" \notin faults

(* rb_put "return[s] the number of new available mbuf for the user": the   *)
(* bytes from head_seq to merged_next, out-of-order segments that were     *)
(* merged included, are in merged_q or have been read.                     *)
MergedIsAvailable ==
    Quiet => \A b \in SeqBytes(head_seq, rb_merged_len) :
                 b \in delivered \/ \E m \in merged_q \ {NULL} : b \in Bytes(m)

(* The out-of-order list is sorted and free of overlaps, also across the   *)
(* wrap-around of the sequence numbers (try_merge_ooo only looks at the    *)
(* head), and ooo_insert returns "FAILED (duplicate data segment)" exactly *)
(* for a segment that shares a byte with one that waits.                   *)
OooListExact ==
    /\ \A i, j \in DOMAIN ooo_list : i < j => Before(Segment(ooo_list[i]), Segment(ooo_list[j]))
    /\ spc = "merge" /\ mb[cur].seq # merged_next =>
          (OooPlace(Segments(ooo_list), Segment(cur)) = 0 <=>
             \E i \in DOMAIN ooo_list : Bytes(cur) \cap Bytes(ooo_list[i]) # {})

(* One read event per readable mbuf: an application that calls q_recv once *)
(* for every event leaves at most as many mbufs unread as try_merge_ooo    *)
(* has added beyond the one event raised for all of them.                  *)
Unread == Cardinality({i \in 0 .. MergedLen - 1 :
                          MergedAt(i) = NULL \/ mb[MergedAt(i)].state = "RBUFFED"})

NothingStranded == Quiet => Unread <= events + untold

(* The data in merged_q never exceed buff->size, whatever stale window the *)
(* threads leave in rcv_wnd; between the packets and calls of coroutines   *)
(* rcv_wnd is the room the buffer really has: a smaller value would hold   *)
(* the peer back for ever.                                                 *)
WindowExact ==
    /\ Sound /\ spc # "next" => rb_merged_len <= BuffSize
    /\ mode.same_core /\ Quiet /\ merged_next # InitSeq => rcv_wnd = Window
=============================================================================
