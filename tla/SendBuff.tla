------------------------------ MODULE SendBuff ------------------------------
(***************************************************************************)
(* The send buffer of one established stream (tcp_send_buff.c) and what    *)
(* drives it: an application thread puts messages into it (_q_tcp_send),   *)
(* the stack thread flushes it, retransmits and removes what the peer has  *)
(* acknowledged (tcp_out.c, tcp_in.c, timer.h).  No lock protects it.      *)
(*                                                                         *)
(* A message waits in usnd_q, or in husnd_q when its priority is high,     *)
(* goes to uack_list when it is sent and to retrans_list when it is taken  *)
(* to be lost.  Sequence numbers are given when a message is sent: a       *)
(* message of high priority overtakes the others.                          *)
(*                                                                         *)
(* The network may lose, duplicate and reorder segments and acks.  The     *)
(* peer keeps whole segments and sends no data of its own; its window and  *)
(* the congestion window are one number, chosen anew for every flush.      *)
(***************************************************************************)
EXTENDS SeqArith, MbufList, FiniteSetsExt

CONSTANTS
    MaxPuts,        \* bound: the messages sent in all
    Lens,           \* their lengths
    Priorities,     \* their priorities, 0 or 1
    QueueSize,      \* the messages usnd_q and husnd_q hold: STATIC_BUFF_SIZE - 1
    EventSize,      \* the entries of a send event queue
    InitSeq,        \* the first sequence number
    InitWnd,        \* TCP_INIT_CWND, the first value of snd_wnd
    MaxRtx,         \* TCP_MAX_RTX
    DupSpace,       \* 2^8, the width of dup_acks
    Modes           \* the ways to run: whether the two threads are coroutines of one
                    \* core, whether old acks may arrive after newer ones, the size
                    \* of the buffer in bytes, and the windows for a flush: values of
                    \* MAX(MIN(cwnd, peer_wnd), SEND_WINDOW_MIN), no less than a message

MaxLen == CHOOSE l \in Lens : \A k \in Lens : k <= l

ASSUME SendBuffAssumption ==
    /\ MaxPuts * MaxLen < SeqSpace \div 2
    /\ Lens \subseteq Nat \ {0}
    /\ Priorities \subseteq {0, 1}
    /\ \A m \in Modes : /\ {m.same_core, m.stale_acks} \subseteq BOOLEAN
                        /\ m.size \in Nat /\ \A w \in m.windows : w >= MaxLen

VARIABLES
    mode,                           \* a member of Modes, chosen once
    state,                          \* ESTABLISHED, or CLOSED after MaxRtx
    usnd_q, husnd_q,                \* messages not yet sent
    uack_list, retrans_list,        \* sent and not acked; to be sent again
    head_seq, next_seq,             \* of the send buffer
    snd_nxt, snd_una, snd_wnd,      \* of the stream
    msg,                            \* the fields of every message
    puts,                           \* the number of messages made so far
    apc, mbuf, ret,                 \* the application thread and its variables
    spc, cur, window, ack_seq,      \* the stack thread and its variables
    wnd,                            \* per thread: the snd_wnd it is about to store
    events,                         \* entries of the stream in the send event queues
    on_rto, nrtx,                   \* the retransmission timer
    last_ack_seq, dup_acks,         \* duplicate acks
    freed,                          \* the messages freed
    dropped, refused,               \* history: messages popped outside the window; numbered
                                    \* and refused by a full queue
    wire, rcvd, acks                \* sent segments, those received, acks sent

buffVars == <<usnd_q, husnd_q, uack_list, retrans_list, head_seq, next_seq>>
seqVars == <<snd_nxt, snd_una>>
timerVars == <<on_rto, nrtx>>
dupVars == <<last_ack_seq, dup_acks>>
appVars == <<apc, mbuf, ret, puts>>
stackVars == <<spc, cur, window, ack_seq>>
netVars == <<wire, rcvd, acks>>
histVars == <<dropped, refused>>
vars == <<mode, state, buffVars, seqVars, snd_wnd, msg, appVars, stackVars, wnd, events, timerVars,
          dupVars, freed, netVars, histVars>>

Msgs == 1 .. MaxPuts
None == 0

(* buff->size, from CONFIG.sndbuf_size *)
BuffSize == mode.size

sb_len == SeqDiff(next_seq, head_seq)
Room == SeqDiff(BuffSize, sb_len)
Smaller(a, b) == IF a < b THEN a ELSE b

MsgEnd(m) == SeqAdd(msg[m].seq, msg[m].len)

(* send_event_enqueue: FAILED of a full queue is ignored by every caller. *)
OneMoreEvent == Smaller(events + 1, EventSize)

CanReset == uack_list # <<>> /\ retrans_list = <<>>

\* Slip for InOneList: the old list is kept.
ResetKeepsUack ==
    /\ uack_list' = uack_list
    /\ retrans_list' = IF CanReset THEN uack_list ELSE retrans_list

(* What sb_reset_retrans makes of the two lists. *)
sb_reset_retrans ==
    /\ uack_list' = IF CanReset THEN mbuf_list_init ELSE uack_list
    /\ retrans_list' = IF CanReset THEN uack_list ELSE retrans_list

Init ==
    /\ mode \in Modes
    /\ state = "ESTABLISHED"
    /\ usnd_q = mbufq_init /\ husnd_q = mbufq_init
    /\ uack_list = mbuf_list_init /\ retrans_list = mbuf_list_init
    /\ head_seq = InitSeq /\ next_seq = InitSeq
    /\ snd_nxt = InitSeq /\ snd_una = InitSeq /\ snd_wnd = InitWnd
    /\ msg = [m \in Msgs |-> [len |-> 0, priority |-> 0, seq |-> 0]]
    /\ puts = 0 /\ apc = "idle" /\ mbuf = None /\ ret = 0
    /\ spc = "idle" /\ cur = None /\ window = 0 /\ ack_seq = InitSeq
    /\ wnd = [stack |-> 0, app |-> 0]
    /\ events = 0
    /\ on_rto = FALSE /\ nrtx = 0
    /\ last_ack_seq = InitSeq /\ dup_acks = 0
    /\ freed = {} /\ dropped = {} /\ refused = {}
    /\ wire = {} /\ rcvd = {} /\ acks = {InitSeq}

-----------------------------------------------------------------------------
(* The application thread: _q_tcp_send, send_from_user, sb_put. *)

_q_tcp_send(len, priority) ==
    /\ apc = "idle"
    /\ mode.same_core => spc = "idle"
    /\ state = "ESTABLISHED"
    /\ puts < MaxPuts
    /\ puts' = puts + 1
    /\ mbuf' = puts + 1
    /\ msg' = [msg EXCEPT ![puts + 1].len = len, ![puts + 1].priority = priority]
    /\ apc' = "test"
    /\ UNCHANGED <<state, buffVars, seqVars, snd_wnd, ret, stackVars, wnd, events, timerVars,
                   dupVars, freed, netVars, histVars, mode>>

send_from_user ==
    /\ apc = "test"
    /\ IF snd_wnd = 0 THEN apc' = "done" /\ ret' = -2 ELSE apc' = "put" /\ UNCHANGED ret
    /\ UNCHANGED <<state, buffVars, seqVars, snd_wnd, msg, mbuf, puts, stackVars, wnd, events,
                   timerVars, dupVars, freed, netVars, histVars, mode>>

(* How much fits: the stack may move head_seq on afterwards. *)
sb_put ==
    /\ apc = "put"
    /\ ret' = IF Room = 0 THEN -2 ELSE Smaller(msg[mbuf].len, Room)
    /\ apc' = IF Room = 0 THEN "wnd" ELSE "seq"
    /\ UNCHANGED <<state, buffVars, seqVars, snd_wnd, msg, mbuf, puts, stackVars, wnd, events,
                   timerVars, dupVars, freed, netVars, histVars, mode>>

sb_put_seq ==
    /\ apc = "seq"
    /\ msg' = [msg EXCEPT ![mbuf].len = ret, ![mbuf].seq = next_seq]
    /\ next_seq' = SeqAdd(next_seq, ret)
    /\ apc' = "enqueue"
    /\ UNCHANGED <<state, usnd_q, husnd_q, uack_list, retrans_list, head_seq, seqVars, snd_wnd,
                   mbuf, ret, puts, stackVars, wnd, events, timerVars, dupVars, freed, netVars,
                   histVars, mode>>

sb_put_enqueue ==
    LET q == IF msg[mbuf].priority = 0 THEN usnd_q ELSE husnd_q
    IN  /\ apc = "enqueue"
        /\ IF msg[mbuf].priority = 0
             THEN usnd_q' = mbufq_enqueue(usnd_q, mbuf, QueueSize) /\ UNCHANGED husnd_q
             ELSE husnd_q' = mbufq_enqueue(husnd_q, mbuf, QueueSize) /\ UNCHANGED usnd_q
        /\ ret' = IF Len(q) = QueueSize THEN -2 ELSE ret
        /\ refused' = IF Len(q) = QueueSize THEN refused \cup {mbuf} ELSE refused
        /\ apc' = "wnd"
        /\ UNCHANGED <<state, uack_list, retrans_list, head_seq, next_seq, seqVars, snd_wnd, msg,
                       mbuf, puts, stackVars, wnd, events, timerVars, dupVars, freed, netVars,
                       dropped, mode>>

send_wnd ==
    /\ apc = "wnd"
    /\ wnd' = [wnd EXCEPT !.app = Room]
    /\ apc' = "store"
    /\ UNCHANGED <<state, buffVars, seqVars, snd_wnd, msg, mbuf, ret, puts, stackVars, events,
                   timerVars, dupVars, freed, netVars, histVars, mode>>

send_store ==
    /\ apc = "store"
    /\ snd_wnd' = wnd.app
    /\ wnd' = [wnd EXCEPT !.app = 0]
    /\ apc' = "done"
    /\ UNCHANGED <<state, buffVars, seqVars, msg, mbuf, ret, puts, stackVars, events, timerVars,
                   dupVars, freed, netVars, histVars, mode>>

(* The end of _q_tcp_send: a send event, or q_free_mbuf(core_id, mbuf),    *)
(* which dereferences the core number as its qapp_t argument.              *)
q_send_end ==
    /\ apc = "done"
    /\ IF ret > 0
         THEN events' = OneMoreEvent /\ apc' = "idle" /\ mbuf' = None /\ ret' = 0
         ELSE apc' = "crashed" /\ UNCHANGED <<events, mbuf, ret>>
    /\ UNCHANGED <<state, buffVars, seqVars, snd_wnd, msg, puts, stackVars, wnd, timerVars,
                   dupVars, freed, netVars, histVars, mode>>

-----------------------------------------------------------------------------
(* The stack thread sends: write_tcp_send_queue, flush_tcp_sending_buffer. *)

StackIdle == spc = "idle" /\ (mode.same_core => apc \in {"idle", "crashed"})

flush_tcp_sending_buffer ==
    /\ StackIdle /\ state = "ESTABLISHED"
    /\ events > 0
    /\ events' = events - 1
    /\ window' \in mode.windows
    /\ spc' = IF sb_len = 0 THEN "idle" ELSE "pop"
    /\ UNCHANGED <<state, buffVars, seqVars, snd_wnd, msg, appVars, cur, ack_seq, wnd, timerVars,
                   dupVars, freed, netVars, histVars, mode>>

(* Retransmissions first, then messages of high priority. *)
flush_pop ==
    /\ spc = "pop"
    /\ IF TCP_SEQ_LT(snd_nxt, head_seq)
         THEN spc' = "idle" /\ UNCHANGED <<cur, retrans_list, husnd_q>>
         ELSE IF retrans_list # <<>>
         THEN /\ spc' = "send" /\ cur' = Head(retrans_list)
              /\ retrans_list' = mbuf_list_pop(retrans_list) /\ UNCHANGED husnd_q
         ELSE IF husnd_q # <<>>
         THEN /\ spc' = "send" /\ cur' = Head(husnd_q)
              /\ husnd_q' = mbufq_dequeue(husnd_q) /\ UNCHANGED retrans_list
         ELSE spc' = "low" /\ UNCHANGED <<cur, retrans_list, husnd_q>>
    /\ UNCHANGED <<state, usnd_q, uack_list, head_seq, next_seq, seqVars, snd_wnd, msg, appVars,
                   window, ack_seq, wnd, events, timerVars, dupVars, freed, netVars, histVars, mode>>

flush_low ==
    /\ spc = "low"
    /\ IF usnd_q = <<>>
         THEN spc' = "idle" /\ UNCHANGED <<cur, usnd_q>>
         ELSE spc' = "send" /\ cur' = Head(usnd_q) /\ usnd_q' = mbufq_dequeue(usnd_q)
    /\ UNCHANGED <<state, husnd_q, uack_list, retrans_list, head_seq, next_seq, seqVars, snd_wnd,
                   msg, appVars, window, ack_seq, wnd, events, timerVars, dupVars, freed,
                   netVars, histVars, mode>>

(* The message goes out under the number snd_nxt.  Outside the window it   *)
(* is in no list any more: only the send event is made again.              *)
send_tcp_packet ==
    /\ spc = "send"
    /\ IF TCP_SEQ_GT(SeqAdd(snd_nxt, msg[cur].len), SeqAdd(snd_una, window))
         THEN /\ events' = OneMoreEvent
              /\ dropped' = dropped \cup {cur}
              /\ spc' = "idle"
              /\ UNCHANGED <<uack_list, snd_nxt, msg, on_rto, wire>>
         ELSE /\ msg' = [msg EXCEPT ![cur].seq = snd_nxt]
              /\ snd_nxt' = SeqAdd(snd_nxt, msg[cur].len)
              /\ uack_list' = mbuf_list_append(uack_list, cur)
              /\ on_rto' = TRUE
              /\ wire' = wire \cup {[seq |-> snd_nxt, len |-> msg[cur].len, id |-> cur]}
              /\ spc' = "pop"
              /\ UNCHANGED <<events, dropped>>
    /\ cur' = None
    /\ UNCHANGED <<state, usnd_q, husnd_q, retrans_list, head_seq, next_seq, snd_una, snd_wnd,
                   appVars, window, ack_seq, wnd, nrtx, dupVars, freed, rcvd, acks, refused, mode>>

(* sb_free, when the stream is destroyed: husnd_q is not among the things  *)
(* it empties, so that messages of high priority that were not sent stay.  *)
sb_free ==
    /\ freed' = freed \cup mbufq_clear(usnd_q) \cup mbuf_list_free(uack_list)
                      \cup mbuf_list_free(retrans_list)
    /\ usnd_q' = mbufq_init
    /\ uack_list' = mbuf_list_init /\ retrans_list' = mbuf_list_init

\* Slip for SameBytesSameNumbers: the numbers are not taken back.
RtoKeepsNxt ==
    /\ StackIdle /\ state = "ESTABLISHED"
    /\ on_rto
    /\ on_rto' = FALSE
    /\ nrtx < MaxRtx
    /\ nrtx' = nrtx + 1
    /\ sb_reset_retrans
    /\ events' = OneMoreEvent
    /\ UNCHANGED <<state, snd_nxt, usnd_q, husnd_q, head_seq, next_seq, snd_una, snd_wnd, msg,
                   appVars, stackVars, wnd, dupVars, freed, netVars, histVars, mode>>

(* rto_list_check and handle_rto: the stream leaves the rto list; after    *)
(* MaxRtx times it is destroyed.                                           *)
handle_rto ==
    /\ StackIdle /\ state = "ESTABLISHED"
    /\ on_rto
    /\ on_rto' = FALSE
    /\ IF nrtx < MaxRtx
         THEN /\ nrtx' = nrtx + 1
              /\ snd_nxt' = snd_una
              /\ sb_reset_retrans
              /\ events' = OneMoreEvent
              /\ UNCHANGED <<state, usnd_q, freed>>
         ELSE state' = "CLOSED" /\ sb_free /\ UNCHANGED <<nrtx, snd_nxt, events>>
    /\ UNCHANGED <<husnd_q, head_seq, next_seq, snd_una, snd_wnd, msg, appVars,
                   stackVars, wnd, dupVars, netVars, histVars, mode>>

-----------------------------------------------------------------------------
(* The stack thread takes an ack: process_tcp_ack, sb_remove_acked. *)

process_tcp_ack(ack) ==
    LET dup == TCP_SEQ_LT(ack, snd_nxt) /\ ack = last_ack_seq
        dups == IF dup THEN (dup_acks + 1) % DupSpace ELSE 0
        fast == dup /\ dups = 3
    IN  /\ StackIdle /\ state = "ESTABLISHED"
        /\ ~ TCP_SEQ_GT(ack, next_seq)
        /\ dup_acks' = dups
        /\ last_ack_seq' = ack
        /\ IF fast
             THEN sb_reset_retrans /\ events' = OneMoreEvent /\ nrtx' = Smaller(nrtx + 1, MaxRtx)
             ELSE UNCHANGED <<uack_list, retrans_list, events, nrtx>>
        /\ snd_nxt' = IF fast \/ TCP_SEQ_GT(ack, snd_nxt) THEN ack ELSE snd_nxt
        /\ ack_seq' = ack
        /\ spc' = IF TCP_SEQ_GEQ(head_seq, ack) THEN "idle" ELSE "remove"
        /\ UNCHANGED <<state, usnd_q, husnd_q, head_seq, next_seq, snd_una, snd_wnd, msg, appVars,
                       cur, window, wnd, on_rto, freed, netVars, histVars, mode>>

Acked(list) == list # <<>> /\ TCP_SEQ_LEQ(MsgEnd(Head(list)), ack_seq)

(* One turn of the loops of sb_remove_acked: uack_list, then retrans_list. *)
sb_remove_acked ==
    /\ spc = "remove"
    /\ \/ /\ Acked(uack_list)
          /\ head_seq' = SeqAdd(head_seq, msg[Head(uack_list)].len)
          /\ freed' = freed \cup {Head(uack_list)}
          /\ uack_list' = mbuf_list_pop(uack_list)
          /\ UNCHANGED retrans_list
       \/ /\ ~ Acked(uack_list) /\ Acked(retrans_list)
          /\ head_seq' = SeqAdd(head_seq, msg[Head(retrans_list)].len)
          /\ freed' = freed \cup {Head(retrans_list)}
          /\ retrans_list' = mbuf_list_pop(retrans_list)
          /\ UNCHANGED uack_list
    /\ UNCHANGED <<state, usnd_q, husnd_q, next_seq, seqVars, snd_wnd, msg, appVars, stackVars,
                   wnd, events, timerVars, dupVars, netVars, histVars, mode>>

(* snd_una, and the new snd_wnd is computed. *)
ack_wnd ==
    /\ spc = "remove"
    /\ ~ Acked(uack_list) /\ ~ Acked(retrans_list)
    /\ snd_una' = ack_seq
    /\ wnd' = [wnd EXCEPT !.stack = Room]
    /\ spc' = "store"
    /\ UNCHANGED <<state, buffVars, snd_nxt, snd_wnd, msg, appVars, cur, window, ack_seq, events,
                   timerVars, dupVars, freed, netVars, histVars, mode>>

\* Slips for NeverStuck and RoomExact: the timer is always stopped; snd_wnd is
\* not stored.
StoreStopsTimer ==
    /\ spc = "store"
    /\ snd_wnd' = wnd.stack
    /\ wnd' = [wnd EXCEPT !.stack = 0]
    /\ on_rto' = FALSE
    /\ nrtx' = IF on_rto THEN 0 ELSE nrtx
    /\ spc' = "idle"
    /\ UNCHANGED <<state, buffVars, seqVars, msg, appVars, cur, window, ack_seq, events, dupVars,
                   freed, netVars, histVars, mode>>

StoreKeepsWnd ==
    /\ spc = "store"
    /\ wnd' = [wnd EXCEPT !.stack = 0]
    /\ on_rto' = (snd_nxt # ack_seq)
    /\ nrtx' = IF on_rto THEN 0 ELSE nrtx
    /\ spc' = "idle"
    /\ UNCHANGED <<state, buffVars, seqVars, snd_wnd, msg, appVars, cur, window, ack_seq, events,
                   dupVars, freed, netVars, histVars, mode>>

(* rto_list_remove, or rto_list_update; both reset nrtx if the stream was  *)
(* on the list.                                                            *)
ack_store ==
    /\ spc = "store"
    /\ snd_wnd' = wnd.stack
    /\ wnd' = [wnd EXCEPT !.stack = 0]
    /\ on_rto' = (snd_nxt # ack_seq)
    /\ nrtx' = IF on_rto THEN 0 ELSE nrtx
    /\ spc' = "idle"
    /\ UNCHANGED <<state, buffVars, seqVars, msg, appVars, cur, window, ack_seq, events, dupVars,
                   freed, netVars, histVars, mode>>

-----------------------------------------------------------------------------
(* The peer and the network. *)

(* The number of the first byte the peer misses, having got the segments r. *)
PeerNext(r) ==
    LET covered == UNION {SeqBytes(s.seq, s.len) : s \in r}
        n == CHOOSE k \in 0 .. SeqSpace \div 2 :
                 /\ SeqBytes(InitSeq, k) \subseteq covered
                 /\ SeqAdd(InitSeq, k) \notin covered
    IN  SeqAdd(InitSeq, n)

peer_receive(s) ==
    /\ rcvd' = rcvd \cup {s}
    /\ acks' = acks \cup {PeerNext(rcvd')}
    /\ UNCHANGED <<state, buffVars, seqVars, snd_wnd, msg, appVars, stackVars, wnd, events,
                   timerVars, dupVars, freed, wire, histVars, mode>>

Newest == {a \in acks : \A b \in acks : TCP_SEQ_LEQ(b, a)}

-----------------------------------------------------------------------------
App ==
    \/ \E len \in Lens, priority \in Priorities : _q_tcp_send(len, priority)
    \/ send_from_user \/ sb_put \/ sb_put_seq \/ sb_put_enqueue
    \/ send_wnd \/ send_store \/ q_send_end

Stack ==
    \/ flush_tcp_sending_buffer \/ flush_pop \/ flush_low \/ send_tcp_packet
    \/ handle_rto
    \/ \E ack \in (IF mode.stale_acks THEN acks ELSE Newest) : process_tcp_ack(ack)
    \/ sb_remove_acked \/ ack_wnd \/ ack_store

Peer == \E s \in wire \ rcvd : peer_receive(s)

Next == App \/ Stack \/ Peer

Spec == Init /\ [][Next]_vars

-----------------------------------------------------------------------------
Quiet == spc = "idle" /\ apc \in {"idle", "crashed"}

(* The messages _q_tcp_send has put into the buffer, and those it holds. *)
Accepted == {m \in 1 .. puts : m = mbuf => apc \in {"wnd", "store", "done"} /\ ret > 0}
Lists == usnd_q \o husnd_q \o uack_list \o retrans_list
Kept == ToSet(Lists) \cup ({cur} \ {None})

(* A message that had been sent was dropped: snd_nxt stays at its numbers. *)
Renumbered == \E s \in wire : s.id \in dropped

(* "uack_list: mbufs have been sent out but not acked, retrans_list: mbufs *)
(* to be retransed": a message in the buffer is in exactly one of its      *)
(* lists until sb_remove_acked frees it, or until the flush meets it       *)
(* outside the window and drops it.  As long as the stream lives a message *)
(* is freed only when the peer has it (it cannot be sent again), unless    *)
(* the message dropped was a retransmission: the next one then takes over  *)
(* its numbers.                                                            *)
InOneList ==
    /\ Accepted \subseteq Kept \cup freed \cup dropped
    /\ Len(Lists) = Cardinality(ToSet(Lists))
    /\ Kept \cap (freed \cup dropped \cup refused) = {} /\ freed \cap (dropped \cup refused) = {}
    /\ state = "ESTABLISHED" /\ ~ Renumbered => \A m \in freed : \E s \in rcvd : s.id = m

(* A byte has one sequence number: flush_tcp_sending_buffer gives numbers  *)
(* anew at every (re)transmission, from snd_nxt, and still a message is    *)
(* always sent under the same numbers, no two messages share one, and      *)
(* messages of low priority keep the order in which they were put, as long *)
(* as no retransmission was dropped.                                       *)
SameBytesSameNumbers ==
    ~ Renumbered => \A s, t \in wire :
        IF s.id = t.id THEN s = t
        ELSE /\ SeqBytes(s.seq, s.len) \cap SeqBytes(t.seq, t.len) = {}
             /\ msg[s.id].priority = 0 /\ msg[t.id].priority = 0 /\ s.id < t.id =>
                    TCP_SEQ_LT(s.seq, t.seq)

(* Nobody waits for ever: whatever is in the buffer, a send event is       *)
(* pending, the retransmission timer is running, or the application is     *)
(* about to raise the event.  Acks that overtake each other can count as   *)
(* duplicates and take snd_nxt behind head_seq, where the flush gives up:  *)
(* new messages then wait for an ack and for another send event; so may    *)
(* what is left after a retransmission was dropped.                        *)
NeverStuck ==
    state = "ESTABLISHED" /\ spc = "idle" /\ ~ mode.stale_acks /\ ~ Renumbered =>
        /\ uack_list \o retrans_list # <<>> => on_rto \/ events > 0
        /\ usnd_q \o husnd_q # <<>> => events > 0 \/ apc \in {"wnd", "store", "done"}

(* sb_len is "the length of data stored in the snd_buff (data not acked)", *)
(* and between the calls of coroutines snd_wnd is the room in the buffer:  *)
(* a smaller value makes q_send refuse data although there is room.  The   *)
(* bytes of messages that were dropped, or numbered and refused, take up   *)
(* room until the stream ends.                                             *)
RoomExact ==
    /\ state = "ESTABLISHED" /\ Quiet =>
          sb_len = MapThenSumSet(LAMBDA m : msg[m].len, Kept \cup dropped \cup refused)
    /\ mode.same_core /\ Quiet /\ puts > 0 => snd_wnd = Room
=============================================================================
