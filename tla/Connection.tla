----------------------------- MODULE Connection -----------------------------
(***************************************************************************)
(* The life of a connection: the state machine of tcp_in.c, opening and    *)
(* closing by the application (api.c, core.c), the control queue and the   *)
(* send events (tcp_out.c), the timers (timer.h), and the creation and     *)
(* destruction of the stream (tcp_stream.c).                               *)
(*                                                                         *)
(* There is one stream block.  tcp_stream_destroy gives it back to the     *)
(* pool but leaves it in the control, close, send event and accept queues  *)
(* ("TODO: remove the stream from queues?"), so that a queue may hold a    *)
(* block that is free, or that is another connection by now.               *)
(*                                                                         *)
(* The main loop of the stack takes a bounded batch from every queue, and  *)
(* other streams may use it up: the steps of the stack come in any order.  *)
(*                                                                         *)
(* Abstractions: sequence numbers start at iss = 0 and do not wrap, a      *)
(* message has one byte, the window is always open and acks arrive in      *)
(* order (SendBuff has all of that); the peer sends no data (RecvBuff);    *)
(* pure acks change nothing in a stream, so the ack queue is left out.     *)
(***************************************************************************)
EXTENDS Naturals, Integers, Sequences

CONSTANTS
    MaxConns,       \* bound: the connections that use the block, in turn
    MaxData,        \* bound: the messages of the first connection; every later
                    \* one has one message fewer
    MaxRtx,         \* TCP_MAX_RTX
    MaxEvents       \* the entries of the send event queue

ASSUME ConnectionAssumption ==
    /\ MaxConns \in Nat /\ MaxData \in Nat
    /\ MaxRtx \in Nat /\ MaxEvents \in Nat \ {0}

VARIABLES
    s,              \* the block and the queues, see Block
    connect_queue,  \* a q_connect waits to be handled
    told,           \* the connection whose write or error event is pending, or 0
    app,            \* the connection the application holds, or 0
    apc             \* where in q_close the application is

vars == <<s, connect_queue, told, app, apc>>

Conns == 1 .. MaxConns
MaxSeq == MaxData + 3
States == {"CLOSED", "LISTEN", "SYN_SENT", "SYN_RCVD", "ESTABLISHED", "FIN_WAIT_1",
           "FIN_WAIT_2", "CLOSE_WAIT", "CLOSING", "LAST_ACK", "TIME_WAIT"}

Smaller(a, b) == IF a < b THEN a ELSE b

(* Beyond fss + 1 all values of snd_nxt compare alike: the FIN is counted  *)
(* at every retransmission.                                                *)
Count(n) == Smaller(n, MaxSeq)

(* The fields of the block, and what the stack keeps about it elsewhere. *)
Block ==
    [live : BOOLEAN,                \* allocated and in the hash table
     conn : 0 .. MaxConns,          \* which connection it is or was
     active : BOOLEAN,              \* opened by q_connect, without a listener
     state : States,
     closed : BOOLEAN, have_reset : BOOLEAN, on_closeq : BOOLEAN,
     is_fin_sent : BOOLEAN, fss : 0 .. MaxSeq,
     snd_nxt : 0 .. MaxSeq, snd_una : 0 .. MaxSeq,
     head_seq : 0 .. MaxSeq, next_seq : 0 .. MaxSeq,
     usnd : 0 .. MaxData, uack : 0 .. MaxData, retrans : 0 .. MaxData,
     nrtx : 0 .. MaxRtx,
     rcv_fin : BOOLEAN,             \* rcv_nxt is behind the FIN of the peer
     on_rto : BOOLEAN, on_timewait : BOOLEAN, on_timeout : BOOLEAN,
     tw_expired : BOOLEAN,          \* ts_tw_expire is in the past
     on_control_queue : BOOLEAN,
     control_queue : 0 .. MaxConns, close_queue : 0 .. MaxConns,
     send_events : 0 .. MaxEvents, acceptq : Seq(Conns),
     full : BOOLEAN,                \* other streams fill the control queue
     refused : SUBSET {"control", "close"},  \* history: the queues that refused it
     wire : SUBSET (0 .. MaxSeq),   \* history: the numbers sent
     up : BOOLEAN]                  \* the process has neither crashed nor exited

Init ==
    /\ s = [live |-> FALSE, conn |-> 0, active |-> FALSE, state |-> "CLOSED",
            closed |-> FALSE, have_reset |-> FALSE, on_closeq |-> FALSE,
            is_fin_sent |-> FALSE, fss |-> 0, snd_nxt |-> 0, snd_una |-> 0,
            head_seq |-> 0, next_seq |-> 0, usnd |-> 0, uack |-> 0, retrans |-> 0,
            nrtx |-> 0, rcv_fin |-> FALSE,
            on_rto |-> FALSE, on_timewait |-> FALSE, on_timeout |-> FALSE,
            tw_expired |-> FALSE, on_control_queue |-> FALSE, control_queue |-> 0,
            close_queue |-> 0, send_events |-> 0, acceptq |-> <<>>, full |-> FALSE,
            refused |-> {}, wire |-> {}, up |-> TRUE]
    /\ connect_queue = FALSE /\ told = 0
    /\ app = 0 /\ apc = "idle"

-----------------------------------------------------------------------------
(* Timers (timer.h, with TCP_SIMPLE_RTO) and queues.  Each operator is the *)
(* effect of one C function on the block x.                                *)

rto_list_add(x) == [x EXCEPT !.on_rto = @ \/ ~ x.on_timewait]

rto_list_remove(x) ==
    IF x.on_rto THEN [x EXCEPT !.on_rto = FALSE, !.nrtx = 0] ELSE x

rto_list_update(x) == rto_list_add(rto_list_remove(x))

\* Slip for OneTimerList: the stream stays on the rto list.
TimewaitKeepsRto(x) == [x EXCEPT !.on_timewait = TRUE, !.tw_expired = FALSE]

(* The five seconds start again, also of a stream that is on the list. *)
timewait_list_add(x) ==
    [rto_list_remove(x) EXCEPT !.on_timewait = TRUE, !.tw_expired = FALSE]

timewait_list_remove(x) == [x EXCEPT !.on_timewait = FALSE]

(* The timeout list has a link of its own. *)
timeout_list_add(x) == [x EXCEPT !.on_timeout = TRUE]

timeout_list_remove(x) == [x EXCEPT !.on_timeout = FALSE]

(* The control queue of the stack, as the number of its entries for the    *)
(* block.  It has fewer entries than the stack has streams, and the others *)
(* may have taken all of them: the stream is then refused, and none of the *)
(* callers looks at the result.                                            *)
sstreamq_enqueue(x) ==
    IF x.full THEN [x EXCEPT !.refused = @ \cup {"control"}]
    ELSE [x EXCEPT !.control_queue = @ + 1, !.refused = @ \ {"control"}]

sstreamq_dequeue(x) == [x EXCEPT !.control_queue = @ - 1]

control_queue_add(x) ==
    IF x.on_control_queue THEN x
    ELSE [sstreamq_enqueue(x) EXCEPT !.on_control_queue = ~ x.full]

(* send_event_add and send_event_enqueue: a full queue refuses the event. *)
send_event_enqueue(x) == [x EXCEPT !.send_events = Smaller(@ + 1, MaxEvents)]

(* All messages of uack_list become messages to be sent again. *)
sb_reset_retrans(x) ==
    IF x.uack = 0 \/ x.retrans > 0 THEN x
    ELSE [x EXCEPT !.retrans = x.uack, !.uack = 0]

(* uack_list first, then retrans_list; never both have messages here,      *)
(* since the window is always open.                                        *)
sb_remove_acked(x, ack_seq) ==
    LET n == ack_seq - x.head_seq
        u == Smaller(n, x.uack)
    IN  [x EXCEPT !.head_seq = ack_seq, !.uack = @ - u, !.retrans = @ - (n - u)]

sb_len(x) == x.next_seq - x.head_seq

-----------------------------------------------------------------------------
(* tcp_stream.c *)

(* memset, then sb_init: struct tcp_send_vars is cleared. *)
SendVarsCleared(x) ==
    [x EXCEPT !.on_closeq = FALSE, !.is_fin_sent = FALSE, !.fss = 0, !.snd_una = 0,
              !.head_seq = 1, !.next_seq = 1, !.usnd = 0, !.uack = 0, !.retrans = 0,
              !.nrtx = 0, !.on_control_queue = FALSE, !.refused = {}, !.wire = {}]

(* And so is the rest of the block.  The queues are not part of it. *)
tcp_stream_create(x) ==
    [SendVarsCleared(x) EXCEPT
        !.live = TRUE, !.conn = @ + 1, !.active = FALSE, !.state = "LISTEN",
        !.closed = FALSE, !.have_reset = FALSE, !.snd_nxt = 0, !.rcv_fin = FALSE,
        !.on_rto = FALSE, !.on_timewait = FALSE, !.on_timeout = FALSE, !.tw_expired = FALSE]

(* Everything else of the block stays as it is, the state included; the    *)
(* history ends.                                                           *)
tcp_stream_destroy(x) ==
    [rto_list_remove(timewait_list_remove(timeout_list_remove(x)))
        EXCEPT !.live = FALSE, !.usnd = 0, !.uack = 0, !.retrans = 0,
               !.wire = {}, !.refused = {}]

Destroyed(x) == tcp_stream_destroy([x EXCEPT !.state = "CLOSED"])

-----------------------------------------------------------------------------
(* tcp_out.c *)

(* SYN takes the number snd_nxt, FIN the number fss. *)
SendSyn(x) == rto_list_add([x EXCEPT !.snd_nxt = Count(@ + 1), !.wire = @ \cup {x.snd_nxt}])

SendFin(x) ==
    rto_list_add([x EXCEPT !.is_fin_sent = TRUE, !.snd_nxt = Count(@ + 1),
                           !.wire = @ \cup {x.fss}])

(* In the states that are not named an ack is sent, or nothing (CLOSED). *)
send_tcp_control_packet(x) ==
    CASE x.state = "SYN_SENT" -> SendSyn(x)
      [] x.state = "SYN_RCVD" -> SendSyn([x EXCEPT !.snd_nxt = 0])
      [] x.state \in {"LAST_ACK", "FIN_WAIT_1"} -> SendFin(x)
      [] x.state = "CLOSING" /\ (~ x.is_fin_sent \/ x.snd_nxt = x.fss) -> SendFin(x)
      [] OTHER -> x

(* What flush_tcp_sending_buffer sends: retrans_list, then the new ones. *)
Flushed(x) ==
    IF x.is_fin_sent \/ sb_len(x) = 0 \/ x.snd_nxt < x.head_seq THEN 0
    ELSE x.retrans + x.usnd

flush_tcp_sending_buffer(x) ==
    rto_list_add([x EXCEPT !.uack = @ + Flushed(x), !.retrans = 0, !.usnd = 0,
                           !.snd_nxt = Count(@ + Flushed(x)),
                           !.wire = @ \cup (x.snd_nxt .. x.snd_nxt + Flushed(x) - 1)])

(* An entry without the flag is an old one: another entry was served, or   *)
(* the block was cleared since.                                            *)
write_tcp_control_queue(x) ==
    LET y == sstreamq_dequeue(x)
    IN  IF x.on_control_queue
          THEN send_tcp_control_packet([y EXCEPT !.on_control_queue = FALSE])
          ELSE y

(* The queue for events of high priority is looked at before the other;    *)
(* the block does not tell the two apart.                                  *)
get_from_send_queue(x) == [x EXCEPT !.send_events = @ - 1]

write_tcp_send_queue(x) ==
    LET y == get_from_send_queue(x)
    IN  IF x.state \in {"ESTABLISHED", "CLOSE_WAIT", "FIN_WAIT_1", "LAST_ACK"} /\ Flushed(x) > 0
          THEN flush_tcp_sending_buffer(y)
          ELSE control_queue_add(y)

(* An answer for which there is no stream: TRACE_EXIT. *)
send_tcp_packet_standalone(x) == [x EXCEPT !.up = FALSE]

-----------------------------------------------------------------------------
(* handle_rto: destroyed after MaxRtx times, sent again otherwise. *)
Retransmit(x) ==
    LET y == [x EXCEPT !.nrtx = @ + 1, !.snd_nxt = x.snd_una]
    IN  IF \/ x.state = "ESTABLISHED"
           \/ x.state \in {"FIN_WAIT_1", "CLOSING", "LAST_ACK"} /\ x.snd_una < x.fss
          THEN send_event_enqueue(sb_reset_retrans(y))
          ELSE control_queue_add(y)

handle_rto(x) ==
    LET y == [x EXCEPT !.on_rto = FALSE]
    IN  IF x.nrtx < MaxRtx THEN Retransmit(y) ELSE Destroyed(y)

-----------------------------------------------------------------------------
(* tcp_in.c.  A packet p has the flags syn, ack, fin and rst; seq is "old" *)
(* (before rcv_nxt), "next" or "ahead"; ack_seq counts as above, -1 if the *)
(* field holds no number; dup says that it is the third duplicate ack, and *)
(* room that the accept queue has room for the stream.                     *)

FastRetransmit(x, ack_seq) ==
    LET y == sb_reset_retrans([x EXCEPT !.snd_nxt = ack_seq, !.nrtx = Smaller(@ + 1, MaxRtx)])
    IN  send_event_enqueue(y)

Closing == {"FIN_WAIT_1", "FIN_WAIT_2", "CLOSING", "CLOSE_WAIT", "LAST_ACK"}

process_tcp_ack(x, p) ==
    LET a == IF x.state \in Closing /\ x.is_fin_sent /\ p.ack_seq = x.fss + 1
               THEN p.ack_seq - 1 ELSE p.ack_seq
        y == IF p.dup /\ a = x.head_seq /\ a < x.snd_nxt THEN FastRetransmit(x, a) ELSE x
        z == IF a > y.snd_nxt THEN [y EXCEPT !.snd_nxt = a] ELSE y
        w == [sb_remove_acked(z, a) EXCEPT !.snd_una = a]
    IN  IF a > x.next_seq THEN x
        ELSE IF a <= z.head_seq THEN z
        ELSE IF w.snd_nxt = a THEN rto_list_remove(w) ELSE rto_list_update(w)

(* A segment before rcv_nxt is answered; the answer of ESTABLISHED goes    *)
(* through the ack queue.                                                  *)
OldSegment(x, p) ==
    IF p.rst \/ x.state = "ESTABLISHED" THEN x
    ELSE control_queue_add(IF x.state = "TIME_WAIT" THEN timewait_list_add(x) ELSE x)

handle_rst(x, p) ==
    CASE x.state = "SYN_RCVD" -> IF p.ack_seq = x.snd_nxt THEN Destroyed(x) ELSE x
      [] x.state \in {"FIN_WAIT_1", "FIN_WAIT_2", "LAST_ACK", "CLOSING", "TIME_WAIT"} ->
           Destroyed(x)
      [] OTHER -> IF x.on_closeq THEN x ELSE [x EXCEPT !.state = "CLOSE_WAIT"]

Handle_TCP_ST_LISTEN(x, p) ==
    IF p.syn THEN control_queue_add([x EXCEPT !.state = "SYN_RCVD"]) ELSE x

handle_active_open(x, p) ==
    [rto_list_remove([x EXCEPT !.snd_nxt = p.ack_seq])
        EXCEPT !.nrtx = 0, !.state = "ESTABLISHED"]

\* Slip for NotForgotten: the opened stream is not put on the timeout list.
OpensUntimed(x, p) ==
    LET y == [x EXCEPT !.snd_una = IF p.ack THEN @ + 1 ELSE @]
    IN  IF p.ack /\ (p.ack_seq <= 0 \/ p.ack_seq > x.snd_nxt)
          THEN IF p.rst THEN x ELSE send_tcp_packet_standalone(x)
        ELSE IF p.rst THEN IF p.ack THEN [y EXCEPT !.state = "CLOSE_WAIT"] ELSE y
        ELSE IF ~ p.syn THEN y
        ELSE IF p.ack THEN control_queue_add(handle_active_open(y, p))
        ELSE control_queue_add([y EXCEPT !.state = "SYN_RCVD", !.snd_nxt = 0])

(* An ack that is not of the SYN is answered by a RST.  RST|ACK: "close wait" until  *)
(* the application closes.  SYN without ACK: simultaneous open.            *)
Handle_TCP_ST_SYN_SENT(x, p) ==
    LET y == [x EXCEPT !.snd_una = IF p.ack THEN @ + 1 ELSE @]
    IN  IF p.ack /\ (p.ack_seq <= 0 \/ p.ack_seq > x.snd_nxt)
          THEN IF p.rst THEN x ELSE send_tcp_packet_standalone(x)
        ELSE IF p.rst THEN IF p.ack THEN [y EXCEPT !.state = "CLOSE_WAIT"] ELSE y
        ELSE IF ~ p.syn THEN y
        ELSE IF p.ack
          THEN timeout_list_add(control_queue_add(handle_active_open(y, p)))
          ELSE control_queue_add([y EXCEPT !.state = "SYN_RCVD", !.snd_nxt = 0])

(* A stream without listener (simultaneous open) reads through NULL. *)
_raise_accept_event(x, p) ==
    IF x.active THEN [x EXCEPT !.up = FALSE]
    ELSE IF p.room THEN [x EXCEPT !.acceptq = Append(@, x.conn)]
    ELSE [x EXCEPT !.state = "CLOSED"]

Handle_TCP_ST_SYN_RCVD(x, p) ==
    IF ~ p.ack THEN control_queue_add([x EXCEPT !.snd_nxt = 0])
    ELSE IF p.ack_seq # 1 THEN x
    ELSE LET y == [x EXCEPT !.snd_una = @ + 1, !.snd_nxt = p.ack_seq, !.nrtx = 0]
         IN  _raise_accept_event([rto_list_remove(y) EXCEPT !.state = "ESTABLISHED"], p)

(* The next FIN of the peer. *)
NextFin(p) == p.fin /\ p.seq = "next"

Handle_TCP_ST_ESTABLISHED(x, p) ==
    LET y == IF p.ack THEN process_tcp_ack(x, p) ELSE x
    IN  IF p.syn THEN control_queue_add(x)
        ELSE IF NextFin(p)
          THEN control_queue_add([y EXCEPT !.state = "CLOSE_WAIT", !.rcv_fin = TRUE])
          ELSE y

(* Segments before rcv_nxt are already sorted out. *)
Handle_TCP_ST_CLOSE_WAIT(x, p) == process_tcp_ack(x, p)

\* Slip for ClosedEnds: the FIN is not sent again.
LastAckIgnores(x, p) ==
    LET y == process_tcp_ack(x, p)
    IN  IF ~ p.ack THEN control_queue_add(x)
        ELSE IF x.is_fin_sent /\ p.ack_seq = x.fss + 1 THEN Destroyed(y)
        ELSE y

Handle_TCP_ST_LAST_ACK(x, p) ==
    LET y == process_tcp_ack(x, p)
    IN  IF ~ p.ack THEN control_queue_add(x)
        ELSE IF ~ x.is_fin_sent THEN y
        ELSE IF p.ack_seq = x.fss + 1 THEN Destroyed([y EXCEPT !.snd_una = @ + 1])
        ELSE control_queue_add(y)

(* The FIN of the peer in FIN_WAIT_1 (maybe just left) and FIN_WAIT_2. *)
PeerCloses(x, p) ==
    IF ~ NextFin(p) THEN x
    ELSE LET y == [x EXCEPT !.rcv_fin = TRUE]
         IN  control_queue_add(IF x.state = "FIN_WAIT_1"
                                 THEN [y EXCEPT !.state = "CLOSING"]
                                 ELSE timewait_list_add([y EXCEPT !.state = "TIME_WAIT"]))

\* Slip for OrderlyEndIsComplete: the ack of the last byte passes for that of
\* the FIN.
AcksFinOrData(x, p) == x.is_fin_sent /\ p.ack_seq >= x.fss

AcksFin(x, p) == x.is_fin_sent /\ p.ack_seq = x.fss + 1

Handle_TCP_ST_FIN_WAIT_1(x, p) ==
    LET y == process_tcp_ack(x, p)
        z == [y EXCEPT !.snd_una = p.ack_seq, !.nrtx = 0, !.state = "FIN_WAIT_2",
                       !.snd_nxt = IF p.ack_seq > @ THEN p.ack_seq ELSE @]
    IN  IF ~ p.ack THEN x
        ELSE PeerCloses(IF AcksFin(x, p) THEN rto_list_remove(z) ELSE y, p)

Handle_TCP_ST_FIN_WAIT_2(x, p) == IF p.ack THEN PeerCloses(process_tcp_ack(x, p), p) ELSE x

Handle_TCP_ST_CLOSING(x, p) ==
    LET y == process_tcp_ack(x, p)
    IN  IF ~ p.ack THEN x
        ELSE IF ~ AcksFin(x, p) THEN y
        ELSE timewait_list_add([y EXCEPT !.snd_una = p.ack_seq, !.snd_nxt = p.ack_seq,
                                         !.state = "TIME_WAIT"])

Handle_TCP_ST_TIME_WAIT(x, p) ==
    control_queue_add(IF x.on_timewait THEN timewait_list_add(timewait_list_remove(x)) ELSE x)

Before_ESTABLISHED == {"CLOSED", "LISTEN", "SYN_SENT", "SYN_RCVD"}

(* A SYN with the number irs again: only of a passive stream, since a      *)
(* simultaneous open does not set irs.                                     *)
HandleState(x, p) ==
    CASE x.state = "LISTEN" -> Handle_TCP_ST_LISTEN(x, p)
      [] x.state = "SYN_SENT" -> Handle_TCP_ST_SYN_SENT(x, p)
      [] x.state = "SYN_RCVD" ->
           IF p.syn /\ ~ x.active THEN Handle_TCP_ST_LISTEN(x, p)
                                  ELSE Handle_TCP_ST_SYN_RCVD(x, p)
      [] x.state = "ESTABLISHED" -> Handle_TCP_ST_ESTABLISHED(x, p)
      [] x.state = "CLOSE_WAIT" -> Handle_TCP_ST_CLOSE_WAIT(x, p)
      [] x.state = "LAST_ACK" -> Handle_TCP_ST_LAST_ACK(x, p)
      [] x.state = "FIN_WAIT_1" -> Handle_TCP_ST_FIN_WAIT_1(x, p)
      [] x.state = "FIN_WAIT_2" -> Handle_TCP_ST_FIN_WAIT_2(x, p)
      [] x.state = "CLOSING" -> Handle_TCP_ST_CLOSING(x, p)
      [] x.state = "TIME_WAIT" -> Handle_TCP_ST_TIME_WAIT(x, p)
      [] OTHER -> x

process_tcp_packet(x, p) ==
    LET y == IF p.rst THEN [x EXCEPT !.have_reset = TRUE] ELSE x
    IN  IF x.state \notin Before_ESTABLISHED /\ p.seq = "old" THEN OldSegment(x, p)
        ELSE IF p.rst /\ x.state \notin {"CLOSED", "LISTEN", "SYN_SENT"} THEN handle_rst(y, p)
        ELSE HandleState(y, p)

-----------------------------------------------------------------------------
(* What the peer may have sent: acks of an unbroken run of the numbers on  *)
(* the wire, one FIN, copies of old segments, resets at any time.  A peer  *)
(* we have not acked yet sends SYN, SYN|ACK, RST, or the ack of an earlier *)
(* connection that it takes for open.                                      *)

Reached(x) == CHOOSE n \in 0 .. MaxSeq + 1 : n \notin x.wire /\ \A m \in 0 .. n - 1 : m \in x.wire

Acks(x) == {n \in 1 .. Reached(x) : n >= x.snd_una}

Packet(x, flags, seqs, acks) ==
    [syn : {"syn" \in flags}, ack : {"ack" \in flags}, fin : {"fin" \in flags},
     rst : {"rst" \in flags}, seq : seqs, ack_seq : acks,
     dup : IF flags = {"ack"} THEN BOOLEAN ELSE {FALSE},
     room : IF x.state = "SYN_RCVD" THEN BOOLEAN ELSE {TRUE}]

Packets(x) ==
    UNION {Packet(x, {"syn"}, {"old"}, {-1}),
           IF x.active THEN Packet(x, {"syn", "ack"}, {"old"}, {1} \cap Acks(x)) ELSE {},
           IF x.state = "SYN_SENT" THEN {} ELSE
               Packet(x, {"ack"}, {"old", "next"}, Acks(x))
                 \cup Packet(x, {"fin", "ack"}, IF x.rcv_fin THEN {"old"} ELSE {"next", "ahead"},
                             Acks(x)),
           IF x.state # "SYN_SENT" THEN {} ELSE
               Packet(x, {"ack"}, {"old"}, {0}) \cup Packet(x, {"rst", "ack"}, {"next"}, {0}),
           Packet(x, {"rst"}, {"old", "next"}, {-1}),
           Packet(x, {"rst", "ack"}, {"next"}, Acks(x))}

-----------------------------------------------------------------------------
(* The steps of the stack thread. *)

(* The block as a step finds and leaves it: other streams may have filled  *)
(* the control queue by then, or left room.  A stream that has an entry    *)
(* asks for no other.                                                      *)
Found == {s} \cup (IF s.live /\ s.on_control_queue THEN {} ELSE {[s EXCEPT !.full = TRUE]})
Left(x) == [x EXCEPT !.full = FALSE]

Opens == s.up /\ ~ s.live /\ s.conn < MaxConns

handle_passive_open(x) == timeout_list_add(tcp_stream_create(x))

(* A SYN of an unknown connection, and on to the state LISTEN. *)
CreateNewFlowHTEntry ==
    /\ Opens
    /\ \E x \in Found :
          s' = Left(Handle_TCP_ST_LISTEN(handle_passive_open(x), [syn |-> TRUE]))
    /\ UNCHANGED <<connect_queue, told, app, apc>>

(* A SYN that no listener wants or no stream is left for, a SYN|ACK.  What *)
(* has no SYN is dropped before.                                           *)
RefuseNewFlow ==
    /\ s.up /\ ~ s.live
    /\ s' = send_tcp_packet_standalone(s)
    /\ UNCHANGED <<connect_queue, told, app, apc>>

(* The write event of an opened and the error event of a refused           *)
(* connection go to the application that asked for it.                     *)
receive ==
    /\ s.up /\ s.live
    /\ \E p \in Packets(s), x \in Found : s' = Left(process_tcp_packet(x, p))
    /\ told' = IF s.state = "SYN_SENT" /\ s'.state \in {"ESTABLISHED", "CLOSE_WAIT"}
                 THEN s.conn ELSE told
    /\ UNCHANGED <<connect_queue, app, apc>>

control_queue_step ==
    /\ s.up /\ s.control_queue > 0
    /\ s' = write_tcp_control_queue(s)
    /\ UNCHANGED <<connect_queue, told, app, apc>>

send_queue_step ==
    /\ s.up /\ s.send_events > 0
    /\ \E x \in Found : s' = Left(write_tcp_send_queue(x))
    /\ UNCHANGED <<connect_queue, told, app, apc>>

rto_list_check ==
    /\ s.up /\ s.on_rto
    /\ \E x \in Found : s' = Left(handle_rto(x))
    /\ UNCHANGED <<connect_queue, told, app, apc>>

timewait_expires ==
    /\ s.up /\ s.on_timewait /\ ~ s.tw_expired
    /\ s' = [s EXCEPT !.tw_expired = TRUE]
    /\ UNCHANGED <<connect_queue, told, app, apc>>

timewait_list_check ==
    /\ s.up /\ s.on_timewait /\ s.tw_expired
    /\ s' = Destroyed([s EXCEPT !.on_timewait = FALSE])
    /\ UNCHANGED <<connect_queue, told, app, apc>>

(* After TCP_TIMEOUT (300 s) without a packet.  The application is assumed *)
(* to accept a connection in less time.                                    *)
timeout_list_check ==
    /\ s.up /\ s.on_timeout
    /\ \A i \in DOMAIN s.acceptq : s.acceptq[i] # s.conn
    /\ s' = Destroyed([s EXCEPT !.on_timeout = FALSE])
    /\ UNCHANGED <<connect_queue, told, app, apc>>

(* TRACE_ERR ends the process. *)
CloseCall(x) ==
    LET y == [x EXCEPT !.close_queue = @ - 1, !.fss = x.next_seq]
        fin == CASE x.state = "ESTABLISHED" -> "FIN_WAIT_1"
                 [] x.state = "CLOSE_WAIT" -> "LAST_ACK"
                 [] OTHER -> x.state
    IN  CASE x.have_reset -> IF x.state = "CLOSED" THEN y ELSE Destroyed(y)
          [] ~ x.have_reset /\ x.state # "CLOSED" -> control_queue_add([y EXCEPT !.state = fin])
          [] OTHER -> [y EXCEPT !.up = FALSE]

(* The first loop of handle_app_call. *)
handle_close_call ==
    /\ s.up /\ s.close_queue > 0
    /\ \E x \in Found : s' = Left(CloseCall(x))
    /\ UNCHANGED <<connect_queue, told, app, apc>>

(* The second loop.  Assumed: what the last connection of the block left   *)
(* in the send event and close queues has been served.  A left-over entry  *)
(* would send a second SYN, under the number behind the first.             *)
handle_connect_call ==
    /\ Opens /\ connect_queue /\ s.send_events = 0 /\ s.close_queue = 0
    /\ \E x \in Found :
          s' = Left(control_queue_add([tcp_stream_create(x)
                                          EXCEPT !.active = TRUE, !.state = "SYN_SENT"]))
    /\ connect_queue' = FALSE
    /\ UNCHANGED <<told, app, apc>>

-----------------------------------------------------------------------------
(* The application thread (api.c). *)

(* socket->stream: socket_free unlinks it when the stream is destroyed. *)
Holds == app # 0 /\ app = s.conn /\ s.live

q_accept ==
    /\ s.up /\ apc = "idle" /\ app = 0 /\ s.acceptq # <<>>
    /\ app' = Head(s.acceptq)
    /\ s' = [s EXCEPT !.acceptq = Tail(@)]
    /\ UNCHANGED <<connect_queue, told, apc>>

q_connect ==
    /\ s.up /\ apc = "idle" /\ app = 0 /\ ~ connect_queue /\ told = 0
    /\ Opens
    /\ connect_queue' = TRUE
    /\ UNCHANGED <<s, told, app, apc>>

(* The application gets the event that tells how its q_connect ended. *)
qepoll_wait ==
    /\ s.up /\ apc = "idle" /\ app = 0 /\ told # 0
    /\ app' = told
    /\ told' = 0
    /\ UNCHANGED <<s, connect_queue, apc>>

(* _q_tcp_send; in other states it returns ERROR. *)
q_send ==
    /\ s.up /\ apc = "idle" /\ Holds
    /\ s.state \in {"ESTABLISHED", "CLOSE_WAIT"}
    /\ s.next_seq + s.conn <= MaxData + 1
    /\ s' = send_event_enqueue([s EXCEPT !.usnd = @ + 1, !.next_seq = @ + 1])
    /\ UNCHANGED <<connect_queue, told, app, apc>>

(* close_stream_socket in three steps: no stream or closed already; the    *)
(* state; the flag.  Between them the stack may destroy the stream and use *)
(* the block for another one.  A full close queue refuses the call, and    *)
(* the application is not told.                                            *)
q_close ==
    /\ s.up /\ apc = "idle" /\ app # 0
    /\ IF Holds /\ ~ s.closed
         THEN s' = [s EXCEPT !.closed = TRUE] /\ apc' = "state" /\ UNCHANGED app
         ELSE app' = 0 /\ UNCHANGED <<s, apc>>
    /\ UNCHANGED <<connect_queue, told>>

q_close_state ==
    /\ s.up /\ apc = "state"
    /\ IF s.state \in {"ESTABLISHED", "CLOSE_WAIT"}
         THEN /\ \/ s' = [s EXCEPT !.close_queue = @ + 1]
                 \/ s' = [s EXCEPT !.refused = @ \cup {"close"}]
              /\ apc' = "flag" /\ UNCHANGED app
         ELSE app' = 0 /\ apc' = "idle" /\ UNCHANGED s
    /\ UNCHANGED <<connect_queue, told>>

q_close_flag ==
    /\ s.up /\ apc = "flag"
    /\ s' = [s EXCEPT !.on_closeq = TRUE]
    /\ app' = 0 /\ apc' = "idle"
    /\ UNCHANGED <<connect_queue, told>>

-----------------------------------------------------------------------------
Stack ==
    \/ CreateNewFlowHTEntry \/ RefuseNewFlow \/ receive
    \/ control_queue_step \/ send_queue_step
    \/ rto_list_check \/ timewait_expires \/ timewait_list_check \/ timeout_list_check
    \/ handle_close_call \/ handle_connect_call

Application ==
    \/ q_accept \/ q_connect \/ qepoll_wait \/ q_send
    \/ q_close \/ q_close_state \/ q_close_flag

Next == Stack \/ Application

Spec == Init /\ [][Next]_vars

(* The main loop comes round to its queues and timers, and time passes.    *)
(* Nothing is assumed of the peer, of the application, of the other        *)
(* streams, or of the 300 s timeout.                                       *)
FairSpec ==
    /\ Spec
    /\ WF_vars(control_queue_step) /\ WF_vars(send_queue_step) /\ WF_vars(rto_list_check)
    /\ WF_vars(timewait_expires) /\ WF_vars(timewait_list_check)

-----------------------------------------------------------------------------
(* Types of the block, the queues and the application's variables. *)
TypeOK ==
    /\ s \in Block
    /\ connect_queue \in BOOLEAN
    /\ told \in 0 .. MaxConns
    /\ app \in 0 .. MaxConns
    /\ apc \in {"idle", "state", "flag"}

(* timer_link serves two lists: a stream is never on the rto list and on   *)
(* the timewait list together.  A block that is back in the pool is on no  *)
(* timer list, and CLOSED: "the state should always have been changed to   *)
(* CLOSED when this function is called" (tcp_stream_destroy).  The         *)
(* control, send and close queues may still hold the block, and its state  *)
(* is all that keeps the stack from sending for a stream that is gone.     *)
OneTimerList ==
    /\ ~ (s.on_rto /\ s.on_timewait)
    /\ ~ s.live => ~ s.on_rto /\ ~ s.on_timewait /\ ~ s.on_timeout /\ s.state = "CLOSED"

(* As long as the process runs no stream is forgotten: a timer, a queue or *)
(* the application will come back to every stream of the hash table, with  *)
(* on_control_queue never set without an entry in the queue; and while the *)
(* SYN, the SYN|ACK or the last FIN is not acked, it is queued to be sent  *)
(* or the timer that sends it again is running.  The one exception is a    *)
(* stream that a full queue has refused and that was not queued since:     *)
(* control_queue_add and close_stream_socket drop the error.               *)
NotForgotten ==
    /\ s.up /\ s.live =>
          \/ s.on_rto \/ s.on_timewait \/ s.on_timeout
          \/ s.on_control_queue \/ s.close_queue > 0
          \/ told = s.conn \/ app = s.conn
          \/ s.refused # {}
    /\ s.on_control_queue => s.control_queue > 0 /\ "control" \notin s.refused
    /\ s.live /\ s.state \in {"SYN_SENT", "SYN_RCVD", "LAST_ACK"} =>
          s.on_rto \/ s.on_control_queue \/ s.send_events > 0 \/ "control" \in s.refused

(* The stream has got past its own FIN only if the peer has all the data   *)
(* of the application: everything was sent and acked.                      *)
OrderlyEndIsComplete ==
    s.state \in {"FIN_WAIT_2", "TIME_WAIT"} =>
        /\ s.snd_una = s.fss + 1
        /\ s.fss = s.next_seq
        /\ 0 .. s.fss \subseteq s.wire
        /\ s.usnd + s.uack + s.retrans = 0

(* What makes the stack send for the stream, or end it, was refused, and   *)
(* nothing but a packet of the peer or the 300 s timeout brings it back.   *)
Dropped ==
    /\ "control" \in s.refused
    /\ ~ s.on_rto /\ ~ s.on_timewait /\ s.send_events = 0

(* A packet of the peer in TIME_WAIT makes five seconds start again that   *)
(* were over.                                                              *)
TimewaitRestarted == s.tw_expired /\ s'.on_timewait /\ ~ s'.tw_expired

(* A stream whose two sides are closed comes to an end without the help of *)
(* the peer, also if every one of its packets is lost.  The exceptions: a  *)
(* peer whose packets restart the timer of TIME_WAIT for ever, and a       *)
(* stream the full control queue has Dropped.                              *)
ClosedEnds ==
    \/ []<><<TimewaitRestarted>>_vars
    \/ s.up /\ s.state \in {"LAST_ACK", "TIME_WAIT"} ~> ~ s.up \/ ~ s.live \/ Dropped

=============================================================================
