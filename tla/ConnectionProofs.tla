-------------------------- MODULE ConnectionProofs --------------------------
(***************************************************************************)
(* Proofs about Connection, for any number of connections that use the     *)
(* block, any number of messages, retransmissions and events: a block that *)
(* is back in the pool is CLOSED and on no timer list, and no stream is on *)
(* the rto list and on the timewait list together.                         *)
(*                                                                         *)
(* The two need each other.  The stack still serves the queue entries of a *)
(* destroyed stream, and sending a SYN, a FIN or data would put its block  *)
(* on the rto list again: it is the state CLOSED that prevents it.  Good   *)
(* is their conjunction, of a block x.  There is one lemma for every C     *)
(* function that says how it treats Good blocks; those that may start a    *)
(* timer or change the state need a block that is Alive.                   *)
(***************************************************************************)
EXTENDS Connection, TLAPS

(* The fields the proof is about. *)
Timed(x) ==
    /\ x = [f \in DOMAIN x |-> x[f]]
    /\ {"live", "state", "on_rto", "on_timewait", "on_timeout"} \subseteq DOMAIN x
    /\ x.live \in BOOLEAN /\ x.on_rto \in BOOLEAN
    /\ x.on_timewait \in BOOLEAN /\ x.on_timeout \in BOOLEAN

Good(x) ==
    /\ Timed(x)
    /\ ~ (x.on_rto /\ x.on_timewait)
    /\ ~ x.live => x.state = "CLOSED" /\ ~ x.on_rto /\ ~ x.on_timewait /\ ~ x.on_timeout

Alive(x) == Good(x) /\ x.live

(* y differs from x in other fields only. *)
Same(x, y) ==
    /\ Timed(y)
    /\ y.live = x.live /\ y.state = x.state /\ y.on_rto = x.on_rto
    /\ y.on_timewait = x.on_timewait /\ y.on_timeout = x.on_timeout

-----------------------------------------------------------------------------
(* Queues and send buffer: the timers and the state stay as they are. *)
LEMMA Frames ==
    ASSUME NEW x, Timed(x), NEW ack_seq
    PROVE  /\ Same(x, control_queue_add(x))
           /\ Same(x, send_event_enqueue(x))
           /\ Same(x, sb_reset_retrans(x))
           /\ Same(x, sb_remove_acked(x, ack_seq))
  <1>1. Same(x, control_queue_add(x))
    BY DEF Timed, Same, control_queue_add, sstreamq_enqueue
  <1>2. Same(x, send_event_enqueue(x))
    BY DEF Timed, Same, send_event_enqueue
  <1>3. Same(x, sb_reset_retrans(x))
    BY DEF Timed, Same, sb_reset_retrans
  <1>4. Same(x, sb_remove_acked(x, ack_seq))
    BY DEF Timed, Same, sb_remove_acked
  <1> QED BY <1>1, <1>2, <1>3, <1>4

LEMMA SameIsGood ==
    ASSUME NEW x, NEW y, Same(x, y)
    PROVE  /\ Good(x) => Good(y)
           /\ Alive(x) => Alive(y)
  BY DEF Same, Good, Alive

(* control_queue_add, the last call of most handlers. *)
LEMMA ControlQueue ==
    ASSUME NEW x
    PROVE  /\ Good(x) => Good(control_queue_add(x))
           /\ Alive(x) => Alive(control_queue_add(x))
  <1> SUFFICES ASSUME Good(x) PROVE Same(x, control_queue_add(x))
    BY SameIsGood DEF Alive
  <1> QED BY Frames DEF Good

(* The timer lists, for a stream that is alive. *)
LEMMA TimerLists ==
    ASSUME NEW x, Alive(x)
    PROVE  /\ Alive(rto_list_add(x))
           /\ Alive(rto_list_remove(x))
           /\ Alive(rto_list_update(x))
           /\ Alive(timewait_list_add(x))
           /\ Alive(timewait_list_remove(x))
           /\ Alive(timeout_list_add(x))
  <1>1. ASSUME NEW y, Alive(y) PROVE Alive(rto_list_add(y))
    BY <1>1 DEF Alive, Good, Timed, rto_list_add
  <1>2. Alive(rto_list_remove(x))
    BY DEF Alive, Good, Timed, rto_list_remove
  <1>3. Alive(rto_list_update(x))
    BY <1>1, <1>2 DEF rto_list_update
  <1>4. Alive(timewait_list_add(x))
    BY DEF Alive, Good, Timed, timewait_list_add, rto_list_remove
  <1>5. Alive(timewait_list_remove(x)) /\ Alive(timeout_list_add(x))
    BY DEF Alive, Good, Timed, timewait_list_remove, timeout_list_add
  <1> QED BY <1>1, <1>2, <1>3, <1>4, <1>5

(* tcp_stream_destroy takes the stream off all lists; its callers have set *)
(* the state.                                                              *)
LEMMA Destruction ==
    ASSUME NEW x, Good(x)
    PROVE  Good(Destroyed(x))
  BY DEF Good, Timed, Destroyed, tcp_stream_destroy, rto_list_remove, timewait_list_remove,
         timeout_list_remove

LEMMA Creation ==
    ASSUME NEW x, Good(x)
    PROVE  Alive(tcp_stream_create(x))
  <1> DEFINE y == SendVarsCleared(x)
  <1>1. Timed(y)
    BY DEF Good, Timed, SendVarsCleared
  <1> HIDE DEF y
  <1>2. Alive([y EXCEPT !.live = TRUE, !.conn = @ + 1, !.active = FALSE, !.state = "LISTEN",
                        !.closed = FALSE, !.have_reset = FALSE, !.snd_nxt = 0, !.rcv_fin = FALSE,
                        !.on_rto = FALSE, !.on_timewait = FALSE, !.on_timeout = FALSE,
                        !.tw_expired = FALSE])
    BY <1>1 DEF Good, Timed, Alive
  <1> QED BY <1>2 DEF y, tcp_stream_create

(* Only the state is changed, and not by a stream that is gone. *)
LEMMA StateChange ==
    ASSUME NEW x, Alive(x), NEW st
    PROVE  Alive([x EXCEPT !.state = st])
  BY DEF Alive, Good, Timed

-----------------------------------------------------------------------------
(* tcp_out.c: a block that is gone is CLOSED, so nothing is sent for it. *)
LEMMA Output ==
    ASSUME NEW x, Good(x)
    PROVE  /\ Good(send_tcp_control_packet(x))
           /\ Good(write_tcp_control_queue(x))
           /\ Good(write_tcp_send_queue(x))
  <1>1. ASSUME NEW y, Alive(y) PROVE Alive(SendSyn(y)) /\ Alive(SendFin(y))
    <2>1. ASSUME NEW z, Same(y, z) PROVE Alive(rto_list_add(z))
      BY <1>1, <2>1, SameIsGood, TimerLists
    <2>2. Same(y, [y EXCEPT !.snd_nxt = Count(@ + 1), !.wire = @ \cup {y.snd_nxt}])
      BY <1>1 DEF Same, Alive, Good, Timed
    <2>3. Same(y, [y EXCEPT !.is_fin_sent = TRUE, !.snd_nxt = Count(@ + 1),
                            !.wire = @ \cup {y.fss}])
      BY <1>1 DEF Same, Alive, Good, Timed
    <2> QED BY <2>1, <2>2, <2>3 DEF SendSyn, SendFin
  <1>2. ASSUME NEW y, Good(y) PROVE Good(send_tcp_control_packet(y))
    <2>1. CASE y.live
      <3>1. Alive(y)
        BY <1>2, <2>1 DEF Alive
      <3>2. Same(y, [y EXCEPT !.snd_nxt = 0])
        BY <1>2 DEF Same, Good, Timed
      <3>3. Alive([y EXCEPT !.snd_nxt = 0])
        BY <3>1, <3>2, SameIsGood
      <3> QED BY <1>1, <1>2, <3>1, <3>3 DEF send_tcp_control_packet, Alive
    <2>2. CASE ~ y.live
      BY <1>2, <2>2 DEF send_tcp_control_packet, Good
    <2> QED BY <2>1, <2>2
  <1>3. Good(write_tcp_control_queue(x))
    <2>1. Good([x EXCEPT !.control_queue = @ - 1])
      BY DEF Good, Timed
    <2>2. Good([[x EXCEPT !.control_queue = @ - 1] EXCEPT !.on_control_queue = FALSE])
      BY DEF Good, Timed
    <2> QED BY <2>1, <2>2, <1>2 DEF write_tcp_control_queue, sstreamq_dequeue
  <1>4. Good(write_tcp_send_queue(x))
    <2> DEFINE y == [x EXCEPT !.send_events = @ - 1]
    <2>1. Good(y) /\ Same(x, y)
      BY DEF Good, Timed, Same
    <2>2. Good(control_queue_add(y))
      BY <2>1, ControlQueue
    <2>3. ASSUME x.state # "CLOSED" PROVE Good(flush_tcp_sending_buffer(y))
      <3>1. Alive(y)
        BY <2>1, <2>3 DEF Alive, Good, Same
      <3>2. ASSUME NEW z, Same(y, z) PROVE Good(rto_list_add(z))
        BY <3>1, <3>2, SameIsGood, TimerLists DEF Alive
      <3>3. Same(y, [y EXCEPT !.uack = @ + Flushed(y), !.retrans = 0, !.usnd = 0,
                              !.snd_nxt = Count(@ + Flushed(y)),
                              !.wire = @ \cup (y.snd_nxt .. y.snd_nxt + Flushed(y) - 1)])
        BY <3>1 DEF Same, Alive, Good, Timed
      <3> QED BY <3>2, <3>3 DEF flush_tcp_sending_buffer
    <2> QED BY <2>2, <2>3 DEF write_tcp_send_queue, get_from_send_queue
  <1> QED BY <1>2, <1>3, <1>4

(* handle_rto starts no timer: the packet it queues will. *)
LEMMA Expiry ==
    ASSUME NEW x, Alive(x)
    PROVE  Good(handle_rto(x))
  <1> DEFINE y == [x EXCEPT !.on_rto = FALSE]
             z == [y EXCEPT !.nrtx = @ + 1, !.snd_nxt = y.snd_una]
  <1>1. Alive(y)
    BY DEF Alive, Good, Timed
  <1>2. Good(Destroyed(y))
    BY <1>1, Destruction DEF Alive
  <1> HIDE DEF y
  <1>3. Same(y, z)
    BY <1>1 DEF Same, Alive, Good, Timed
  <1>4. Good(z)
    BY <1>1, <1>3, SameIsGood DEF Alive
  <1> HIDE DEF z
  <1>5. Good(control_queue_add(z))
    BY <1>4, ControlQueue
  <1>6. Same(z, sb_reset_retrans(z))
    BY <1>4, Frames DEF Good
  <1>7. Good(sb_reset_retrans(z))
    BY <1>4, <1>6, SameIsGood
  <1>8. Same(sb_reset_retrans(z), send_event_enqueue(sb_reset_retrans(z)))
    BY <1>7, Frames DEF Good
  <1>9. Good(send_event_enqueue(sb_reset_retrans(z)))
    BY <1>7, <1>8, SameIsGood
  <1>10. Good(Retransmit(y))
    BY <1>5, <1>9 DEF Retransmit, z
  <1> QED BY <1>2, <1>10 DEF handle_rto, y

-----------------------------------------------------------------------------
(* tcp_in.c.  process_tcp_ack keeps the state and stops or restarts the    *)
(* rto timer.                                                              *)
LEMMA Acknowledgement ==
    ASSUME NEW x, Alive(x), NEW p
    PROVE  Alive(process_tcp_ack(x, p))
  <1> DEFINE a == IF x.state \in Closing /\ x.is_fin_sent /\ p.ack_seq = x.fss + 1
                    THEN p.ack_seq - 1 ELSE p.ack_seq
             y == IF p.dup /\ a = x.head_seq /\ a < x.snd_nxt THEN FastRetransmit(x, a) ELSE x
             z == IF a > y.snd_nxt THEN [y EXCEPT !.snd_nxt = a] ELSE y
             w == [sb_remove_acked(z, a) EXCEPT !.snd_una = a]
  <1> HIDE DEF a
  <1>1. Alive(FastRetransmit(x, a))
    <2> DEFINE v == [x EXCEPT !.snd_nxt = a, !.nrtx = Smaller(@ + 1, MaxRtx)]
    <2>1. Alive(v)
      BY DEF Alive, Good, Timed
    <2> HIDE DEF v
    <2>2. Alive(sb_reset_retrans(v))
      BY <2>1, Frames, SameIsGood DEF Alive, Good
    <2>3. Alive(send_event_enqueue(sb_reset_retrans(v)))
      BY <2>2, Frames, SameIsGood DEF Alive, Good
    <2> QED BY <2>3 DEF v, FastRetransmit
  <1>2. Alive(y)
    BY <1>1
  <1> HIDE DEF y
  <1>3. Alive(z)
    BY <1>2 DEF Alive, Good, Timed
  <1> HIDE DEF z
  <1>4. Alive(sb_remove_acked(z, a))
    BY <1>3, Frames, SameIsGood DEF Alive, Good
  <1>5. Alive(w)
    BY <1>4 DEF Alive, Good, Timed
  <1> HIDE DEF w
  <1>6. Alive(rto_list_remove(w)) /\ Alive(rto_list_update(w))
    BY <1>5, TimerLists
  <1> QED BY <1>3, <1>6 DEF a, y, z, w, process_tcp_ack

(* The segments that end early: old ones and resets. *)
LEMMA EarlyReturns ==
    ASSUME NEW x, Alive(x), NEW p
    PROVE  Good(OldSegment(x, p)) /\ Good(handle_rst(x, p))
  <1>1. Good(OldSegment(x, p))
    BY ControlQueue, TimerLists DEF OldSegment, Alive
  <1>2. Good(handle_rst(x, p))
    <2>1. Good(x) /\ Good(Destroyed(x))
      BY Destruction DEF Alive
    <2>2. Good([x EXCEPT !.state = "CLOSE_WAIT"])
      BY StateChange DEF Alive
    <2> QED BY <2>1, <2>2 DEF handle_rst
  <1> QED BY <1>1, <1>2

(* Opening. *)
LEMMA Opening ==
    ASSUME NEW x, Alive(x), NEW p
    PROVE  /\ Good(Handle_TCP_ST_LISTEN(x, p))
           /\ Good(Handle_TCP_ST_SYN_SENT(x, p))
           /\ Good(Handle_TCP_ST_SYN_RCVD(x, p))
  <1>1. Good(Handle_TCP_ST_LISTEN(x, p))
    BY StateChange, ControlQueue DEF Handle_TCP_ST_LISTEN, Alive
  <1>2. Good(Handle_TCP_ST_SYN_SENT(x, p))
    <2> DEFINE y == [x EXCEPT !.snd_una = IF p.ack THEN @ + 1 ELSE @]
    <2>1. Alive(y)
      BY DEF Alive, Good, Timed
    <2> HIDE DEF y
    <2>2. Alive([y EXCEPT !.state = "CLOSE_WAIT"])
      BY <2>1, StateChange
    <2>3. Alive([y EXCEPT !.state = "SYN_RCVD", !.snd_nxt = 0])
      BY <2>1 DEF Alive, Good, Timed
    <2>4. Alive([y EXCEPT !.snd_nxt = p.ack_seq])
      BY <2>1 DEF Alive, Good, Timed
    <2>5. Alive(rto_list_remove([y EXCEPT !.snd_nxt = p.ack_seq]))
      BY <2>4, TimerLists
    <2>6. Alive(handle_active_open(y, p))
      BY <2>5 DEF Alive, Good, Timed, handle_active_open
    <2>7. Alive(control_queue_add(handle_active_open(y, p)))
      BY <2>6, ControlQueue
    <2>8. Alive(timeout_list_add(control_queue_add(handle_active_open(y, p))))
      BY <2>7, TimerLists
    <2>9. Alive(control_queue_add([y EXCEPT !.state = "SYN_RCVD", !.snd_nxt = 0]))
      BY <2>3, ControlQueue
    <2>10. Good(send_tcp_packet_standalone(x))
      BY DEF Alive, Good, Timed, send_tcp_packet_standalone
    <2> QED BY <2>1, <2>2, <2>8, <2>9, <2>10 DEF y, Handle_TCP_ST_SYN_SENT, Alive
  <1>3. Good(Handle_TCP_ST_SYN_RCVD(x, p))
    <2> DEFINE y == [x EXCEPT !.snd_una = @ + 1, !.snd_nxt = p.ack_seq, !.nrtx = 0]
               z == [rto_list_remove(y) EXCEPT !.state = "ESTABLISHED"]
    <2>1. Alive([x EXCEPT !.snd_nxt = 0]) /\ Alive(y)
      BY DEF Alive, Good, Timed
    <2>2. Good(control_queue_add([x EXCEPT !.snd_nxt = 0]))
      BY <2>1, ControlQueue DEF Alive
    <2> HIDE DEF y
    <2>3. Alive(z)
      BY <2>1, TimerLists, StateChange
    <2> HIDE DEF z
    <2>4. Alive([z EXCEPT !.up = FALSE]) /\ Alive([z EXCEPT !.acceptq = Append(@, z.conn)])
          /\ Alive([z EXCEPT !.state = "CLOSED"])
      BY <2>3 DEF Alive, Good, Timed
    <2>5. Good(_raise_accept_event(z, p))
      BY <2>4 DEF _raise_accept_event, Alive
    <2> QED BY <2>2, <2>5 DEF y, z, Handle_TCP_ST_SYN_RCVD, Alive
  <1> QED BY <1>1, <1>2, <1>3

(* Data transfer and closing. *)
LEMMA ClosingHandlers ==
    ASSUME NEW x, Alive(x), NEW p
    PROVE  /\ Good(Handle_TCP_ST_ESTABLISHED(x, p))
           /\ Good(Handle_TCP_ST_LAST_ACK(x, p))
           /\ Good(Handle_TCP_ST_FIN_WAIT_1(x, p))
           /\ Good(Handle_TCP_ST_FIN_WAIT_2(x, p))
           /\ Good(Handle_TCP_ST_CLOSING(x, p))
           /\ Good(Handle_TCP_ST_TIME_WAIT(x, p))
  <1> DEFINE y == process_tcp_ack(x, p)
  <1>1. Alive(y)
    BY Acknowledgement
  <1> HIDE DEF y
  <1>2. ASSUME NEW z, Alive(z) PROVE Good(control_queue_add(z))
    BY <1>2, ControlQueue DEF Alive
  <1>3. Good(Handle_TCP_ST_ESTABLISHED(x, p))
    <2>1. ASSUME NEW z, Alive(z)
          PROVE  Good(control_queue_add([z EXCEPT !.state = "CLOSE_WAIT", !.rcv_fin = TRUE]))
      <3>1. Alive([z EXCEPT !.state = "CLOSE_WAIT", !.rcv_fin = TRUE])
        BY <2>1 DEF Alive, Good, Timed
      <3> QED BY <3>1, <1>2
    <2> QED BY <1>1, <1>2, <2>1 DEF y, Handle_TCP_ST_ESTABLISHED, Alive
  <1>4. Good(Handle_TCP_ST_LAST_ACK(x, p))
    <2>1. Good([y EXCEPT !.snd_una = @ + 1])
      BY <1>1 DEF Alive, Good, Timed
    <2>2. Good(Destroyed([y EXCEPT !.snd_una = @ + 1]))
      BY <2>1, Destruction
    <2> QED BY <1>1, <1>2, <2>2 DEF y, Handle_TCP_ST_LAST_ACK, Alive
  <1>5. ASSUME NEW z, Alive(z) PROVE Good(PeerCloses(z, p))
    <2>1. Alive([z EXCEPT !.rcv_fin = TRUE])
      BY <1>5 DEF Alive, Good, Timed
    <2>2. ASSUME NEW st PROVE Alive([[z EXCEPT !.rcv_fin = TRUE] EXCEPT !.state = st])
      BY <2>1, StateChange
    <2>3. Good(control_queue_add([[z EXCEPT !.rcv_fin = TRUE] EXCEPT !.state = "CLOSING"]))
      BY <2>2, <1>2
    <2>4. Alive(timewait_list_add([[z EXCEPT !.rcv_fin = TRUE] EXCEPT !.state = "TIME_WAIT"]))
      BY <2>2, TimerLists
    <2>5. Good(control_queue_add(timewait_list_add(
                   [[z EXCEPT !.rcv_fin = TRUE] EXCEPT !.state = "TIME_WAIT"])))
      BY <2>4, <1>2
    <2> QED BY <1>5, <2>3, <2>5 DEF PeerCloses, Alive
  <1>6. Good(Handle_TCP_ST_FIN_WAIT_1(x, p))
    <2> DEFINE z == [y EXCEPT !.snd_una = p.ack_seq, !.nrtx = 0, !.state = "FIN_WAIT_2",
                              !.snd_nxt = IF p.ack_seq > @ THEN p.ack_seq ELSE @]
    <2>1. Alive(z)
      BY <1>1 DEF Alive, Good, Timed
    <2> HIDE DEF z
    <2>2. Alive(rto_list_remove(z))
      BY <2>1, TimerLists
    <2>3. Good(PeerCloses(rto_list_remove(z), p)) /\ Good(PeerCloses(y, p))
      BY <1>1, <1>5, <2>2
    <2> QED BY <2>3 DEF y, z, Handle_TCP_ST_FIN_WAIT_1, Alive
  <1>7. Good(Handle_TCP_ST_FIN_WAIT_2(x, p))
    BY <1>1, <1>5 DEF y, Handle_TCP_ST_FIN_WAIT_2, Alive
  <1>8. Good(Handle_TCP_ST_CLOSING(x, p))
    <2>1. Alive([y EXCEPT !.snd_una = p.ack_seq, !.snd_nxt = p.ack_seq, !.state = "TIME_WAIT"])
      BY <1>1 DEF Alive, Good, Timed
    <2>2. Alive(timewait_list_add(
              [y EXCEPT !.snd_una = p.ack_seq, !.snd_nxt = p.ack_seq, !.state = "TIME_WAIT"]))
      BY <2>1, TimerLists
    <2> QED BY <1>1, <2>2 DEF y, Handle_TCP_ST_CLOSING, Alive
  <1>9. Good(Handle_TCP_ST_TIME_WAIT(x, p))
    BY <1>2, TimerLists DEF Handle_TCP_ST_TIME_WAIT
  <1> QED BY <1>3, <1>4, <1>6, <1>7, <1>8, <1>9

LEMMA Input ==
    ASSUME NEW x, Alive(x), NEW p
    PROVE  Good(process_tcp_packet(x, p))
  <1> DEFINE y == IF p.rst THEN [x EXCEPT !.have_reset = TRUE] ELSE x
  <1>1. Alive(y)
    BY DEF Alive, Good, Timed
  <1> HIDE DEF y
  <1>2. Good(HandleState(y, p))
    <2>1. Good(y) /\ Good(Handle_TCP_ST_CLOSE_WAIT(y, p))
      BY <1>1, Acknowledgement DEF Alive, Handle_TCP_ST_CLOSE_WAIT
    <2>2. /\ Good(Handle_TCP_ST_LISTEN(y, p))
          /\ Good(Handle_TCP_ST_SYN_SENT(y, p))
          /\ Good(Handle_TCP_ST_SYN_RCVD(y, p))
      BY <1>1, Opening
    <2>3. /\ Good(Handle_TCP_ST_ESTABLISHED(y, p))
          /\ Good(Handle_TCP_ST_LAST_ACK(y, p))
          /\ Good(Handle_TCP_ST_FIN_WAIT_1(y, p))
          /\ Good(Handle_TCP_ST_FIN_WAIT_2(y, p))
          /\ Good(Handle_TCP_ST_CLOSING(y, p))
          /\ Good(Handle_TCP_ST_TIME_WAIT(y, p))
      BY <1>1, ClosingHandlers
    <2> QED BY <2>1, <2>2, <2>3 DEF HandleState
  <1>3. Good(OldSegment(x, p)) /\ Good(handle_rst(y, p))
    BY <1>1, EarlyReturns
  <1> QED BY <1>2, <1>3 DEF y, process_tcp_packet

-----------------------------------------------------------------------------
(* The application writes closed, on_closeq, its queues and the send       *)
(* buffer only.                                                            *)
LEMMA ApplicationStep ==
    ASSUME Good(s), Application
    PROVE  Good(s')
  <1>1. CASE q_accept
    BY <1>1 DEF q_accept, Good, Timed
  <1>2. CASE q_connect \/ qepoll_wait
    BY <1>2 DEF q_connect, qepoll_wait
  <1>3. CASE q_send
    <2> DEFINE x == [s EXCEPT !.usnd = @ + 1, !.next_seq = @ + 1]
    <2>1. Good(x)
      BY DEF Good, Timed
    <2>2. s' = send_event_enqueue(x)
      BY <1>3 DEF q_send
    <2> HIDE DEF x
    <2>3. Same(x, send_event_enqueue(x))
      BY <2>1, Frames DEF Good
    <2> QED BY <2>1, <2>2, <2>3, SameIsGood
  <1>4. CASE q_close
    BY <1>4 DEF q_close, Good, Timed
  <1>5. CASE q_close_state
    BY <1>5 DEF q_close_state, Good, Timed
  <1>6. CASE q_close_flag
    BY <1>6 DEF q_close_flag, Good, Timed
  <1> QED BY <1>1, <1>2, <1>3, <1>4, <1>5, <1>6 DEF Application

(* handle_close_call: a destroyed stream stays CLOSED. *)
LEMMA Closure ==
    ASSUME NEW x, Good(x)
    PROVE  Good(CloseCall(x))
  <1> DEFINE y == [x EXCEPT !.close_queue = @ - 1, !.fss = x.next_seq]
             fin == CASE x.state = "ESTABLISHED" -> "FIN_WAIT_1"
                      [] x.state = "CLOSE_WAIT" -> "LAST_ACK"
                      [] OTHER -> x.state
  <1>1. Good(y) /\ Same(x, y)
    BY DEF Good, Timed, Same
  <1> HIDE DEF y, fin
  <1>2. Good(Destroyed(y))
    BY <1>1, Destruction
  <1>3. ASSUME x.state # "CLOSED" PROVE Good(control_queue_add([y EXCEPT !.state = fin]))
    <2>1. Alive(y)
      BY <1>1, <1>3 DEF Alive, Good, Same
    <2> QED BY <2>1, StateChange, ControlQueue DEF Alive
  <1>4. Good([y EXCEPT !.up = FALSE])
    BY <1>1 DEF Good, Timed
  <1> QED BY <1>1, <1>2, <1>3, <1>4 DEF y, fin, CloseCall

(* Whether the control queue is full makes no difference to the timers. *)
LEMMA FoundAndLeft ==
    /\ \A x : Good(x) => Good(Left(x))
    /\ Good(s) => \A x \in Found : Good(x) /\ x.live = s.live
  <1>1. ASSUME NEW x, Good(x) PROVE Good(Left(x))
    BY <1>1 DEF Good, Timed, Left
  <1>2. ASSUME Good(s) PROVE Good([s EXCEPT !.full = TRUE]) /\ [s EXCEPT !.full = TRUE].live = s.live
    BY <1>2 DEF Good, Timed
  <1> QED BY <1>1, <1>2 DEF Found

LEMMA StackStep ==
    ASSUME Good(s), Stack
    PROVE  Good(s')
  <1> USE FoundAndLeft
  <1>1. CASE CreateNewFlowHTEntry
    <2>1. ASSUME NEW x \in Found PROVE Alive(handle_passive_open(x))
      BY <2>1, Creation, TimerLists DEF handle_passive_open
    <2> QED BY <1>1, <2>1, Opening DEF CreateNewFlowHTEntry
  <1>2. CASE RefuseNewFlow
    BY <1>2 DEF RefuseNewFlow, send_tcp_packet_standalone, Good, Timed
  <1>3. CASE receive
    BY <1>3, Input DEF receive, Alive
  <1>4. CASE control_queue_step
    BY <1>4, Output DEF control_queue_step
  <1>5. CASE send_queue_step
    BY <1>5, Output DEF send_queue_step
  <1>6. CASE rto_list_check
    <2>1. ASSUME NEW x \in Found PROVE Alive(x)
      BY <1>6, <2>1 DEF rto_list_check, Alive, Good
    <2> QED BY <1>6, <2>1, Expiry DEF rto_list_check
  <1>7. CASE timewait_expires
    BY <1>7 DEF timewait_expires, Good, Timed
  <1>8. CASE timewait_list_check
    <2>1. Good([s EXCEPT !.on_timewait = FALSE])
      BY DEF Good, Timed
    <2> QED BY <1>8, <2>1, Destruction DEF timewait_list_check
  <1>9. CASE timeout_list_check
    <2>1. Good([s EXCEPT !.on_timeout = FALSE])
      BY DEF Good, Timed
    <2> QED BY <1>9, <2>1, Destruction DEF timeout_list_check
  <1>10. CASE handle_close_call
    BY <1>10, Closure DEF handle_close_call
  <1>11. CASE handle_connect_call
    <2>1. ASSUME NEW x \in Found
          PROVE  Alive([tcp_stream_create(x) EXCEPT !.active = TRUE, !.state = "SYN_SENT"])
      BY <2>1, Creation DEF Alive, Good, Timed
    <2> QED BY <1>11, <2>1, ControlQueue DEF handle_connect_call, Alive
  <1> QED BY <1>1, <1>2, <1>3, <1>4, <1>5, <1>6, <1>7, <1>8, <1>9, <1>10, <1>11 DEF Stack

LEMMA Initially == Init => Good(s)
  BY DEF Init, Good, Timed

THEOREM GoodAlways == Spec => []Good(s)
  <1>1. Init => Good(s)
    BY Initially
  <1>2. Good(s) /\ [Next]_vars => Good(s)'
    BY ApplicationStep, StackStep DEF Next, vars, Good, Timed
  <1> QED BY <1>1, <1>2, PTL DEF Spec

(* timer_link is never used for two lists at once, no timer list holds a   *)
(* block of the pool, and such a block stays CLOSED, whatever the queues   *)
(* that still hold it make the stack do.                                   *)
THEOREM TimerListsDisjoint == Spec => []OneTimerList
  <1>1. Good(s) => OneTimerList
    BY DEF Good, OneTimerList
  <1> QED BY <1>1, GoodAlways, PTL
=============================================================================
