------------------------------- MODULE Events -------------------------------
(***************************************************************************)
(* The event framework (qepoll.c, socket.c and the event functions of      *)
(* tcp_in.c) between stack threads and one application thread.             *)
(*                                                                         *)
(* A stack thread raises an event for a socket.  Before the application    *)
(* has registered the socket the event goes to the stream's list of        *)
(* pending events, afterwards to the ring of its priority in the channel   *)
(* of the two threads.  The application accepts connections, registers     *)
(* them with qepoll_ctl, which moves a pending event to a channel of its   *)
(* own, and takes events with qepoll_wait (echo_server) or eventmgt_get    *)
(* (iotepserver).  When it shares its core with a stack thread the two are *)
(* coroutines, and the flag knocked tells the stack to hand over the core. *)
(*                                                                         *)
(* There is no lock: every access to a field both sides use is a step.     *)
(***************************************************************************)
EXTENDS Integers, Sequences, FiniteSets, SequencesExt

CONSTANTS
    NumStacks,      \* CONFIG.stack_thread
    NumStreams,     \* bound: the connections
    StackOf,        \* the stack thread of every stream
    Homes,          \* the stack threads the application may share its core with, NULL: none
    NULL,
    Apis,           \* subset of {"qepoll_wait", "eventmgt_get"}
    QueSize,        \* size of an event ring, which holds QueSize - 1 events
    Backlog,        \* capacity of a stack's part of the accept queue
    MaxWait,        \* maxevents of qepoll_wait, size and lb of eventmgt_init
    Types,          \* the types of events raised for streams
    MaxRaised       \* bound: the events raised in all

Stacks == 0 .. NumStacks - 1
Listener == 0
Streams == 1 .. NumStreams
Sockets == {Listener} \cup Streams

ASSUME EventsAssumption ==
    /\ NumStacks \in Nat \ {0} /\ NumStreams \in Nat
    /\ StackOf \in [Streams -> Stacks]
    /\ NULL \notin Nat /\ Homes \subseteq Stacks \cup {NULL}
    /\ Apis \subseteq {"qepoll_wait", "eventmgt_get"}
    /\ QueSize \in Nat \ {0, 1} /\ MaxWait \in Nat \ {0}
    /\ Types \subseteq {"IN", "OUT", "ERR"}

VARIABLES
    home, api,              \* the configuration, chosen once
    on_stack, knocked,      \* rt_ctx of the application's core
    state, acceptq,         \* of every stream; listener->acceptq, by stack
    qe,                     \* the sockets bound to the application's qepoll
    pdev_st, pending,       \* pdev_st and pending_events of every stream
    smap,                   \* g_smap: the mask qepoll and the user's ep_data
    que,                    \* the rings: by stack, direction and priority
    spc, ev,                \* per stack: its place and the event it raises
    apc, pos,               \* the application: its place and the ring it looks at
    events, mgt,            \* its array of events; the two queues of event_mgt
    cur, pend,              \* the event or socket it handles; pend_ev
    raised, early,          \* history: the socket of every event raised; the events
                            \* raised for a socket that was not bound
    left,                   \* history: sockets whose registration was removed
    taken, dropped,         \* history: events handled; lost to a full ring
    passed, overtaken       \* history: high events passed by a low one, once and twice

config == <<home, api>>
rtVars == <<on_stack, knocked>>
sockVars == <<state, acceptq, qe>>
pendVars == <<pdev_st, pending>>
stackVars == <<spc, ev>>
appVars == <<apc, pos, events, mgt, cur, pend>>
histVars == <<raised, early, left, taken, dropped, passed, overtaken>>
vars == <<config, rtVars, sockVars, pendVars, smap, que, stackVars, appVars, histVars>>

Chans == Stacks \X {"sq", "qs"} \X {0, 1}
Slots == 0 .. QueSize - 1

Ids(seq) == {seq[i].id : i \in DOMAIN seq}

(* A ring: the slots from start to end are in use. *)
EventQueueUsed(q) == q.end # q.start
EventQueueFull(q) == (q.end + 1) % QueSize = q.start
Contents(q) == {q.qevent[(q.start + i) % QueSize] : i \in 0 .. ((q.end - q.start) % QueSize) - 1}
Waiting(c) == {e.id : e \in Contents(que[c])}

(* The registration of the listener, which precedes the first packet, and  *)
(* the wake-up record of a new application thread.                         *)
Registered(s) == [qepoll |-> {"IN", "ERR", "HUP"}, ep_data |-> s]
Unregistered == [qepoll |-> {}, ep_data |-> NULL]

Init ==
    /\ home \in Homes /\ api \in Apis
    /\ on_stack = (home # NULL) /\ knocked = TRUE
    /\ state = [s \in Streams |-> "SYN_RCVD"]
    /\ acceptq = [k \in Stacks |-> <<>>]
    /\ qe = {Listener}
    /\ pdev_st = [s \in Streams |-> "EMPTY"]
    /\ pending = [s \in Streams |-> <<>>]
    /\ smap = [s \in Sockets |-> IF s = Listener THEN Registered(s) ELSE Unregistered]
    /\ que = [c \in Chans |-> [start |-> 0, end |-> 0, qevent |-> [i \in Slots |-> NULL]]]
    /\ spc = [k \in Stacks |-> "idle"] /\ ev = [k \in Stacks |-> NULL]
    /\ apc = "idle" /\ pos = <<0, "sq", 1>>
    /\ events = <<>> /\ mgt = [h |-> <<>>, l |-> <<>>]
    /\ cur = NULL /\ pend = NULL
    /\ raised = <<>> /\ early = {} /\ left = {} /\ taken = {} /\ dropped = {}
    /\ passed = {} /\ overtaken = FALSE

(* Coroutines of one core take turns. *)
StackRuns(k) == home = k => on_stack
AppRuns == home # NULL => ~ on_stack

-----------------------------------------------------------------------------
(* A stack thread: add_epoll_event. *)

NewEvent(s, type, pri) == [id |-> Len(raised) + 1, sockid |-> s, type |-> type, pri |-> pri]

(* _raise_accept_event.  A full accept queue closes the stream; the event  *)
(* is raised all the same.                                                 *)
_raise_accept_event(s) ==
    LET k == StackOf[s]
        room == Len(acceptq[k]) < Backlog
    IN  /\ StackRuns(k) /\ spc[k] = "idle"
        /\ state[s] = "SYN_RCVD"
        /\ Len(raised) < MaxRaised
        /\ state' = [state EXCEPT ![s] = IF room THEN "ESTABLISHED" ELSE "CLOSED"]
        /\ acceptq' = IF room THEN [acceptq EXCEPT ![k] = Append(@, s)] ELSE acceptq
        /\ ev' = [ev EXCEPT ![k] = NewEvent(Listener, "IN", 1)]
        /\ raised' = Append(raised, Listener)
        /\ spc' = [spc EXCEPT ![k] = "mask"]
        /\ UNCHANGED <<config, early, left, rtVars, qe, pendVars, smap, que, appVars, taken, dropped,
                       passed, overtaken>>

(* _raise_read_event, raise_write_event, raise_error_event and             *)
(* raise_close_event up to the test of check_stream_event_validation.      *)
raise_event(s, type, pri) ==
    LET k == StackOf[s]
    IN  /\ StackRuns(k) /\ spc[k] = "idle"
        /\ state[s] = "ESTABLISHED"
        /\ type # "IN" => pri = 0
        /\ Len(raised) < MaxRaised
        /\ ev' = [ev EXCEPT ![k] = NewEvent(s, type, pri)]
        /\ raised' = Append(raised, s)
        /\ early' = IF s \in qe THEN early ELSE early \cup {ev'[k].id}
        /\ spc' = [spc EXCEPT ![k] = IF s \in qe THEN "mask" ELSE "writing"]
        /\ UNCHANGED <<config, left, rtVars, sockVars, pendVars, smap, que, appVars, taken,
                       dropped, passed, overtaken>>

StackAt(k, place) == StackRuns(k) /\ spc[k] = place
StackTo(k, place) == spc' = [spc EXCEPT ![k] = place]
Drop(k) == ev' = [ev EXCEPT ![k] = NULL]

add_pending_begin(k) ==
    /\ StackAt(k, "writing")
    /\ pdev_st' = [pdev_st EXCEPT ![ev[k].sockid] = "WRITING"]
    /\ StackTo(k, "append")
    /\ UNCHANGED <<config, rtVars, sockVars, pending, smap, que, ev, appVars, histVars>>

add_pending_append(k) ==
    /\ StackAt(k, "append")
    /\ pending' = [pending EXCEPT ![ev[k].sockid] = Append(@, ev[k])]
    /\ StackTo(k, "written")
    /\ UNCHANGED <<config, rtVars, sockVars, pdev_st, smap, que, ev, appVars, histVars>>

add_pending_written(k) ==
    /\ StackAt(k, "written")
    /\ pdev_st' = [pdev_st EXCEPT ![ev[k].sockid] = "WRITEN"]
    /\ StackTo(k, "bound")
    /\ UNCHANGED <<config, rtVars, sockVars, pending, smap, que, ev, appVars, histVars>>

\* Slip for NoEventLost: the binding is not looked at again.
BoundUnseen(k) ==
    /\ StackAt(k, "bound")
    /\ StackTo(k, "idle") /\ Drop(k)
    /\ UNCHANGED <<config, rtVars, sockVars, pendVars, smap, que, appVars, histVars>>

(* The socket may have been bound in the meantime ... *)
add_pending_bound(k) ==
    /\ StackAt(k, "bound")
    /\ IF ev[k].sockid \in qe
         THEN StackTo(k, "read") /\ UNCHANGED ev
         ELSE StackTo(k, "idle") /\ Drop(k)
    /\ UNCHANGED <<config, rtVars, sockVars, pendVars, smap, que, appVars, histVars>>

(* ... and then the application has taken the event from the list, or not. *)
add_pending_read(k) ==
    /\ StackAt(k, "read")
    /\ IF pdev_st[ev[k].sockid] = "WRITEN"
         THEN StackTo(k, "pop") /\ UNCHANGED ev
         ELSE StackTo(k, "idle") /\ Drop(k)
    /\ UNCHANGED <<config, rtVars, sockVars, pendVars, smap, que, appVars, histVars>>

(* The head of the list is popped, the event at hand goes to the channel. *)
add_pending_pop(k) ==
    /\ StackAt(k, "pop")
    /\ pending' = [pending EXCEPT ![ev[k].sockid] = IF @ = <<>> THEN @ ELSE Tail(@)]
    /\ StackTo(k, "mask")
    /\ UNCHANGED <<config, rtVars, sockVars, pdev_st, smap, que, ev, appVars, histVars>>

(* AddTimeEvent for an event of the stack: the mask of the socket becomes  *)
(* the type of the event, the slot at end is filled, then end moves on     *)
(* unless the ring is full.                                                *)
AddTimeEvent_mask(k) ==
    /\ StackAt(k, "mask")
    /\ smap' = [smap EXCEPT ![ev[k].sockid].qepoll = {ev[k].type}]
    /\ StackTo(k, "slot")
    /\ UNCHANGED <<config, rtVars, sockVars, pendVars, que, ev, appVars, histVars>>

Slot(e) == [id |-> e.id, sockid |-> e.sockid, type |-> e.type, data |-> smap[e.sockid].ep_data]

AddTimeEvent_slot(k) ==
    LET c == <<k, "sq", ev[k].pri>>
    IN  /\ StackAt(k, "slot")
        /\ que' = [que EXCEPT ![c].qevent[que[c].end] = Slot(ev[k])]
        /\ StackTo(k, "end")
        /\ UNCHANGED <<config, rtVars, sockVars, pendVars, smap, ev, appVars, histVars>>

AddTimeEvent_end(k) ==
    LET c == <<k, "sq", ev[k].pri>>
    IN  /\ StackAt(k, "end")
        /\ IF EventQueueFull(que[c])
             THEN /\ dropped' = dropped \cup {ev[k].id}
                  /\ StackTo(k, "idle")
                  /\ UNCHANGED que
             ELSE /\ que' = [que EXCEPT ![c].end = (@ + 1) % QueSize]
                  /\ StackTo(k, IF home = NULL THEN "idle" ELSE "knock")
                  /\ UNCHANGED dropped
        /\ ev' = [ev EXCEPT ![k] = IF spc'[k] = "idle" THEN NULL ELSE @]
        /\ UNCHANGED <<config, early, left, rtVars, sockVars, pendVars, smap, appVars, raised, taken,
                       passed, overtaken>>

wakeup_app_thread(k) ==
    /\ StackAt(k, "knock")
    /\ knocked' = TRUE
    /\ StackTo(k, "idle") /\ Drop(k)
    /\ UNCHANGED <<config, on_stack, sockVars, pendVars, smap, que, appVars, histVars>>

(* The main loop hands the core over when the application was knocked. *)
wakeup_application(k) ==
    /\ home = k /\ StackAt(k, "idle")
    /\ knocked
    /\ on_stack' = FALSE
    /\ UNCHANGED <<config, knocked, sockVars, pendVars, smap, que, stackVars, appVars, histVars>>

-----------------------------------------------------------------------------
(* The application: taking events. *)

AppAt(place) == AppRuns /\ apc = place

(* qepoll_wait looks at both directions of every stack in turn; after      *)
(* every event of low priority it looks for high priority again.           *)
qepoll_wait ==
    /\ AppAt("idle") /\ api = "qepoll_wait"
    /\ apc' = "scan" /\ pos' = <<0, "sq", 1>>
    /\ UNCHANGED <<config, rtVars, sockVars, pendVars, smap, que, stackVars, events, mgt,
                   cur, pend, histVars>>

(* eventmgt_get hands out what it has fetched before it fetches more, and  *)
(* high priority before low; it reads the channels from the stacks only.   *)
Hand(q) == /\ cur' = Head(mgt[q]) /\ mgt' = [mgt EXCEPT ![q] = Tail(@)]
           /\ apc' = "event"

eventmgt_get ==
    /\ api = "eventmgt_get" /\ AppRuns /\ apc \in {"idle", "checked"}
    /\ IF mgt.h # <<>>
         THEN Hand("h") /\ UNCHANGED pos
         ELSE apc' = "scan" /\ pos' = <<0, "sq", 1>> /\ UNCHANGED <<mgt, cur>>
    /\ UNCHANGED <<config, rtVars, sockVars, pendVars, smap, que, stackVars, events, pend,
                   histVars>>

\* Slip for NoLostWakeup: it yields as a thread that falls asleep does.
CheckFallsAsleep ==
    /\ AppAt("idle") /\ api = "eventmgt_get" /\ home # NULL
    /\ knocked' = FALSE /\ on_stack' = TRUE
    /\ apc' = "checked"
    /\ UNCHANGED <<config, sockVars, pendVars, smap, que, stackVars, pos, events, mgt, cur,
                   pend, histVars>>

(* rt_check at its beginning yields when the stack has not run for long. *)
rt_check ==
    /\ AppAt("idle") /\ api = "eventmgt_get" /\ home # NULL
    /\ on_stack' = TRUE
    /\ apc' = "checked"
    /\ UNCHANGED <<config, knocked, sockVars, pendVars, smap, que, stackVars, pos, events,
                   mgt, cur, pend, histVars>>

Buffer == IF api = "qepoll_wait" THEN events
          ELSE IF pos[3] = 1 THEN mgt.h ELSE mgt.l

\* Slip for EveryEventTaken: the application's own channel is not looked at.
NextSkipsOwn ==
    IF api = "qepoll_wait" /\ pos[3] = 1 THEN <<pos[1], pos[2], 0>>
    ELSE IF pos[1] + 1 \in Stacks
           THEN <<pos[1] + 1, "sq", IF api = "qepoll_wait" THEN 1 ELSE pos[3]>>
    ELSE NULL

(* The ring after pos: in qepoll_wait the next priority, direction, stack; *)
(* in qepoll_mgt_wait the next stack.  NULL after the last one.            *)
NextRing ==
    IF api = "qepoll_wait" /\ pos[3] = 1 THEN <<pos[1], pos[2], 0>>
    ELSE IF api = "qepoll_wait" /\ pos[2] = "sq" THEN <<pos[1], "qs", 1>>
    ELSE IF pos[1] + 1 \in Stacks
           THEN <<pos[1] + 1, "sq", IF api = "qepoll_wait" THEN 1 ELSE pos[3]>>
    ELSE NULL

Room == Len(Buffer) < MaxWait

scan_used ==
    /\ AppAt("scan")
    /\ Room /\ EventQueueUsed(que[pos])
    /\ apc' = "take"
    /\ UNCHANGED <<config, rtVars, sockVars, pendVars, smap, que, stackVars, pos, events, mgt,
                   cur, pend, histVars>>

scan_next ==
    /\ AppAt("scan")
    /\ ~ (Room /\ EventQueueUsed(que[pos]))
    /\ IF NextRing = NULL THEN apc' = "scanned" /\ UNCHANGED pos
       ELSE pos' = NextRing /\ UNCHANGED apc
    /\ UNCHANGED <<config, rtVars, sockVars, pendVars, smap, que, stackVars, events, mgt, cur,
                   pend, histVars>>

(* History: the events of high priority that an event of low priority      *)
(* passes by.                                                              *)
PassBy(ids) ==
    /\ passed' = passed \cup ids
    /\ overtaken' = (overtaken \/ ids \cap passed # {})

(* qepoll_qevent: an event the mask of its socket does not show is left    *)
(* out.                                                                    *)
qepoll_qevent ==
    LET q == que[pos]
        e == q.qevent[q.start]
    IN  /\ AppAt("take")
        /\ IF e.type \in smap[e.sockid].qepoll
             THEN IF api = "qepoll_wait" THEN events' = Append(events, e) /\ UNCHANGED mgt
                  ELSE /\ mgt' = [mgt EXCEPT ![IF pos[3] = 1 THEN "h" ELSE "l"] = Append(@, e)]
                       /\ UNCHANGED events
             ELSE UNCHANGED <<events, mgt>>
        /\ IF api = "qepoll_wait" /\ pos[3] = 0
             THEN PassBy(Waiting(<<pos[1], pos[2], 1>>))
             ELSE UNCHANGED <<passed, overtaken>>
        /\ apc' = "taken"
        /\ UNCHANGED <<config, early, left, rtVars, sockVars, pendVars, smap, que, stackVars, pos, cur,
                       pend, raised, taken, dropped>>

\* Slip for HighFirst: no look back at high priority.
EventNextStaysLow ==
    /\ AppAt("taken")
    /\ que' = [que EXCEPT ![pos].start = (@ + 1) % QueSize]
    /\ apc' = "scan"
    /\ UNCHANGED <<config, rtVars, sockVars, pendVars, smap, stackVars, pos, events, mgt, cur,
                   pend, histVars>>

qepoll_qevent_next ==
    /\ AppAt("taken")
    /\ que' = [que EXCEPT ![pos].start = (@ + 1) % QueSize]
    /\ apc' = "scan"
    /\ pos' = IF api = "qepoll_wait" THEN <<pos[1], pos[2], 1>> ELSE pos
    /\ UNCHANGED <<config, rtVars, sockVars, pendVars, smap, stackVars, events, mgt, cur,
                   pend, histVars>>

(* No event: the thread gives up its core if it shares it with a stack. *)
FallAsleep ==
    /\ apc' = "idle"
    /\ IF home = NULL THEN UNCHANGED rtVars ELSE knocked' = FALSE /\ on_stack' = TRUE

qepoll_wait_end ==
    /\ AppAt("scanned") /\ api = "qepoll_wait"
    /\ IF events = <<>> THEN FallAsleep ELSE apc' = "events" /\ UNCHANGED rtVars
    /\ UNCHANGED <<config, sockVars, pendVars, smap, que, stackVars, pos, events, mgt, cur,
                   pend, histVars>>

eventmgt_get_end ==
    /\ AppAt("scanned") /\ api = "eventmgt_get"
    /\ IF pos[3] = 1 /\ mgt.h # <<>>
         THEN Hand("h") /\ UNCHANGED <<rtVars, pos, passed, overtaken>>
       ELSE IF mgt.l # <<>>
         THEN /\ Hand("l")
              /\ PassBy(UNION {Waiting(<<k, "sq", 1>>) : k \in Stacks})
              /\ UNCHANGED <<rtVars, pos>>
       ELSE IF pos[3] = 1
         THEN /\ apc' = "scan" /\ pos' = <<0, "sq", 0>>
              /\ UNCHANGED <<rtVars, mgt, cur, passed, overtaken>>
         ELSE FallAsleep /\ UNCHANGED <<pos, mgt, cur, passed, overtaken>>
    /\ UNCHANGED <<config, early, left, sockVars, pendVars, smap, que, stackVars, events, pend, raised,
                   taken, dropped>>

-----------------------------------------------------------------------------
(* The application: RunServerThread, q_accept and qepoll_ctl. *)

Loop == IF api = "qepoll_wait" THEN "events" ELSE "idle"

next_event ==
    /\ AppAt("events")
    /\ IF events = <<>>
         THEN apc' = "idle" /\ UNCHANGED <<events, cur>>
         ELSE apc' = "event" /\ cur' = Head(events) /\ events' = Tail(events)
    /\ UNCHANGED <<config, rtVars, sockVars, pendVars, smap, que, stackVars, pos, mgt, pend,
                   histVars>>

(* An event of a connection is handled; after the last byte or an error    *)
(* the application also removes the registration (qepoll_ctl with          *)
(* Q_EPOLL_CTL_DEL).                                                       *)
handle_event ==
    /\ AppAt("event") /\ cur.data # Listener
    /\ taken' = taken \cup {cur.id}
    /\ cur' = NULL /\ apc' = Loop
    /\ UNCHANGED <<config, early, left, rtVars, sockVars, pendVars, smap, que, stackVars, pos, events, mgt,
                   pend, raised, dropped, passed, overtaken>>

handle_close ==
    /\ AppAt("event") /\ cur.data \in Streams
    /\ taken' = taken \cup {cur.id}
    /\ smap' = [smap EXCEPT ![cur.data].qepoll = {}]
    /\ left' = left \cup {cur.data}
    /\ cur' = NULL /\ apc' = Loop
    /\ UNCHANGED <<config, rtVars, sockVars, pendVars, que, stackVars, pos, events, mgt, pend,
                   raised, early, dropped, passed, overtaken>>

(* q_accept: the next stream of some stack, or EAGAIN. *)
q_accept(k) ==
    /\ AppAt("event") /\ cur.data = Listener
    /\ acceptq[k] # <<>>
    /\ taken' = taken \cup {cur.id}
    /\ cur' = Head(acceptq[k])
    /\ acceptq' = [acceptq EXCEPT ![k] = Tail(@)]
    /\ apc' = "add"
    /\ UNCHANGED <<config, early, left, rtVars, state, qe, pendVars, smap, que, stackVars, pos, events,
                   mgt, pend, raised, dropped, passed, overtaken>>

q_accept_none ==
    /\ AppAt("event") /\ cur.data = Listener
    /\ \A k \in Stacks : acceptq[k] = <<>>
    /\ taken' = taken \cup {cur.id}
    /\ cur' = NULL /\ apc' = Loop
    /\ UNCHANGED <<config, early, left, rtVars, sockVars, pendVars, smap, que, stackVars, pos, events, mgt,
                   pend, raised, dropped, passed, overtaken>>

(* qepoll_ctl with Q_EPOLL_CTL_ADD for the new connection. *)
qepoll_ctl_add ==
    /\ AppAt("add")
    /\ smap' = [smap EXCEPT ![cur] = Registered(cur)]
    /\ apc' = "bind"
    /\ UNCHANGED <<config, rtVars, sockVars, pendVars, que, stackVars, pos, events, mgt, cur,
                   pend, histVars>>

bind_socket_with_qe ==
    /\ AppAt("bind")
    /\ qe' = qe \cup {cur}
    /\ apc' = "pending"
    /\ UNCHANGED <<config, rtVars, state, acceptq, pendVars, smap, que, stackVars, pos, events,
                   mgt, cur, pend, histVars>>

AddDone == cur' = NULL /\ apc' = Loop

get_pending_event ==
    /\ AppAt("pending")
    /\ IF pdev_st[cur] = "WRITEN" THEN apc' = "reading" /\ UNCHANGED cur ELSE AddDone
    /\ UNCHANGED <<config, rtVars, sockVars, pendVars, smap, que, stackVars, pos, events, mgt,
                   pend, histVars>>

get_pending_reading ==
    /\ AppAt("reading")
    /\ pdev_st' = [pdev_st EXCEPT ![cur] = "READING"]
    /\ apc' = "pop"
    /\ UNCHANGED <<config, rtVars, sockVars, pending, smap, que, stackVars, pos, events, mgt,
                   cur, pend, histVars>>

get_pending_pop ==
    /\ AppAt("pop")
    /\ IF pending[cur] = <<>> THEN UNCHANGED <<pending, pend>>
       ELSE pend' = Head(pending[cur]) /\ pending' = [pending EXCEPT ![cur] = Tail(@)]
    /\ apc' = "popped"
    /\ UNCHANGED <<config, rtVars, sockVars, pdev_st, smap, que, stackVars, pos, events, mgt,
                   cur, histVars>>

get_pending_read ==
    /\ AppAt("popped")
    /\ pdev_st' = [pdev_st EXCEPT ![cur] = "READ"]
    /\ IF pend = NULL THEN AddDone ELSE apc' = "move" /\ UNCHANGED cur
    /\ UNCHANGED <<config, rtVars, sockVars, pending, smap, que, stackVars, pos, events, mgt,
                   pend, histVars>>

(* The pending event goes, as Q_EPOLLIN, to the channel from the           *)
(* application to the stack sockid % num_stack.                            *)
qepoll_ctl_pending ==
    LET c == <<cur % NumStacks, "qs", pend.pri>>
        q == que[c]
    IN  /\ AppAt("move")
        /\ smap' = [smap EXCEPT ![cur].qepoll = {"IN"}]
        /\ que' = [que EXCEPT ![c] =
                     [start |-> q.start,
                      end |-> IF EventQueueFull(q) THEN q.end ELSE (q.end + 1) % QueSize,
                      qevent |-> [q.qevent EXCEPT ![q.end] = Slot([pend EXCEPT !.type = "IN"])]]]
        /\ dropped' = IF EventQueueFull(q) THEN dropped \cup {pend.id} ELSE dropped
        /\ pend' = NULL /\ AddDone
        /\ UNCHANGED <<config, early, left, rtVars, sockVars, pendVars, stackVars, pos, events, mgt,
                       raised, taken, passed, overtaken>>

-----------------------------------------------------------------------------
Raise ==
    \/ \E s \in Streams : _raise_accept_event(s)
    \/ \E s \in Streams, type \in Types, pri \in {0, 1} : raise_event(s, type, pri)

StackStep(k) ==
    \/ add_pending_begin(k) \/ add_pending_append(k) \/ add_pending_written(k)
    \/ add_pending_bound(k) \/ add_pending_read(k) \/ add_pending_pop(k)
    \/ AddTimeEvent_mask(k) \/ AddTimeEvent_slot(k) \/ AddTimeEvent_end(k)
    \/ wakeup_app_thread(k) \/ wakeup_application(k)

App ==
    \/ qepoll_wait \/ eventmgt_get \/ rt_check
    \/ scan_used \/ scan_next \/ qepoll_qevent \/ qepoll_qevent_next
    \/ qepoll_wait_end \/ eventmgt_get_end \/ next_event
    \/ handle_event \/ handle_close \/ (\E k \in Stacks : q_accept(k)) \/ q_accept_none
    \/ qepoll_ctl_add \/ bind_socket_with_qe \/ get_pending_event \/ get_pending_reading
    \/ get_pending_pop \/ get_pending_read \/ qepoll_ctl_pending

Next == Raise \/ (\E k \in Stacks : StackStep(k)) \/ App

Spec == Init /\ [][Next]_vars

(* Every thread has a core of its own, or shares it by yielding.  Packets  *)
(* need not arrive.                                                        *)
FairSpec == Spec /\ WF_vars(App) /\ \A k \in Stacks : WF_vars(StackStep(k))

-----------------------------------------------------------------------------
(* Types of the channels, of the sockets and of the two sides. *)
TypeOK ==
    /\ on_stack \in BOOLEAN /\ knocked \in BOOLEAN
    /\ state \in [Streams -> {"SYN_RCVD", "ESTABLISHED", "CLOSED"}]
    /\ qe \subseteq Sockets
    /\ \A c \in Chans : que[c].start \in Slots /\ que[c].end \in Slots
    /\ \A c \in Chans : NULL \notin Contents(que[c])
    /\ pos \in Chans
    /\ Len(events) <= MaxWait /\ Len(mgt.h) <= MaxWait /\ Len(mgt.l) <= MaxWait
    /\ taken \cup dropped \subseteq 1 .. Len(raised)

(* The channels the application's way of taking events reads. *)
Read == {c \in Chans : c[2] = "sq" \/ api = "qepoll_wait"}

(* A pending event will be moved as long as its socket is not bound or     *)
(* qepoll_ctl has yet to look.                                             *)
WillBeMoved(s) == s \notin qe \/ (apc \in {"pending", "reading", "pop"} /\ cur = s)

Kept ==
    taken \cup dropped
    \cup {ev[k].id : k \in {j \in Stacks : ev[j] # NULL}}
    \cup UNION {Waiting(c) : c \in Read}
    \cup Ids(events) \cup Ids(mgt.h) \cup Ids(mgt.l)
    \cup (IF apc = "event" THEN {cur.id} ELSE {})
    \cup (IF pend = NULL THEN {} ELSE {pend.id})
    \cup UNION {Ids(pending[s]) : s \in {t \in Streams : WillBeMoved(t)}}

(* Events of sockets the application has removed. *)
Unwanted == {i \in DOMAIN raised : raised[i] \in left}

(* The early events that qepoll_ctl has moved to the application's own     *)
(* channel, which eventmgt_get does not read.                              *)
Unread == UNION {Waiting(c) : c \in Chans \ Read}

(* The early events of a socket that has more than one: qepoll_ctl takes   *)
(* one from the list, or add_pending_event drops the head for the one at   *)
(* hand.                                                                   *)
EarlyOf(s) == {i \in early : raised[i] = s}
Crowded == UNION {EarlyOf(s) : s \in {t \in Streams : Cardinality(EarlyOf(t)) > 1}}

(* All events are among done, with these exceptions; one early event of    *)
(* every socket is, or is Unread.                                          *)
AllBut(done) ==
    /\ DOMAIN raised \subseteq done \cup Unread \cup Crowded
    /\ \A s \in Streams : EarlyOf(s) # {} => EarlyOf(s) \cap (done \cup Unread) # {}

(* get_pending_event fetches an event "which came when the socket was not  *)
(* related to qepoll": an event raised while the application registers the *)
(* socket is in the list it will look at, in a channel it reads, or in the *)
(* hands of a thread.  An event is lost only to a full ring, or if it came *)
(* before the registration together with another one (and then one of them *)
(* is kept), or with eventmgt_get, which does not read the channel it was  *)
(* moved to.  What the application takes carries the data it registered    *)
(* with the socket.                                                        *)
NoEventLost ==
    /\ AllBut(Kept \cup Unwanted)
    /\ \A e \in ToSet(events) \cup ToSet(mgt.h) \cup ToSet(mgt.l) : e.data = e.sockid

(* thread_wakeup.knocked, "there are requests raised from stack thread":   *)
(* the application never gives up a shared core with an event in a channel *)
(* or in its own hands unless knocked brings it back.                      *)
WorkLeft ==
    \/ \E c \in Read : EventQueueUsed(que[c])
    \/ events # <<>> \/ mgt.h # <<>> \/ mgt.l # <<>>
    \/ apc = "event"

NoLostWakeup ==
    home # NULL /\ on_stack /\ WorkLeft => knocked \/ \E k \in Stacks : spc[k] = "knock"

(* Priorities: an event of high priority is passed by at most one event of *)
(* low priority of its channel (with eventmgt_get: of any channel), the    *)
(* one chosen just before it arrived.                                      *)
HighFirst == ~ overtaken

(* RunServerThread: the application catches up.  Every event of a socket   *)
(* is handled in the end unless a full ring has lost it, the application   *)
(* has removed the socket, or it came too early as NoEventLost says.       *)
EveryEventTaken == []<>AllBut(taken \cup dropped \cup Unwanted)
=============================================================================
