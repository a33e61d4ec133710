----------------------------- MODULE IotServer -----------------------------
(***************************************************************************)
(* apps/iotepserver.c on top of the runtime: a server thread that takes    *)
(* events from its stack and forwards every request to one of its workers, *)
(* queries and updates in a ring each, and the workers that look the       *)
(* request up in a database of their own and answer it.  The server may    *)
(* share the core of the stack; the workers have cores of their own.       *)
(*                                                                         *)
(* An event carries a priority and no request: the server reads whatever   *)
(* request q_recv gives it and forwards it by the priority of the event.   *)
(* The details of the event rings are the subject of Events and those of   *)
(* the receive buffer of RecvBuff.  The stores to a slot and to an index   *)
(* are taken to happen in the order of the program.                        *)
(***************************************************************************)
EXTENDS Runtime, FiniteSets, FiniteSetsExt, SequencesExt

CONSTANTS
    CAP_REDIS_BUFFER,   \* cells of a forward buffer
    EventRing,          \* events a ring holds
    Mbufs,              \* mbufs in the pool of a worker
    MaxRequests         \* the most requests a configuration allows

(* A configuration starts the server and then its workers, and bounds what *)
(* the peer does: how many queries and updates, whether it closes.         *)
ASSUME IotAssumption ==
    /\ CAP_REDIS_BUFFER \in Nat \ {0, 1} /\ EventRing \in Nat \ {0} /\ Mbufs \in Nat
    /\ \A f \in Configs : /\ f.query \in Nat /\ f.update \in Nat /\ f.fin \in BOOLEAN
                          /\ f.query + f.update <= MaxRequests
                          /\ f.query + f.update > 0 => Len(f.apps) > 1

Server == Head(conf.apps)
Workers == Tail(conf.apps)
Kinds == {"query", "update"}
Requests == 1..MaxRequests
Cells == 0..CAP_REDIS_BUFFER - 1
WorkerSet == ToSet(Workers)

VARIABLES
    conn,           \* "none", "asked", "open": registered, "closing": q_close, "ended"
    fin,            \* the peer has closed
    kind,           \* the kind of every request the peer has sent
    rcvbuf,         \* merged_q: requests, and whether they were read out of turn
    events,         \* the rings of the server, by priority
    srv,            \* the server thread: pc, priority of the event, request, register
    pos,            \* pos_query and pos_update, with the index that runs from them
    buf,            \* forwardQuery and forwardUpdate of every worker
    wk,             \* the workers: pc, cell and request they process
    mbufs,          \* of every worker: mbufs in its pool, and mbufs the stack holds
    done,           \* the requests the workers are done with, and the payload they used
    past            \* history

netVars == <<conn, fin, kind, rcvbuf, events>>
iotVars == <<netVars, srv, pos, buf, wk, mbufs, done, past>>
vars == <<rtVars, iotVars>>

initForwardBuffer == [cell |-> [c \in Cells |-> None], head |-> 0, tail |-> 0]

Idle == [pc |-> "get", pri |-> None, req |-> None, t |-> 0]
At(pc) == [pc |-> pc, kind |-> None, cell |-> 0, req |-> None]

(* passed: how many updates its worker took while a request waited for it  *)
(* in forwardQuery; raced: the server used the buffer of a worker that was *)
(* not started yet; missed: the events raised that the server never sees;  *)
(* other: the requests it put into the buffer of the other kind.           *)
NoPast == [passed |-> [r \in Requests |-> 0], raced |-> FALSE, missed |-> 0, other |-> {}]

Init ==
    /\ RuntimeInit
    /\ conn = "none" /\ fin = FALSE /\ kind = <<>> /\ rcvbuf = <<>>
    /\ events = [k \in Kinds |-> <<>>]
    /\ srv = Idle
    /\ pos = [k \in Kinds |-> 0]
    /\ buf = [k \in Kinds |-> [w \in WorkerSet |-> initForwardBuffer]]
    /\ wk = [w \in WorkerSet |-> At("init")]
    /\ mbufs = [w \in WorkerSet |-> [free |-> Mbufs, sent |-> 0]]
    /\ done = {} /\ past = NoPast

-----------------------------------------------------------------------------
(* The forward buffers. *)
Next_(c) == (c + 1) % CAP_REDIS_BUFFER

forwardBufferSize(k, w) == buf[k][w].head # buf[k][w].tail

\* Slip for ForwardedExactly: the last free cell is used as well.
forwardBufferFull_late(k, w) == FALSE

forwardBufferFull(k, w) == Next_(buf[k][w].tail) = buf[k][w].head

(* The cells between head and tail. *)
Waiting(k, w) ==
    LET b == buf[k][w]
    IN  {(b.head + n) % CAP_REDIS_BUFFER : n \in 0..((b.tail + CAP_REDIS_BUFFER - b.head)
                                                     % CAP_REDIS_BUFFER) - 1}

-----------------------------------------------------------------------------
(* The stack: the peer connects, sends requests and closes; each raises an *)
(* event.  redis_packet_pri_filter tells queries, whose events are of high *)
(* priority, from updates.                                                 *)
redis_packet_pri_filter(k) == kind' = Append(kind, k)

EventIn(pri, type) ==
    events' = [events EXCEPT ![pri] = Append(@, type)]
EventMissed ==
    /\ (\E k \in Stacks : Runs(Stack(k))) /\ UNCHANGED <<rtVars, events>>
    /\ past' = [past EXCEPT !.missed = @ + 1]

(* add_epoll_event.  An event before the server has registered the         *)
(* connection goes to the pending list, and from there to a channel that   *)
(* eventmgt_get does not read; one that finds the ring full is dropped.    *)
Raise(pri, type) ==
    /\ \/ /\ type = "accept" \/ conn = "open"
          /\ Len(events[pri]) < EventRing
          /\ \E k \in Stacks : wakeup_app_thread(k, Server)
          /\ EventIn(pri, type) /\ past' = past
       \/ type # "accept" /\ conn # "open" /\ EventMissed
       \/ conn = "open" /\ Len(events[pri]) = EventRing /\ EventMissed
    /\ UNCHANGED <<srv, pos, buf, wk, mbufs, done>>

Connect ==
    /\ Listening /\ conn = "none" /\ conn' = "asked"
    /\ Raise("query", "accept") /\ UNCHANGED <<fin, kind, rcvbuf>>

SendRequest ==
    /\ conn \in {"asked", "open"} /\ ~ fin
    /\ \E k \in Kinds :
          /\ Len(SelectSeq(kind, LAMBDA j : j = k)) < conf[k]
          /\ redis_packet_pri_filter(k)
          /\ rcvbuf' = Append(rcvbuf, [req |-> Len(kind'), read |-> FALSE])
          /\ Raise(k, "read")
    /\ UNCHANGED <<conn, fin>>

(* raise_close_event: a read event of high priority. *)
Finish ==
    /\ conf.fin /\ conn \in {"asked", "open"} /\ ~ fin /\ fin' = TRUE
    /\ Raise("query", "read") /\ UNCHANGED <<conn, kind, rcvbuf>>

(* The stack handles the call of q_close, and then no answer is sent. *)
handle_close_call ==
    /\ \E k \in Stacks : Runs(Stack(k))
    /\ conn = "closing" /\ conn' = "ended"
    /\ UNCHANGED <<rtVars, fin, kind, rcvbuf, events, srv, pos, buf, wk, mbufs, done, past>>

(* The peer acknowledges an answer, and the stack frees its mbuf. *)
mbuf_free(w) ==
    /\ \E k \in Stacks : Runs(Stack(k))
    /\ mbufs[w].sent > 0
    /\ mbufs' = [mbufs EXCEPT ![w] = [free |-> @.free + 1, sent |-> @.sent - 1]]
    /\ UNCHANGED <<rtVars, netVars, srv, pos, buf, wk, done, past>>

-----------------------------------------------------------------------------
(* The server thread. *)
ServerAt(pc) == Runs(App(Server)) /\ srv.pc = pc
ServerTo(pc) == srv' = [srv EXCEPT !.pc = pc]
Shared == core_id[Server] \in Stacks

\* Slip for EveryRequestDone: the core is given back as if there were no event.
rt_check_asleep ==
    /\ ServerAt("get") /\ ServerTo("fetch")
    /\ UNCHANGED <<netVars, pos, buf, wk, mbufs, done, past>>
    /\ yield_to_stack(Server, TRUE) \/ UNCHANGED rtVars

(* eventmgt_get: rt_check, which may give the core back for a while... *)
rt_check ==
    /\ ServerAt("get") /\ ServerTo("fetch")
    /\ UNCHANGED <<netVars, pos, buf, wk, mbufs, done, past>>
    /\ yield_to_stack(Server, FALSE) \/ UNCHANGED rtVars

(* ... then an event, one of high priority if there is one, ... *)
NoEvent == \A k \in Kinds : events[k] = <<>>
eventmgt_get ==
    LET pri == IF events["query"] # <<>> THEN "query" ELSE "update"
    IN  /\ ServerAt("fetch") /\ ~ NoEvent
        /\ events' = [events EXCEPT ![pri] = Tail(@)]
        /\ srv' = [srv EXCEPT !.pc = Head(events[pri]), !.pri = pri]
        /\ UNCHANGED <<rtVars, conn, fin, kind, rcvbuf, pos, buf, wk, mbufs, done, past>>

\* Slip for StackRunsAgain: it polls for events where it should sleep.
keep_polling ==
    /\ ServerAt("fetch") /\ NoEvent /\ ServerTo("get")
    /\ UNCHANGED <<rtVars, netVars, pos, buf, wk, mbufs, done, past>>

(* ... or, when there is none, sleep on the core of a stack. *)
fall_asleep ==
    /\ ServerAt("fetch") /\ NoEvent /\ ServerTo("get")
    /\ IF Shared THEN yield_to_stack(Server, TRUE) ELSE UNCHANGED rtVars
    /\ UNCHANGED <<netVars, pos, buf, wk, mbufs, done, past>>

(* The listener's event: q_accept and qepoll_ctl. *)
qstack_acceptConn ==
    /\ ServerAt("accept") /\ srv' = Idle /\ conn' = "open"
    /\ UNCHANGED <<rtVars, fin, kind, rcvbuf, events, pos, buf, wk, mbufs, done, past>>

(* rb_get: the first query of high_q that was not read, which stays in     *)
(* merged_q as read unless it is the head; otherwise the first of merged_q *)
(* that was not read, and with it those before it are gone.                *)
rb_get ==
    LET unread == {i \in DOMAIN rcvbuf : ~ rcvbuf[i].read}
        high_q == {i \in unread : kind[rcvbuf[i].req] = "query"}
        h == Min(high_q)
        m == Min(unread)
    IN  CASE high_q # {} -> [req |-> rcvbuf[h].req, left |->
                             IF h = 1 THEN Tail(rcvbuf) ELSE [rcvbuf EXCEPT ![h].read = TRUE]]
          [] high_q = {} /\ unread # {} ->
                 [req |-> rcvbuf[m].req, left |-> SubSeq(rcvbuf, m + 1, Len(rcvbuf))]
          [] unread = {} -> [req |-> None, left |-> <<>>]

(* q_recv in HandleReadEvent.  It returns 0 at the end of the stream, and  *)
(* the server calls q_close; a request; or EAGAIN, which the server        *)
(* ignores, also where the end of the stream comes behind requests that    *)
(* were read out of turn.                                                  *)
AtEnd == fin /\ rcvbuf = <<>>

qstack_closeConn ==
    /\ ServerAt("read") /\ AtEnd /\ srv' = Idle /\ conn' = "closing"
    /\ UNCHANGED <<rtVars, fin, kind, rcvbuf, events, pos, buf, wk, mbufs, done, past>>

q_recv ==
    LET got == rb_get
    IN  /\ ServerAt("read") /\ ~ AtEnd
        /\ rcvbuf' = got.left
        /\ srv' = IF got.req = None THEN Idle ELSE [srv EXCEPT !.pc = "forward", !.req = got.req]
        /\ UNCHANGED <<rtVars, conn, fin, kind, events, pos, buf, wk, mbufs, done, past>>

(* HandleReadEvent with a request: from the worker whose turn it is on,    *)
(* the first whose buffer is not full; it spins until there is one.  The   *)
(* priority of the event chooses the buffer.                               *)
Kind == srv.pri
Index == Workers[pos[Kind] + 1]
NextWorker == pos' = [pos EXCEPT ![Kind] = (@ + 1) % Len(Workers)]

HandleReadEvent ==
    /\ ServerAt("forward")
    /\ IF forwardBufferFull(Kind, Index)
       THEN NextWorker /\ srv' = srv
       ELSE ServerTo("write") /\ pos' = pos
    /\ UNCHANGED <<rtVars, netVars, buf, wk, mbufs, done, past>>

Started(w) == wk[w].pc # "init"

FillCell ==
    /\ ServerAt("write") /\ ServerTo("load")
    /\ buf' = [buf EXCEPT ![Kind][Index].cell[buf[Kind][Index].tail] = srv.req]
    /\ past' = [past EXCEPT !.raced = @ \/ ~ Started(Index),
                            !.other = IF kind[srv.req] = Kind THEN @ ELSE @ \cup {srv.req}]
    /\ UNCHANGED <<rtVars, netVars, pos, wk, mbufs, done>>

(* tailNext: the load and the store; a worker that starts may come between. *)
tailNext_load ==
    /\ ServerAt("load")
    /\ srv' = [srv EXCEPT !.pc = "store", !.t = Next_(buf[Kind][Index].tail)]
    /\ UNCHANGED <<rtVars, netVars, pos, buf, wk, mbufs, done, past>>

tailNext ==
    /\ ServerAt("store")
    /\ buf' = [buf EXCEPT ![Kind][Index].tail = srv.t]
    /\ NextWorker
    /\ srv' = Idle
    /\ UNCHANGED <<rtVars, netVars, wk, mbufs, done, past>>

-----------------------------------------------------------------------------
(* A worker: redis_requests.  It connects to its database and clears its  *)
(* buffers, whatever is in them; then it serves them for ever.             *)
WorkerAt(w, pc) == Runs(App(w)) /\ wk[w].pc = pc
WorkerTo(w, pc) == wk' = [wk EXCEPT ![w].pc = pc]

StartWorker(w) ==
    /\ UNCHANGED <<rtVars, netVars, srv, pos, mbufs, done, past>>
    /\ WorkerAt(w, "init") /\ WorkerTo(w, "query")
    /\ buf' = [k \in Kinds |-> [buf[k] EXCEPT ![w] = initForwardBuffer]]

(* process_requests and process_updates: the request is read and headNext  *)
(* frees its cell; the payload is still read from that cell.               *)
Take(w, k) ==
    LET h == buf[k][w].head
    IN  /\ forwardBufferSize(k, w)
        /\ wk' = [wk EXCEPT ![w] = [pc |-> "use", kind |-> k, cell |-> h,
                                    req |-> buf[k][w].cell[h]]]
        /\ buf' = [buf EXCEPT ![k][w].head = Next_(@)]
        /\ UNCHANGED <<rtVars, netVars, srv, pos, mbufs, done>>

(* The queries, until there is none. *)
process_requests(w) == WorkerAt(w, "query") /\ Take(w, "query") /\ UNCHANGED past

NoQuery(w) ==
    /\ WorkerAt(w, "query") /\ ~ forwardBufferSize("query", w) /\ WorkerTo(w, "update")
    /\ UNCHANGED <<rtVars, netVars, srv, pos, buf, mbufs, done, past>>

PassQueries(w) ==
    LET ids == {buf["query"][w].cell[c] : c \in Waiting("query", w)}
    IN  past' = [past EXCEPT !.passed = [r \in Requests |-> IF r \in ids THEN @[r] + 1 ELSE @[r]]]

process_updates(w) == WorkerAt(w, "update") /\ Take(w, "update") /\ PassQueries(w)

NoUpdate(w) ==
    /\ WorkerAt(w, "update") /\ ~ forwardBufferSize("update", w) /\ WorkerTo(w, "query")
    /\ UNCHANGED <<rtVars, netVars, srv, pos, buf, mbufs, done, past>>

Processed(w) ==
    done' = done \cup {[req |-> wk[w].req, payload |-> buf[wk[w].kind][w].cell[wk[w].cell]]}

\* Slip for QueryPassedOnce: all updates before the next query.
simpQuerytest_batch(w) ==
    /\ WorkerAt(w, "use") /\ Processed(w)
    /\ wk' = [wk EXCEPT ![w] = IF wk[w].kind = "query" THEN [@ EXCEPT !.pc = "answer"]
                               ELSE At("update")]
    /\ UNCHANGED <<rtVars, netVars, srv, pos, buf, mbufs, past>>

(* The database stores or counts it, or fails: none of it decides what the *)
(* worker does next.  An update is done with that, and the worker looks    *)
(* for queries after every request.                                        *)
simpQuerytest(w) ==
    /\ WorkerAt(w, "use") /\ Processed(w)
    /\ wk' = [wk EXCEPT ![w] = IF wk[w].kind = "query" THEN [@ EXCEPT !.pc = "answer"]
                               ELSE At("query")]
    /\ UNCHANGED <<rtVars, netVars, srv, pos, buf, mbufs, past>>

(* The answer: q_get_wmbuf spins while the pool is empty, and q_send hands *)
(* the mbuf to the stack; once the connection has ended it refuses, and    *)
(* nobody frees the mbuf.                                                  *)
q_get_wmbuf(w) ==
    /\ WorkerAt(w, "answer") /\ mbufs[w].free > 0
    /\ mbufs' = [mbufs EXCEPT ![w] = [free |-> @.free - 1,
                                      sent |-> IF conn = "ended" THEN @.sent ELSE @.sent + 1]]
    /\ wk' = [wk EXCEPT ![w] = At("query")]
    /\ UNCHANGED <<rtVars, netVars, srv, pos, buf, done, past>>

-----------------------------------------------------------------------------
ServerStep ==
    \/ rt_check \/ eventmgt_get \/ fall_asleep \/ qstack_acceptConn \/ qstack_closeConn
    \/ q_recv \/ HandleReadEvent \/ FillCell \/ tailNext_load \/ tailNext

WorkerStep(w) ==
    \/ StartWorker(w) \/ process_requests(w) \/ NoQuery(w) \/ process_updates(w)
    \/ NoUpdate(w) \/ simpQuerytest(w) \/ q_get_wmbuf(w)

MainStep ==
    /\ \/ qstack_init \/ qstack_createListenSock \/ create_app_pthread
       \/ __create_app_thread \/ knock_new_thread
    /\ UNCHANGED iotVars

StartStep(c) == (qstack_thread_start(c) \/ app_thread_start(c)) /\ UNCHANGED iotVars

WakeupStep(k) == wakeup_application(k) /\ UNCHANGED iotVars

(* A round of the stack's loop without anything to do, or the end. *)
Stopped ==
    /\ up # "yes" \/ \E k \in Stacks : Runs(Stack(k)) /\ ~ rt_ctx[k].knocked
    /\ UNCHANGED vars

Next ==
    \/ MainStep \/ Connect \/ SendRequest \/ Finish \/ handle_close_call
    \/ ServerStep \/ Stopped
    \/ \E c \in Cores : StartStep(c)
    \/ \E k \in Stacks : WakeupStep(k)
    \/ \E w \in WorkerSet : WorkerStep(w) \/ mbuf_free(w)
    \/ \E a \in Returning : ServerAt("get") /\ CoRoutineFunc(a) /\ UNCHANGED iotVars

(* The pthread of a core. *)
CoreStep(c) ==
    \/ StartStep(c)
    \/ c \in Stacks /\ WakeupStep(c)
    \/ flow[c] = App(Server) /\ ServerStep
    \/ \E w \in WorkerSet : flow[c] = App(w) /\ WorkerStep(w)

(* Every pthread is scheduled, and the loop of a stack comes round to      *)
(* wakeup_application; the peer owes nothing, not even acknowledgements.   *)
Spec == Init /\ [][Next]_vars /\ WF_vars(MainStep) /\ \A c \in Cores : WF_vars(CoreStep(c))

-----------------------------------------------------------------------------
(* Every request the peer sent is in one place: unread, with the server,   *)
(* in one buffer, with one worker, or done; and what a worker reads as the *)
(* payload is that of the request it took, although the cell is free by    *)
(* then: a full buffer keeps one cell unused.  Nothing is said once the    *)
(* server used the buffer of a worker that had still to clear it.  On the  *)
(* core of the stack a request is in the buffer of its kind, unless the    *)
(* server missed an event, and then uses a later one for it, or the high   *)
(* priority event of the end of the stream came before that of an update.  *)
ForwardedExactly ==
    \/ past.raced
    \/ /\ \A d \in done : d.payload = d.req
       /\ \A r \in DOMAIN kind :
            LET unread == {i \in DOMAIN rcvbuf : rcvbuf[i].req = r /\ ~ rcvbuf[i].read}
                holding == {s \in {srv} : s.req = r}
                cells == {x \in Kinds \X WorkerSet \X Cells :
                             x[3] \in Waiting(x[1], x[2]) /\ buf[x[1]][x[2]].cell[x[3]] = r}
                workers == {w \in WorkerSet : wk[w].pc = "use" /\ wk[w].req = r}
            IN  Cardinality(unread) + Cardinality(holding) + Cardinality(cells)
                + Cardinality(workers) + Cardinality({d \in done : d.req = r}) = 1
       /\ Shared /\ past.missed = 0 /\ ~ fin => past.other = {}

(* While a request waits in forwardQuery, its worker starts at most one    *)
(* update: it looks for queries again after each of them.                  *)
QueryPassedOnce == \A r \in Requests : past.passed[r] <= 1

(* The worker spins in q_get_wmbuf. *)
Starved(w) == wk[w].pc = "answer" /\ mbufs[w].free = 0

(* The server gets as many requests done as it has seen events: every      *)
(* missed event leaves one request unread for ever, and nothing else does. *)
(* A full buffer, a core given back and sleep only delay requests, unless  *)
(* a worker waits for an mbuf for ever.                                    *)
EveryRequestDone ==
    \/ <>[](\E w \in WorkerSet : Starved(w))
    \/ \A n \in Requests :
          (Len(kind) >= n) ~> (Cardinality(done) + past.missed >= n \/ past.raced \/ up # "yes")

(* A stack whose core the server uses gets it back, even when the server   *)
(* has to wait for its workers, but for one case: the buffers of all       *)
(* workers are full and all workers wait for an mbuf, which nobody but the *)
(* stack can free.                                                         *)
CircularWait ==
    srv.pc = "forward" /\ \A w \in WorkerSet : forwardBufferFull(Kind, w) /\ Starved(w)
StackRunsAgain ==
    \A k \in Stacks :
        (Shared /\ flow[k] = App(Server)) ~> (rt_ctx[k].on_stack \/ up # "yes" \/ CircularWait)
=============================================================================
