------------------------------ MODULE Sockets ------------------------------
(***************************************************************************)
(* Sockets, listeners and streams: the socket table with its free list per *)
(* stack (socket.c), the calls of the application (api.c), and the stacks, *)
(* which open streams for them and for the peers (core.c, tcp_in.c,        *)
(* tcp_stream.c).                                                          *)
(*                                                                         *)
(* q_socket takes sockets from the list of stack 0; a passive open takes   *)
(* one from the list of its own stack; a socket is freed to the list of    *)
(* the stack that destroys its stream.  Socket numbers and stream blocks   *)
(* are used again, and the application is not told when a stream times     *)
(* out: it may go on using the number.                                     *)
(*                                                                         *)
(* The application runs on the core of stack 0, so that a call and a step  *)
(* of stack 0 do not overlap ("the socket alloc and free may not be        *)
(* multi-core safe", api.c); Connection interleaves q_close with another   *)
(* stack.  Abstractions: a connection is named by its local port           *)
(* (connected) or by its peer (accepted), RSS says which stack serves it,  *)
(* and of the state of a stream only what the calls tell apart is kept.    *)
(***************************************************************************)
EXTENDS Naturals, Sequences, Functions

CONSTANTS
    NumStacks, None,
    Listener,           \* what the stream pointer of a listener is (a union)
    SocketsPerStack,    \* MAX_SOCKET_PSTACK
    StreamsPerStack,    \* the share of a stack in mp_stream
    Ports, Peers,
    RSS,                \* get_rss_core and the device: who serves a connection
    MaxListeners,       \* MAX_SOCKET_NUM, the size of the listeners table
    Backlog, MaxConnects, \* the sizes of an accept queue and of connect_queue
    MaxCalls            \* bound: calls of the application

ASSUME SocketsAssumption ==
    /\ {NumStacks, SocketsPerStack, StreamsPerStack} \subseteq Nat \ {0}
    /\ RSS \in [Ports \cup Peers -> 0 .. NumStacks - 1]
    /\ Ports \cap Peers = {}
    /\ None \notin Ports \cup Peers

Stacks == 0 .. NumStacks - 1
Socks == 0 .. NumStacks * SocketsPerStack - 1
Streams == Stacks \X (1 .. StreamsPerStack)

ASSUME PointersAssumption == None \notin Streams /\ Listener \notin Streams \cup {None}

VARIABLES
    sock,       \* the sockets
    free,       \* free_socket of every stack
    str,        \* the stream blocks
    ht,         \* stream_ht of every stack
    listeners, acceptq, connect_queue, close_queue,
    held,       \* the socket numbers the application uses
    stale,      \* those of them whose connection timed out
    misused,    \* history: a number, an address or a block was used for two
    up,         \* "yes", or why the process ended
    calls       \* calls of the application so far

vars == <<sock, free, str, ht, listeners, acceptq, connect_queue, close_queue,
          held, stale, misused, up, calls>>

FreshSocket == [type |-> "UNUSED", stream |-> None, port |-> None]
FreeBlock == [live |-> FALSE, socket |-> None, conn |-> None, state |-> "CLOSED",
              closed |-> FALSE]

(* socket_table_init, listeners_init and the queues of the contexts *)
Init ==
    /\ sock = [s \in Socks |-> FreshSocket]
    /\ free = [k \in Stacks |-> [i \in 1 .. SocketsPerStack |-> k * SocketsPerStack + i - 1]]
    /\ str = [st \in Streams |-> FreeBlock]
    /\ ht = [k \in Stacks |-> [c \in Ports \cup Peers |-> None]]
    /\ listeners = <<>> /\ acceptq = <<>>
    /\ connect_queue = [k \in Stacks |-> <<>>]
    /\ close_queue = [k \in Stacks |-> <<>>]
    /\ held = {} /\ stale = {} /\ misused = FALSE /\ up = "yes" /\ calls = 0

(* What a socket is after socket_alloc. *)
socket_alloc(socktype) == [type |-> socktype, stream |-> None, port |-> None]

get_sock_pool_map == 0

(* The hash table of a stack (hashtable.c).  ht_insert replaces the entry  *)
(* of a connection that is there already; ht_search gives None where the   *)
(* key is not found.                                                       *)
ht_insert(k, key, value) == [ht EXCEPT ![k][key] = value]
ht_search(k, key) == ht[k][key]
ht_delete(k, key) == [ht EXCEPT ![k][key] = None]

(* The queue q of the stack k (stream_queue.h): here one thread fills it,  *)
(* so that its calls are served in their order (N21Queue has several).     *)
streamq_enqueue(q, k, entry) == [q EXCEPT ![k] = Append(@, entry)]
streamq_dequeue(q, k) == [q EXCEPT ![k] = Tail(@)]

(***************************************************************************)
(* Calls of the application.                                               *)
(***************************************************************************)
MayCall == up = "yes" /\ calls < MaxCalls /\ calls' = calls + 1

q_socket ==
    /\ MayCall /\ free[get_sock_pool_map] # <<>>
    /\ LET s == Head(free[get_sock_pool_map])
       IN  /\ sock' = [sock EXCEPT ![s] = socket_alloc("STREAM")]
           /\ free' = [free EXCEPT ![get_sock_pool_map] = Tail(@)]
           /\ held' = held \cup {s} /\ stale' = stale \ {s}
    /\ UNCHANGED <<str, ht, listeners, acceptq, connect_queue, close_queue, misused, up>>

(* SOCK_OPT_ADDR_BIND: q_accept sets the address of a socket, not the flag. *)
Bound(s) == sock[s].port \in Ports

q_bind(s, port) ==
    /\ MayCall /\ s \in held
    /\ sock[s].type \in {"STREAM", "LISTENER"} /\ ~ Bound(s)
    /\ sock' = [sock EXCEPT ![s].port = port]
    /\ misused' = (misused \/ s \in stale)
    /\ UNCHANGED <<free, str, ht, listeners, acceptq, connect_queue, close_queue,
                   held, stale, up>>

listeners_search(port) == \E i \in DOMAIN listeners : sock[listeners[i].socket].port = port

(* The socket becomes a listener before the call can fail: for a bad       *)
(* backlog, a port that is taken, or a full table.  A socket that connects *)
(* is not refused.                                                         *)
q_listen(s, good_backlog) ==
    /\ MayCall /\ s \in held
    /\ sock[s].type \in {"STREAM", "LISTENER"}
    /\ sock' = [sock EXCEPT ![s].type = "LISTENER",
                           ![s].stream = IF good_backlog /\ ~ listeners_search(sock[s].port)
                                         THEN Listener ELSE @]
    /\ misused' = (misused \/ s \in stale \/ sock[s].stream # None
                            \/ \E k \in Stacks : s \in Range(connect_queue[k]))
    /\ listeners' = IF good_backlog /\ ~ listeners_search(sock[s].port)
                       /\ Len(listeners) < MaxListeners
                    THEN Append(listeners, [socket |-> s, port |-> sock[s].port])
                    ELSE listeners
    /\ UNCHANGED <<free, str, ht, acceptq, connect_queue, close_queue, held, stale, up>>

(* Two sockets with one address, or two calls for one socket, are not told *)
(* apart before the stack has made the first stream.  To connect without   *)
(* an address ends the process (TRACE_TODO).                               *)
Taken(s) ==
    \/ \E k \in Stacks : \E i \in DOMAIN connect_queue[k] :
          sock[connect_queue[k][i]].port = sock[s].port
    \/ \E st \in Streams : str[st].live /\ str[st].conn = sock[s].port

q_connect(s) ==
    LET k == RSS[sock[s].port]
    IN  /\ MayCall /\ s \in held
        /\ sock[s].type = "STREAM" /\ sock[s].stream = None
        /\ \/ /\ ~ Bound(s) /\ up' = "unbound"
              /\ UNCHANGED <<connect_queue, misused>>
           \/ /\ Bound(s) /\ Len(connect_queue[k]) < MaxConnects /\ up' = up
              /\ connect_queue' = streamq_enqueue(connect_queue, k, s)
              /\ misused' = (misused \/ Taken(s) \/ s \in stale)
        /\ UNCHANGED <<sock, free, str, ht, listeners, acceptq, close_queue, held, stale>>

(* The block in the queue is taken for a connection, whatever it is by     *)
(* now.  Where q_listen failed there is no listener to take it from.       *)
q_accept(l) ==
    /\ MayCall /\ l \in held /\ sock[l].type = "LISTENER"
    /\ \/ /\ sock[l].stream # Listener /\ up' = "no listener"
          /\ UNCHANGED <<sock, acceptq, held, stale>>
       \/ /\ sock[l].stream = Listener /\ l = listeners[1].socket /\ acceptq # <<>>
          /\ LET st == Head(acceptq)
                 s == str[st].socket
             IN  /\ sock' = [sock EXCEPT ![s].stream = st, ![s].port = str[st].conn]
                 /\ held' = held \cup {s} /\ stale' = stale \ {s}
          /\ acceptq' = Tail(acceptq) /\ up' = up
    /\ UNCHANGED <<free, str, ht, listeners, connect_queue, close_queue, misused>>

(* close_stream_socket: closed is set even if the state forbids the call,  *)
(* which then is of no effect now and later.                               *)
close_stream_socket(st) ==
    /\ str' = [str EXCEPT ![st].closed = TRUE]
    /\ close_queue' = IF ~ str[st].closed /\ str[st].state \in {"ESTABLISHED", "CLOSE_WAIT"}
                      THEN streamq_enqueue(close_queue, st[1], st)
                      ELSE close_queue

(* q_close reads the state of the stream before it tests whether there is  *)
(* a stream.                                                               *)
q_close(s) ==
    /\ MayCall /\ s \in held
    /\ LET st == sock[s].stream
           stream == sock[s].type = "STREAM"
       IN  /\ up' = IF stream /\ st = None THEN "close without stream" ELSE up
           /\ misused' = (misused \/ (stream /\ s \in stale))
           /\ IF stream /\ st # None THEN close_stream_socket(st)
              ELSE UNCHANGED <<str, close_queue>>
           /\ held' = IF sock[s].type = "LISTENER" THEN held ELSE held \ {s}
           /\ stale' = stale \ {s}
    /\ UNCHANGED <<sock, free, ht, listeners, acceptq, connect_queue>>

(***************************************************************************)
(* Steps of the stacks.                                                    *)
(***************************************************************************)
FreeBlocks(k) == {st \in Streams : st[1] = k /\ ~ str[st].live}

tcp_stream_create(st, s, conn, state) ==
    /\ str' = [str EXCEPT ![st] = [live |-> TRUE, socket |-> s, conn |-> conn,
                                   state |-> state, closed |-> FALSE]]
    /\ ht' = ht_insert(st[1], conn, st)

(* The process exits when the pool of streams is empty, or the socket has  *)
(* lost its address meanwhile.                                             *)
handle_connect_call(k) ==
    LET s == Head(connect_queue[k])
    IN  /\ up = "yes" /\ connect_queue[k] # <<>>
        /\ connect_queue' = streamq_dequeue(connect_queue, k)
        /\ \/ /\ sock[s].port # None => FreeBlocks(k) = {}
              /\ up' = IF sock[s].port = None THEN "unbound" ELSE "no stream"
              /\ UNCHANGED <<sock, str, ht>>
           \/ \E st \in FreeBlocks(k) :
                 /\ sock[s].port # None
                 /\ tcp_stream_create(st, s, sock[s].port, "SYN_SENT")
                 /\ sock' = [sock EXCEPT ![s].stream = st]
                 /\ up' = up
        /\ UNCHANGED <<free, listeners, acceptq, close_queue, held, stale, misused, calls>>

(* Only the first listener of the table is looked at. *)
syn_packet_filter == listeners # <<>> /\ listeners[1].port # None

\* Slip for LinksExact: a SYN that is sent again opens a stream again.
handle_every_syn(p) ==
    LET k == RSS[p]
        s == Head(free[k])
    IN  /\ up = "yes" /\ free[k] # <<>> /\ syn_packet_filter
        /\ free' = [free EXCEPT ![k] = Tail(@)]
        /\ \E st \in FreeBlocks(k) :
              /\ tcp_stream_create(st, s, p, "SYN_RCVD")
              /\ sock' = [sock EXCEPT ![s] = [socket_alloc("STREAM") EXCEPT !.stream = st]]
        /\ UNCHANGED <<listeners, acceptq, connect_queue, close_queue, held, stale, misused,
                       up, calls>>

(* A SYN for which no stream is found.  The result of socket_alloc is used *)
(* without a test.                                                         *)
handle_passive_open(p) ==
    LET k == RSS[p]
        s == Head(free[k])
    IN  /\ up = "yes" /\ ht_search(k, p) = None /\ syn_packet_filter
        /\ \/ /\ free[k] = <<>> /\ up' = "no socket"
              /\ UNCHANGED <<sock, free, str, ht>>
           \/ /\ free[k] # <<>> /\ FreeBlocks(k) = {} /\ up' = "no stream"
              /\ UNCHANGED <<sock, free, str, ht>>
           \/ /\ free[k] # <<>> /\ free' = [free EXCEPT ![k] = Tail(@)]
              /\ \E st \in FreeBlocks(k) :
                    /\ tcp_stream_create(st, s, p, "SYN_RCVD")
                    /\ sock' = [sock EXCEPT ![s] = [socket_alloc("STREAM") EXCEPT !.stream = st]]
              /\ up' = up
        /\ UNCHANGED <<listeners, acceptq, connect_queue, close_queue, held, stale, misused,
                       calls>>

\* Slip for AcceptIsNew: a stream that waits to be accepted is not ESTABLISHED.
EstablishedLater(st) ==
    /\ up = "yes" /\ str[st].live /\ str[st].state \in {"SYN_SENT", "SYN_RCVD"}
    /\ IF str[st].state = "SYN_SENT"
       THEN str' = [str EXCEPT ![st].state = "ESTABLISHED"] /\ acceptq' = acceptq
       ELSE acceptq' = Append(acceptq, st) /\ str' = str
    /\ UNCHANGED <<sock, free, ht, listeners, connect_queue, close_queue,
                   held, stale, misused, up, calls>>

(* With a full accept queue the stream stays, CLOSED, until it times out. *)
Established(st) ==
    /\ up = "yes" /\ str[st].live /\ str[st].state \in {"SYN_SENT", "SYN_RCVD"}
    /\ LET full == str[st].state = "SYN_RCVD" /\ Len(acceptq) >= Backlog
       IN  /\ str' = [str EXCEPT ![st].state = IF full THEN "CLOSED" ELSE "ESTABLISHED"]
           /\ acceptq' = IF str[st].state = "SYN_RCVD" /\ ~ full
                         THEN Append(acceptq, st) ELSE acceptq
    /\ UNCHANGED <<sock, free, ht, listeners, connect_queue, close_queue,
                   held, stale, misused, up, calls>>

PeerCloses(st) ==
    /\ up = "yes" /\ str[st].live /\ str[st].state = "ESTABLISHED"
    /\ str' = [str EXCEPT ![st].state = "CLOSE_WAIT"]
    /\ UNCHANGED <<sock, free, ht, listeners, acceptq, connect_queue, close_queue,
                   held, stale, misused, up, calls>>

\* Slip for SocketsExact: the type of the socket is not tested.
socket_free_again(k, s) ==
    /\ sock' = [sock EXCEPT ![s].type = "UNUSED", ![s].stream = None]
    /\ free' = [free EXCEPT ![k] = Append(@, s)]
    /\ up' = up

(* TRACE_ERR ends the process at a socket that is free already. *)
socket_free(k, s) ==
    IF sock[s].type = "UNUSED"
    THEN up' = "freed already" /\ UNCHANGED <<sock, free>>
    ELSE /\ sock' = [sock EXCEPT ![s].type = "UNUSED", ![s].stream = None]
         /\ free' = [free EXCEPT ![k] = Append(@, s)]
         /\ up' = up

(* The socket of a stream that ends is freed and its block given back;    *)
(* the application is not told.                                            *)
Destroyed(st) ==
    /\ ht' = ht_delete(st[1], str[st].conn)
    /\ socket_free(st[1], str[st].socket)
    /\ str' = [str EXCEPT ![st].live = FALSE, ![st].state = "CLOSED"]
    /\ stale' = stale \cup (held \cap {str[st].socket})

(* The connection ends: after the FIN handshake, by a reset, or because a  *)
(* timer gives up.  A stream that waits to be accepted has sent no data,   *)
(* and is assumed not to wait for TCP_TIMEOUT (300 s).  One with a close   *)
(* call in the queue may die before the call is served: the call will find *)
(* the next user of the block.                                             *)
tcp_stream_destroy(st) ==
    /\ up = "yes" /\ str[st].live
    /\ st \in Range(acceptq) => str[st].state \notin {"ESTABLISHED", "CLOSE_WAIT"}
    /\ Destroyed(st)
    /\ misused' = (misused \/ st \in Range(close_queue[st[1]]))
    /\ UNCHANGED <<listeners, acceptq, connect_queue, close_queue, held, calls>>

(* A stream that was reset (have_reset; PeerCloses is a FIN or a reset) is *)
(* destroyed by the close call.                                            *)
handle_reset_call(k) ==
    LET st == Head(close_queue[k])
    IN  /\ up = "yes" /\ close_queue[k] # <<>>
        /\ str[st].live /\ str[st].state = "CLOSE_WAIT"
        /\ close_queue' = streamq_dequeue(close_queue, k)
        /\ Destroyed(st)
        /\ misused' = (misused \/ st \in Range(Tail(close_queue[k])))
        /\ UNCHANGED <<listeners, acceptq, connect_queue, held, calls>>

(* TRACE_ERR ends the process at a stream that is closed already, unless   *)
(* it was reset.                                                           *)
handle_close_call(k) ==
    LET st == Head(close_queue[k])
        s == str[st].state
    IN  /\ up = "yes" /\ close_queue[k] # <<>>
        /\ close_queue' = streamq_dequeue(close_queue, k)
        /\ up' \in {up} \cup (IF s = "CLOSED" THEN {"closed already"} ELSE {})
        /\ str' = [str EXCEPT ![st].state = CASE s = "ESTABLISHED" -> "FIN_WAIT_1"
                                              [] s = "CLOSE_WAIT" -> "LAST_ACK"
                                              [] OTHER -> s]
        /\ UNCHANGED <<sock, free, ht, listeners, acceptq, connect_queue,
                       held, stale, misused, calls>>

(* One turn of either loop: the batches of both are bounded. *)
handle_app_call(k) == handle_close_call(k) \/ handle_reset_call(k) \/ handle_connect_call(k)

Next ==
    \/ q_socket
    \/ \E s \in Socks, p \in Ports : q_bind(s, p)
    \/ \E s \in Socks, g \in BOOLEAN : q_listen(s, g)
    \/ \E s \in Socks : q_connect(s)
    \/ \E s \in Socks : q_accept(s) \/ q_close(s)
    \/ \E k \in Stacks : handle_app_call(k)
    \/ \E p \in Peers : handle_passive_open(p)
    \/ \E st \in Streams : Established(st) \/ PeerCloses(st) \/ tcp_stream_destroy(st)

Spec == Init /\ [][Next]_vars

-----------------------------------------------------------------------------
(* The free lists of all stacks together hold every unused socket, once,   *)
(* and no other, whatever the application does with old numbers; and as    *)
(* long as no number, address or block was used twice no socket is lost:   *)
(* one that is in use can be reached from a live stream, a connect call or *)
(* the application, or listens.                                            *)
SocketsExact ==
    /\ \A k \in Stacks : IsInjective(free[k])
    /\ \A k, l \in Stacks : k # l => Range(free[k]) \cap Range(free[l]) = {}
    /\ UNION {Range(free[k]) : k \in Stacks} = {s \in Socks : sock[s].type = "UNUSED"}
    /\ ~ misused => \A s \in Socks : sock[s].type = "STREAM" /\ up = "yes" =>
          \/ \E st \in Streams : str[st].live /\ str[st].socket = s
          \/ \E k \in Stacks : s \in Range(connect_queue[k])
          \/ s \in held

(* A live stream, its socket and its entry in the hash table belong        *)
(* together, as long as no number, address or block was used twice.        *)
LinksExact ==
    ~ misused => \A st \in Streams : str[st].live =>
        /\ sock[str[st].socket].type = "STREAM"
        /\ sock[str[st].socket].stream = st
        /\ ht[st[1]][str[st].conn] = st

(* Every stream that is accepted is alive and new to the application, as   *)
(* long as no number, address or block was used twice.                     *)
AcceptIsNew ==
    ~ misused => \A i \in DOMAIN acceptq :
        /\ str[acceptq[i]].live /\ ~ str[acceptq[i]].closed
        /\ str[acceptq[i]].socket \notin held \ stale
=============================================================================
