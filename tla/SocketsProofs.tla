--------------------------- MODULE SocketsProofs ---------------------------
(***************************************************************************)
(* What holds for any number of stacks, sockets, streams, ports and peers, *)
(* and any number of calls: SocketsExact, LinksExact, AcceptIsNew.         *)
(*                                                                         *)
(* The free lists are exact whatever the application does (FreeLists).     *)
(* The rest is said of a program that used no number, address or block for *)
(* two things, and is proved together: a live block and its socket point   *)
(* at each other (Linked, Owned), a queued connect call has a socket and   *)
(* an address of its own (Connecting), a queued close call a live block    *)
(* that was closed (Closing), and nobody but a passive open has a block    *)
(* that is not accepted yet (Unaccepted, NotYetQueued, Given).             *)
(***************************************************************************)
EXTENDS Sockets, TLAPS

(* Zenon proves most leaves; one that needs SMT says so. *)
USE ZenonT(60)

Conns == Ports \cup Peers
States == {"CLOSED", "SYN_SENT", "SYN_RCVD", "ESTABLISHED", "CLOSE_WAIT",
           "FIN_WAIT_1", "LAST_ACK"}
SocketType == [type : {"UNUSED", "STREAM", "LISTENER"},
               stream : Streams \cup {None, Listener}, port : Conns \cup {None}]
BlockType == [live : BOOLEAN, socket : Socks \cup {None}, conn : Conns \cup {None},
              state : States, closed : BOOLEAN]

Types ==
    /\ sock \in [Socks -> SocketType]
    /\ str \in [Streams -> BlockType]
    /\ free \in [Stacks -> Seq(Socks)]
    /\ ht \in [Stacks -> [Conns -> Streams \cup {None}]]
    /\ connect_queue \in [Stacks -> Seq(Socks)]
    /\ close_queue \in [Stacks -> Seq(Streams)]
    /\ acceptq \in Seq(Streams)
    /\ held \subseteq Socks /\ stale \subseteq Socks
    /\ misused \in BOOLEAN

(* A block that was ever used names a socket and a connection, and the     *)
(* stream of a stream socket is a block.                                   *)
Pointers ==
    /\ \A st \in Streams : str[st].live => str[st].socket \in Socks /\ str[st].conn \in Conns
    /\ \A i \in DOMAIN acceptq : str[acceptq[i]].socket \in Socks /\ str[acceptq[i]].conn \in Conns
    /\ \A s \in Socks : sock[s].type = "STREAM" => sock[s].stream # Listener

FreeLists ==
    /\ \A k, l \in Stacks : \A i \in DOMAIN free[k], j \in DOMAIN free[l] :
          free[k][i] = free[l][j] => k = l /\ i = j
    /\ \A k \in Stacks : \A i \in DOMAIN free[k] : sock[free[k][i]].type = "UNUSED"
    /\ \A s \in Socks : sock[s].type = "UNUSED" =>
          \E k \in Stacks : \E i \in DOMAIN free[k] : free[k][i] = s

-----------------------------------------------------------------------------
(* As long as nothing was misused. *)
Linked ==
    \A st \in Streams : str[st].live =>
        /\ sock[str[st].socket].type = "STREAM"
        /\ sock[str[st].socket].stream = st
        /\ ht[st[1]][str[st].conn] = st

Owned ==
    \A s \in Socks : sock[s].stream \in Streams =>
        str[sock[s].stream].live /\ str[sock[s].stream].socket = s

Connecting ==
    /\ \A k \in Stacks : \A i \in DOMAIN connect_queue[k] :
          LET s == connect_queue[k][i]
          IN  /\ sock[s].type = "STREAM" /\ sock[s].stream = None /\ sock[s].port \in Ports
              /\ \A st \in Streams : str[st].live => str[st].conn # sock[s].port
    /\ \A k, l \in Stacks : \A i \in DOMAIN connect_queue[k], j \in DOMAIN connect_queue[l] :
          sock[connect_queue[k][i]].port = sock[connect_queue[l][j]].port => k = l /\ i = j

Closing ==
    \A k \in Stacks : \A i \in DOMAIN close_queue[k] :
        /\ close_queue[k][i][1] = k
        /\ str[close_queue[k][i]].live /\ str[close_queue[k][i]].closed

Unaccepted ==
    /\ \A i \in DOMAIN acceptq :
          /\ str[acceptq[i]].live /\ ~ str[acceptq[i]].closed
          /\ str[acceptq[i]].state \in {"ESTABLISHED", "CLOSE_WAIT"}
          /\ str[acceptq[i]].socket \notin held \ stale
    /\ \A i, j \in DOMAIN acceptq : acceptq[i] = acceptq[j] => i = j

NotYetQueued ==
    \A st \in Streams : str[st].live /\ str[st].state = "SYN_RCVD" =>
        ~ str[st].closed /\ str[st].socket \notin held \ stale

Given ==
    \A s \in Socks : sock[s].type = "UNUSED" => s \notin held \ stale

Reachable ==
    \A s \in Socks : sock[s].type = "STREAM" /\ up = "yes" =>
        \/ \E st \in Streams : str[st].live /\ str[st].socket = s
        \/ \E k \in Stacks : \E i \in DOMAIN connect_queue[k] : connect_queue[k][i] = s
        \/ s \in held

Clean ==
    /\ Linked /\ Owned /\ Connecting /\ Closing /\ Unaccepted /\ NotYetQueued
    /\ Given /\ Reachable

IInv == Types /\ Pointers /\ FreeLists /\ (~ misused => Clean)

-----------------------------------------------------------------------------
LEMMA Basics ==
    /\ 0 \in Stacks /\ get_sock_pool_map \in Stacks
    /\ None \notin Streams /\ Listener \notin Streams /\ Listener # None
    /\ None \notin Conns /\ Ports \subseteq Conns /\ Peers \subseteq Conns
    /\ \A p \in Ports : p \notin Peers
    /\ \A c \in Conns : RSS[c] \in Stacks
    /\ \A st \in Streams : st[1] \in Stacks
BY SocketsAssumption, PointersAssumption, SMTT(30) DEF Stacks, Streams, Conns, get_sock_pool_map

(* What the sequence operators do to a list that is not empty. *)
LEMMA Tails ==
    ASSUME NEW S, NEW q \in Seq(S), q # <<>>
    PROVE  /\ Head(q) \in S /\ Head(q) = q[1] /\ 1 \in DOMAIN q
           /\ Tail(q) \in Seq(S)
           /\ \A i \in DOMAIN Tail(q) : /\ i \in Nat /\ i + 1 # 1
                                        /\ i + 1 \in DOMAIN q /\ Tail(q)[i] = q[i + 1]
           /\ \A i \in DOMAIN q : i = 1 \/ (i - 1 \in DOMAIN Tail(q) /\ Tail(q)[i - 1] = q[i])
BY SMTT(30)

LEMMA Appends ==
    ASSUME NEW S, NEW q \in Seq(S), NEW x \in S
    PROVE  /\ Append(q, x) \in Seq(S)
           /\ DOMAIN q \subseteq DOMAIN Append(q, x)
           /\ \A i \in DOMAIN q : Append(q, x)[i] = q[i]
           /\ Len(q) + 1 \in DOMAIN Append(q, x) /\ Append(q, x)[Len(q) + 1] = x
           /\ \A i \in DOMAIN Append(q, x) : i \in DOMAIN q \/ i = Len(q) + 1
BY SMTT(30)

(* The types of the updates. *)
LEMMA SocketUpdates ==
    ASSUME NEW r \in SocketType
    PROVE  /\ r.stream \in Streams \cup {None, Listener} /\ r.port \in Conns \cup {None}
           /\ \A p \in Conns \cup {None} : [r EXCEPT !.port = p] \in SocketType
           /\ \A x \in Streams \cup {None, Listener} : [r EXCEPT !.stream = x] \in SocketType
           /\ \A y \in {"UNUSED", "STREAM", "LISTENER"} : [r EXCEPT !.type = y] \in SocketType
BY DEF SocketType

(* Two fields of one socket are updated one after the other. *)
LEMMA SocketUpdated ==
    ASSUME NEW f \in [Socks -> SocketType], NEW s \in Socks,
           NEW y \in {"UNUSED", "STREAM", "LISTENER"},
           NEW x \in Streams \cup {None, Listener}, NEW p \in Conns \cup {None}
    PROVE  /\ [f EXCEPT ![s].type = y, ![s].stream = x] \in [Socks -> SocketType]
           /\ [f EXCEPT ![s].stream = x, ![s].port = p] \in [Socks -> SocketType]
<1>1. [f EXCEPT ![s].type = y] \in [Socks -> SocketType]
  BY SocketUpdates
<1>2. [f EXCEPT ![s].stream = x] \in [Socks -> SocketType]
  BY SocketUpdates
<1>3. \A g \in [Socks -> SocketType] : [g EXCEPT ![s].stream = x] \in [Socks -> SocketType]
  BY SocketUpdates
<1>4. \A g \in [Socks -> SocketType] : [g EXCEPT ![s].port = p] \in [Socks -> SocketType]
  BY SocketUpdates
<1>5. [[f EXCEPT ![s].type = y] EXCEPT ![s].stream = x] \in [Socks -> SocketType]
  BY <1>1, <1>3
<1>6. [[f EXCEPT ![s].stream = x] EXCEPT ![s].port = p] \in [Socks -> SocketType]
  BY <1>2, <1>4
<1> QED BY <1>5, <1>6

LEMMA BlockUpdates ==
    ASSUME NEW r \in BlockType
    PROVE  /\ [r EXCEPT !.closed = TRUE] \in BlockType
           /\ [r EXCEPT !.live = FALSE] \in BlockType
           /\ \A x \in States : [r EXCEPT !.state = x] \in BlockType
BY DEF BlockType

LEMMA TypesStep ==
    ASSUME Types, Pointers, Next
    PROVE  Types'
<1> USE Basics
<1>1. CASE q_socket
  <2>1. Head(free[0]) \in Socks /\ Tail(free[0]) \in Seq(Socks)
    BY <1>1, Tails DEF q_socket, Types, get_sock_pool_map
  <2>2. socket_alloc("STREAM") \in SocketType
    BY DEF socket_alloc, SocketType
  <2> QED BY <1>1, <2>1, <2>2 DEF q_socket, Types, get_sock_pool_map
<1>2. ASSUME NEW s \in Socks, NEW p \in Ports, q_bind(s, p)
      PROVE  Types'
  BY <1>2, SocketUpdates DEF q_bind, Types
<1>3. ASSUME NEW s \in Socks, NEW g \in BOOLEAN, q_listen(s, g)
      PROVE  Types'
  BY <1>3, SocketUpdates DEF q_listen, Types
<1>4. ASSUME NEW s \in Socks, q_connect(s)
      PROVE  Types'
  <2>1. CASE ~ Bound(s)
    BY <1>4, <2>1 DEF q_connect, Types
  <2>2. CASE Bound(s)
    <3>1. RSS[sock[s].port] \in Stacks
      BY <2>2 DEF Bound
    <3>2. Append(connect_queue[RSS[sock[s].port]], s) \in Seq(Socks)
      BY <3>1, Appends, SMTT(30) DEF Types
    <3> DEFINE k == RSS[sock[s].port]
    <3>3. connect_queue' = [connect_queue EXCEPT ![k] = Append(@, s)]
      BY <1>4, <2>2 DEF q_connect, streamq_enqueue
    <3>4. connect_queue' \in [Stacks -> Seq(Socks)]
      BY <3>1, <3>2, <3>3 DEF Types
    <3>5. misused' \in BOOLEAN
      BY <1>4, <2>2 DEF q_connect, Types
    <3> QED BY <1>4, <3>4, <3>5 DEF q_connect, Types
  <2> QED BY <2>1, <2>2
<1>5. ASSUME NEW s \in Socks, q_accept(s)
      PROVE  Types'
  <2>1. CASE sock[s].stream # Listener
    BY <1>5, <2>1 DEF q_accept, Types
  <2>2. CASE sock[s].stream = Listener
    <3> DEFINE st == Head(acceptq)
    <3>1. st \in Streams /\ Tail(acceptq) \in Seq(Streams) /\ acceptq # <<>>
      BY <1>5, <2>2, Tails DEF q_accept, Types
    <3>2. str[st].socket \in Socks /\ str[st].conn \in Conns
      BY <3>1, Tails, SMTT(30) DEF Pointers, Types
    <3>9. sock' = [sock EXCEPT ![str[st].socket].stream = st,
                               ![str[st].socket].port = str[st].conn]
      BY <1>5, <2>2 DEF q_accept
    <3>3. sock' \in [Socks -> SocketType]
      <4>1. PICK y \in Socks, c \in Conns : y = str[st].socket /\ c = str[st].conn
        BY <3>2
      <4>2. sock' = [sock EXCEPT ![y].stream = st, ![y].port = c]
        BY <3>9, <4>1
      <4>3. sock \in [Socks -> SocketType]
        BY DEF Types
      <4>4. st \in Streams \cup {None, Listener} /\ c \in Conns \cup {None}
        BY <3>1
      <4> HIDE DEF st
      <4> QED BY <4>2, <4>3, <4>4, SocketUpdated
    <3> QED BY <1>5, <2>2, <3>1, <3>2, <3>3 DEF q_accept, Types
  <2> QED BY <2>1, <2>2
<1>6. ASSUME NEW s \in Socks, q_close(s)
      PROVE  Types'
  <2>1. CASE sock[s].type = "STREAM" /\ sock[s].stream # None
    <3>1. sock[s].stream \in Streams
      BY <2>1 DEF Types, Pointers, SocketType
    <3> DEFINE st == sock[s].stream
    <3>2. /\ str' = [str EXCEPT ![st].closed = TRUE]
          /\ close_queue' \in {close_queue, [close_queue EXCEPT ![st[1]] = Append(@, st)]}
      BY <1>6, <2>1 DEF q_close, close_stream_socket, streamq_enqueue
    <3>3. str' \in [Streams -> BlockType]
      BY <3>1, <3>2, BlockUpdates DEF Types
    <3>4. Append(close_queue[st[1]], st) \in Seq(Streams)
      BY <3>1, Appends, SMTT(30) DEF Types
    <3>5. close_queue' \in [Stacks -> Seq(Streams)]
      BY <3>1, <3>2, <3>4 DEF Types
    <3> QED BY <1>6, <3>3, <3>5 DEF q_close, Types
  <2>2. CASE ~ (sock[s].type = "STREAM" /\ sock[s].stream # None)
    BY <1>6, <2>2 DEF q_close, Types
  <2> QED BY <2>1, <2>2
<1>7. ASSUME NEW k \in Stacks, handle_close_call(k)
      PROVE  Types'
  <2>1. Head(close_queue[k]) \in Streams /\ Tail(close_queue[k]) \in Seq(Streams)
    BY <1>7, Tails DEF handle_close_call, Types
  <2> DEFINE st == Head(close_queue[k])
  <2>2. PICK x \in States : str' = [str EXCEPT ![st].state = x]
    BY <1>7, <2>1 DEF handle_close_call, Types, BlockType, States
  <2>3. str' \in [Streams -> BlockType]
    BY <2>1, <2>2, BlockUpdates DEF Types
  <2>4. close_queue' \in [Stacks -> Seq(Streams)]
    BY <1>7, <2>1 DEF handle_close_call, streamq_dequeue, Types
  <2> QED BY <1>7, <2>3, <2>4 DEF handle_close_call, Types
<1>8. ASSUME NEW k \in Stacks, handle_connect_call(k)
      PROVE  Types'
  <2>1. Head(connect_queue[k]) \in Socks /\ Tail(connect_queue[k]) \in Seq(Socks)
    BY <1>8, Tails DEF handle_connect_call, Types
  <2>2. connect_queue' \in [Stacks -> Seq(Socks)]
    BY <1>8, <2>1 DEF handle_connect_call, streamq_dequeue, Types
  <2>3. CASE UNCHANGED <<sock, str, ht>>
    BY <1>8, <2>2, <2>3 DEF handle_connect_call, Types
  <2>4. CASE ~ UNCHANGED <<sock, str, ht>>
    <3> DEFINE s == Head(connect_queue[k])
    <3>1. PICK st \in FreeBlocks(k) :
             /\ sock[s].port # None
             /\ tcp_stream_create(st, s, sock[s].port, "SYN_SENT")
             /\ sock' = [sock EXCEPT ![s].stream = st]
      BY <1>8, <2>4 DEF handle_connect_call
    <3>2. st \in Streams /\ st[1] = k /\ sock[s].port \in Conns
      BY <2>1, <3>1, SocketUpdates DEF FreeBlocks, Types
    <3>3. sock' \in [Socks -> SocketType]
      BY <2>1, <3>1, <3>2, SocketUpdates DEF Types
    <3>4. str' \in [Streams -> BlockType]
      BY <2>1, <3>1, <3>2 DEF Types, tcp_stream_create, BlockType, States
    <3>5. ht' \in [Stacks -> [Conns -> Streams \cup {None}]]
      BY <3>1, <3>2 DEF Types, tcp_stream_create, ht_insert
    <3> QED BY <1>8, <2>2, <3>3, <3>4, <3>5 DEF handle_connect_call, Types
  <2> QED BY <2>3, <2>4
<1>9. ASSUME NEW p \in Peers, handle_passive_open(p)
      PROVE  Types'
  <2>1. CASE UNCHANGED <<sock, free, str, ht>>
    BY <1>9, <2>1 DEF handle_passive_open, Types
  <2>2. CASE ~ UNCHANGED <<sock, free, str, ht>>
    <3> DEFINE k == RSS[p]
               s == Head(free[k])
    <3>1. PICK st \in FreeBlocks(k) :
             /\ tcp_stream_create(st, s, p, "SYN_RCVD")
             /\ sock' = [sock EXCEPT ![s] = [socket_alloc("STREAM") EXCEPT !.stream = st]]
      BY <1>9, <2>2 DEF handle_passive_open
    <3>2. free[k] # <<>> /\ free' = [free EXCEPT ![k] = Tail(@)]
      BY <1>9, <2>2 DEF handle_passive_open
    <3>3. st \in Streams /\ st[1] = k /\ k \in Stacks /\ p \in Conns
      BY <3>1 DEF FreeBlocks
    <3>4. s \in Socks /\ Tail(free[k]) \in Seq(Socks)
      BY <3>2, <3>3, Tails DEF Types
    <3>5. sock' \in [Socks -> SocketType]
      BY <3>1, <3>3, <3>4 DEF Types, SocketType, socket_alloc
    <3>6. str' \in [Streams -> BlockType]
      BY <3>1, <3>3, <3>4 DEF Types, tcp_stream_create, BlockType, States
    <3>7. ht' \in [Stacks -> [Conns -> Streams \cup {None}]]
      BY <3>1, <3>3 DEF Types, tcp_stream_create, ht_insert
    <3>8. free' \in [Stacks -> Seq(Socks)]
      BY <3>2, <3>3, <3>4 DEF Types
    <3> QED BY <1>9, <3>5, <3>6, <3>7, <3>8 DEF handle_passive_open, Types
  <2> QED BY <2>1, <2>2
<1>10. ASSUME NEW st \in Streams, Established(st)
       PROVE  Types'
  BY <1>10, BlockUpdates, Appends DEF Established, Types, States
<1>11. ASSUME NEW st \in Streams, PeerCloses(st)
       PROVE  Types'
  BY <1>11, BlockUpdates DEF PeerCloses, Types, States
<1>12. ASSUME NEW st \in Streams, str[st].live, Destroyed(st)
       PROVE  /\ str' \in [Streams -> BlockType]
              /\ ht' \in [Stacks -> [Conns -> Streams \cup {None}]]
              /\ sock' \in [Socks -> SocketType] /\ free' \in [Stacks -> Seq(Socks)]
              /\ stale' \subseteq Socks
  <2>1. str[st].socket \in Socks /\ str[st].conn \in Conns /\ st[1] \in Stacks
    BY <1>12 DEF Pointers
  <2>2. str' \in [Streams -> BlockType]
    BY <1>12, BlockUpdates DEF Destroyed, Types, States
  <2>3. ht' \in [Stacks -> [Conns -> Streams \cup {None}]]
    BY <1>12, <2>1 DEF Destroyed, Types, ht_delete
  <2>4. sock' \in [Socks -> SocketType] /\ free' \in [Stacks -> Seq(Socks)]
    <3> DEFINE s == str[st].socket
    <3>1. CASE UNCHANGED <<sock, free>>
      BY <3>1 DEF Types
    <3>2. CASE ~ UNCHANGED <<sock, free>>
      <4>1. /\ sock' = [sock EXCEPT ![s].type = "UNUSED", ![s].stream = None]
            /\ free' = [free EXCEPT ![st[1]] = Append(@, s)]
        BY <1>12, <3>2 DEF Destroyed, socket_free
      <4>2. sock' \in [Socks -> SocketType]
        BY <2>1, <4>1, SocketUpdated DEF Types
      <4>3. Append(free[st[1]], s) \in Seq(Socks)
        BY <2>1, Appends, SMTT(30) DEF Types
      <4> QED BY <2>1, <4>1, <4>2, <4>3 DEF Types
    <3> QED BY <3>1, <3>2
  <2>5. stale' \subseteq Socks
    BY <1>12, <2>1 DEF Destroyed, Types
  <2> QED BY <2>2, <2>3, <2>4, <2>5
<1>13. ASSUME NEW st \in Streams, tcp_stream_destroy(st)
       PROVE  Types'
  BY <1>12, <1>13 DEF tcp_stream_destroy, Types
<1>14. ASSUME NEW k \in Stacks, handle_reset_call(k)
       PROVE  Types'
  <2>1. Head(close_queue[k]) \in Streams /\ Tail(close_queue[k]) \in Seq(Streams)
    BY <1>14, Tails DEF handle_reset_call, Types
  <2>2. close_queue' \in [Stacks -> Seq(Streams)]
    BY <1>14, <2>1 DEF handle_reset_call, streamq_dequeue, Types
  <2> QED BY <1>12, <1>14, <2>1, <2>2 DEF handle_reset_call, Types
<1> QED
  BY <1>1, <1>2, <1>3, <1>4, <1>5, <1>6, <1>7, <1>8, <1>9, <1>10, <1>11, <1>13, <1>14
     DEF Next, handle_app_call

-----------------------------------------------------------------------------
(* What the steps do, field by field. *)
OnlySocket(s) == \A x \in Socks \ {s} : sock'[x] = sock[x]
OnlyBlock(st) == \A x \in Streams \ {st} : str'[x] = str[x]

NewBlock(st, s, c, state) ==
    /\ OnlyBlock(st)
    /\ str'[st].live /\ str'[st].socket = s /\ str'[st].conn = c
    /\ str'[st].state = state /\ ~ str'[st].closed
    /\ \A k \in Stacks, d \in Conns :
          ht'[k][d] = IF k = st[1] /\ d = c THEN st ELSE ht[k][d]

(* The state of a block changes, nothing else of the blocks. *)
NewState(st, x) ==
    /\ OnlyBlock(st)
    /\ str'[st].live = str[st].live /\ str'[st].socket = str[st].socket
    /\ str'[st].conn = str[st].conn /\ str'[st].closed = str[st].closed
    /\ str'[st].state = x

LEMMA SocketFields ==
    ASSUME NEW f \in [Socks -> SocketType], NEW s \in Socks, NEW y, NEW x, NEW p
    PROVE  /\ \A z \in Socks \ {s} : [f EXCEPT ![s].type = y, ![s].stream = x][z] = f[z]
           /\ [f EXCEPT ![s].type = y, ![s].stream = x][s].type = y
           /\ [f EXCEPT ![s].type = y, ![s].stream = x][s].stream = x
           /\ [f EXCEPT ![s].type = y, ![s].stream = x][s].port = f[s].port
           /\ \A z \in Socks \ {s} : [f EXCEPT ![s].stream = x, ![s].port = p][z] = f[z]
           /\ [f EXCEPT ![s].stream = x, ![s].port = p][s].type = f[s].type
           /\ [f EXCEPT ![s].stream = x, ![s].port = p][s].stream = x
           /\ [f EXCEPT ![s].stream = x, ![s].port = p][s].port = p
BY DEF SocketType

LEMMA Creates ==
    ASSUME Types, NEW st \in Streams, NEW s, NEW c \in Conns, NEW state,
           tcp_stream_create(st, s, c, state)
    PROVE  NewBlock(st, s, c, state)
BY Basics DEF tcp_stream_create, ht_insert, NewBlock, OnlyBlock, Types

LEMMA ChangesState ==
    ASSUME Types, NEW st \in Streams, NEW x, str' = [str EXCEPT ![st].state = x]
    PROVE  NewState(st, x)
BY DEF NewState, OnlyBlock, Types, BlockType

LEMMA SetsClosed ==
    ASSUME Types, NEW st \in Streams, str' = [str EXCEPT ![st].closed = TRUE]
    PROVE  /\ OnlyBlock(st) /\ str'[st].closed
           /\ str'[st].live = str[st].live /\ str'[st].socket = str[st].socket
           /\ str'[st].conn = str[st].conn /\ str'[st].state = str[st].state
BY DEF OnlyBlock, Types, BlockType

LEMMA Listens ==
    ASSUME Types, NEW s \in Socks, NEW g, q_listen(s, g)
    PROVE  /\ OnlySocket(s)
           /\ sock'[s].type = "LISTENER" /\ sock'[s].port = sock[s].port
           /\ sock'[s].stream \in {Listener, sock[s].stream}
BY SocketFields, SMTT(30) DEF q_listen, OnlySocket, Types

LEMMA Accepts ==
    ASSUME Types, Pointers, NEW l \in Socks, q_accept(l)
    PROVE  \/ UNCHANGED <<sock, acceptq, held, stale>> /\ up' # "yes"
           \/ /\ acceptq # <<>> /\ acceptq' = Tail(acceptq) /\ up' = up
              /\ acceptq[1] \in Streams /\ 1 \in DOMAIN acceptq
              /\ \E s \in Socks :
                    /\ s = str[acceptq[1]].socket /\ OnlySocket(s)
                    /\ sock'[s].type = sock[s].type /\ sock'[s].stream = acceptq[1]
                    /\ sock'[s].port = str[acceptq[1]].conn
                    /\ held' = held \cup {s} /\ stale' = stale \ {s}
<1>1. CASE sock[l].stream # Listener
  BY <1>1 DEF q_accept
<1>2. CASE sock[l].stream = Listener
  <2> DEFINE st == acceptq[1]
             s == str[st].socket
  <2>1. acceptq # <<>>
    BY <1>2 DEF q_accept
  <2>2. st \in Streams /\ st = Head(acceptq) /\ 1 \in DOMAIN acceptq
    BY <2>1, Tails, SMTT(30) DEF Types
  <2>3. s \in Socks
    BY <2>2 DEF Pointers
  <2>4. /\ sock' = [sock EXCEPT ![s].stream = st, ![s].port = str[st].conn]
        /\ held' = held \cup {s} /\ stale' = stale \ {s}
        /\ acceptq' = Tail(acceptq) /\ up' = up
    BY <1>2, <2>2 DEF q_accept
  <2> HIDE DEF s, st
  <2>5. /\ OnlySocket(s) /\ sock'[s].type = sock[s].type /\ sock'[s].stream = st
        /\ sock'[s].port = str[st].conn
    BY <2>3, <2>4, SocketFields, SMTT(30) DEF OnlySocket, Types
  <2> USE DEF s, st
  <2> QED BY <2>1, <2>2, <2>3, <2>4, <2>5
<1> QED BY <1>1, <1>2

LEMMA Closes ==
    ASSUME Types, Pointers, NEW s \in Socks, q_close(s),
           sock[s].type = "STREAM", sock[s].stream # None
    PROVE  LET st == sock[s].stream
           IN  /\ st \in Streams /\ OnlyBlock(st)
               /\ str'[st].live = str[st].live /\ str'[st].socket = str[st].socket
               /\ str'[st].conn = str[st].conn /\ str'[st].state = str[st].state
               /\ str'[st].closed
               /\ close_queue' \in {close_queue, [close_queue EXCEPT ![st[1]] = Append(@, st)]}
               /\ up' = up
<1>1. sock[s].stream \in Streams
  BY DEF Types, Pointers, SocketType
<1> DEFINE st == sock[s].stream
<1>2. /\ str' = [str EXCEPT ![st].closed = TRUE] /\ up' = up
      /\ close_queue' \in {close_queue, [close_queue EXCEPT ![st[1]] = Append(@, st)]}
  BY DEF q_close, close_stream_socket, streamq_enqueue
<1>3. /\ OnlyBlock(st) /\ str'[st].closed
      /\ str'[st].live = str[st].live /\ str'[st].socket = str[st].socket
      /\ str'[st].conn = str[st].conn /\ str'[st].state = str[st].state
  <2>1. st \in Streams
    BY <1>1
  <2> HIDE DEF st
  <2> QED BY <1>2, <2>1, SetsClosed
<1> QED BY <1>1, <1>2, <1>3

LEMMA Connects ==
    ASSUME Types, NEW k \in Stacks, handle_connect_call(k)
    PROVE  LET s == connect_queue[k][1]
           IN  /\ connect_queue[k] # <<>> /\ 1 \in DOMAIN connect_queue[k] /\ s \in Socks
               /\ connect_queue' = [connect_queue EXCEPT ![k] = Tail(connect_queue[k])]
               /\ \/ UNCHANGED <<sock, str, ht>> /\ up' # "yes"
                  \/ /\ up' = up /\ sock[s].port \in Conns
                     /\ OnlySocket(s) /\ sock'[s].type = sock[s].type
                     /\ sock'[s].port = sock[s].port
                     /\ \E st \in Streams :
                           /\ st[1] = k /\ ~ str[st].live /\ sock'[s].stream = st
                           /\ NewBlock(st, s, sock[s].port, "SYN_SENT")
<1> DEFINE s == connect_queue[k][1]
<1>1. connect_queue[k] # <<>>
  BY DEF handle_connect_call
<1>2. s \in Socks /\ s = Head(connect_queue[k]) /\ 1 \in DOMAIN connect_queue[k]
  BY <1>1, Tails, SMTT(30) DEF Types
<1>3. connect_queue' = [connect_queue EXCEPT ![k] = Tail(connect_queue[k])]
  BY DEF handle_connect_call, streamq_dequeue, Types
<1>4. CASE UNCHANGED <<sock, str, ht>> /\ up' # "yes"
  BY <1>1, <1>2, <1>3, <1>4
<1>5. CASE ~ (UNCHANGED <<sock, str, ht>> /\ up' # "yes")
  <2>1. PICK st \in FreeBlocks(k) :
           /\ sock[s].port # None
           /\ tcp_stream_create(st, s, sock[s].port, "SYN_SENT")
           /\ sock' = [sock EXCEPT ![s].stream = st]
           /\ up' = up
    BY <1>2, <1>5 DEF handle_connect_call
  <2>2. st \in Streams /\ st[1] = k /\ ~ str[st].live
    BY <2>1 DEF FreeBlocks
  <2>3. sock[s].port \in Conns
    BY <1>2, <2>1, SocketUpdates DEF Types
  <2>4. NewBlock(st, s, sock[s].port, "SYN_SENT")
    BY <2>1, <2>2, <2>3, Creates
  <2>5. /\ OnlySocket(s) /\ sock'[s].type = sock[s].type
        /\ sock'[s].port = sock[s].port /\ sock'[s].stream = st
    BY <1>2, <2>1 DEF OnlySocket, Types, SocketType
  <2> QED BY <1>1, <1>2, <1>3, <2>1, <2>2, <2>3, <2>4, <2>5
<1> QED BY <1>4, <1>5

LEMMA Opens ==
    ASSUME Types, NEW p \in Peers, handle_passive_open(p)
    PROVE  LET k == RSS[p]
               s == free[k][1]
           IN  \/ UNCHANGED <<sock, free, str, ht>> /\ up' # "yes"
               \/ /\ up' = up /\ free[k] # <<>> /\ k \in Stacks /\ p \in Conns
                  /\ 1 \in DOMAIN free[k] /\ s \in Socks
                  /\ free' = [free EXCEPT ![k] = Tail(free[k])]
                  /\ OnlySocket(s) /\ sock'[s].type = "STREAM"
                  /\ \E st \in Streams :
                        /\ st[1] = k /\ ~ str[st].live /\ sock'[s].stream = st
                        /\ NewBlock(st, s, p, "SYN_RCVD")
<1> DEFINE k == RSS[p]
           s == free[k][1]
<1>1. CASE UNCHANGED <<sock, free, str, ht>> /\ up' # "yes"
  BY <1>1
<1>2. CASE ~ (UNCHANGED <<sock, free, str, ht>> /\ up' # "yes")
  <2>1. free[k] # <<>> /\ free' = [free EXCEPT ![k] = Tail(@)] /\ up' = up
    BY <1>2 DEF handle_passive_open
  <2>2. k \in Stacks /\ p \in Conns
    BY Basics
  <2>3. s \in Socks /\ s = Head(free[k]) /\ 1 \in DOMAIN free[k]
    BY <2>1, <2>2, Tails, SMTT(30) DEF Types
  <2>4. PICK st \in FreeBlocks(k) :
           /\ tcp_stream_create(st, s, p, "SYN_RCVD")
           /\ sock' = [sock EXCEPT ![s] = [socket_alloc("STREAM") EXCEPT !.stream = st]]
    BY <1>2, <2>3 DEF handle_passive_open
  <2>5. st \in Streams /\ st[1] = k /\ ~ str[st].live
    BY <2>4 DEF FreeBlocks
  <2>6. NewBlock(st, s, p, "SYN_RCVD")
    BY <2>2, <2>4, <2>5, Creates
  <2>7. OnlySocket(s) /\ sock'[s].type = "STREAM" /\ sock'[s].stream = st
    BY <2>3, <2>4 DEF OnlySocket, Types, SocketType, socket_alloc
  <2>8. free' = [free EXCEPT ![k] = Tail(free[k])]
    BY <2>1
  <2> QED BY <2>1, <2>2, <2>3, <2>5, <2>6, <2>7, <2>8
<1> QED BY <1>1, <1>2

LEMMA Destroys ==
    ASSUME Types, Pointers, NEW st \in Streams, str[st].live, Destroyed(st)
    PROVE  LET s == str[st].socket
           IN  /\ s \in Socks /\ st[1] \in Stacks /\ str[st].conn \in Conns
               /\ OnlyBlock(st) /\ ~ str'[st].live /\ str'[st].socket = s
               /\ str'[st].conn = str[st].conn
               /\ \A k \in Stacks, d \in Conns :
                     ht'[k][d] = IF k = st[1] /\ d = str[st].conn THEN None ELSE ht[k][d]
               /\ \/ sock[s].type = "UNUSED" /\ UNCHANGED <<sock, free>> /\ up' # "yes"
                  \/ /\ sock[s].type # "UNUSED" /\ up' = up
                     /\ OnlySocket(s) /\ sock'[s].type = "UNUSED" /\ sock'[s].stream = None
                     /\ sock'[s].port = sock[s].port
                     /\ free' = [free EXCEPT ![st[1]] = Append(free[st[1]], s)]
<1> DEFINE s == str[st].socket
<1>1. s \in Socks /\ st[1] \in Stacks /\ str[st].conn \in Conns
  BY Basics DEF Pointers
<1>2. OnlyBlock(st) /\ ~ str'[st].live /\ str'[st].socket = s /\ str'[st].conn = str[st].conn
  BY DEF Destroyed, OnlyBlock, Types, BlockType
<1>3. \A k \in Stacks, d \in Conns :
         ht'[k][d] = IF k = st[1] /\ d = str[st].conn THEN None ELSE ht[k][d]
  BY <1>1 DEF Destroyed, ht_delete, Types
<1>4. CASE sock[s].type = "UNUSED"
  BY <1>1, <1>2, <1>3, <1>4 DEF Destroyed, socket_free
<1>5. CASE sock[s].type # "UNUSED"
  <2>1. /\ sock' = [sock EXCEPT ![s].type = "UNUSED", ![s].stream = None]
        /\ free' = [free EXCEPT ![st[1]] = Append(free[st[1]], s)]
        /\ up' = up
    BY <1>5 DEF Destroyed, socket_free
  <2>2. /\ OnlySocket(s) /\ sock'[s].type = "UNUSED" /\ sock'[s].stream = None
        /\ sock'[s].port = sock[s].port
    <3>1. s \in Socks /\ sock \in [Socks -> SocketType]
          /\ sock' = [sock EXCEPT ![s].type = "UNUSED", ![s].stream = None]
      BY <1>1, <2>1 DEF Types
    <3> HIDE DEF s
    <3> QED BY <3>1 DEF OnlySocket, SocketType
  <2> QED BY <1>1, <1>2, <1>3, <1>5, <2>1, <2>2
<1> QED BY <1>4, <1>5

LEMMA Allocates ==
    ASSUME Types, q_socket
    PROVE  LET s == free[0][1]
           IN  /\ free[0] # <<>> /\ 1 \in DOMAIN free[0] /\ s \in Socks
               /\ free' = [free EXCEPT ![0] = Tail(free[0])]
               /\ OnlySocket(s) /\ sock'[s].type = "STREAM" /\ sock'[s].stream = None
               /\ held' = held \cup {s} /\ stale' = stale \ {s}
<1> DEFINE s == free[0][1]
<1>1. free[0] # <<>> /\ 0 \in Stacks
  BY Basics DEF q_socket, get_sock_pool_map
<1>2. s \in Socks /\ s = Head(free[0]) /\ 1 \in DOMAIN free[0]
  BY <1>1, Tails, SMTT(30) DEF Types
<1>3. /\ sock' = [sock EXCEPT ![s] = socket_alloc("STREAM")]
      /\ free' = [free EXCEPT ![0] = Tail(free[0])]
      /\ held' = held \cup {s} /\ stale' = stale \ {s}
  BY <1>2 DEF q_socket, get_sock_pool_map
<1>4. OnlySocket(s) /\ sock'[s].type = "STREAM" /\ sock'[s].stream = None
  BY <1>2, <1>3 DEF OnlySocket, Types, socket_alloc
<1> QED BY <1>1, <1>2, <1>3, <1>4

LEMMA Binds ==
    ASSUME Types, NEW s \in Socks, NEW p \in Ports, q_bind(s, p)
    PROVE  /\ OnlySocket(s) /\ sock'[s].type = sock[s].type
           /\ sock'[s].stream = sock[s].stream /\ sock'[s].port = p
BY DEF q_bind, OnlySocket, Types, SocketType

-----------------------------------------------------------------------------
(* The free lists. *)
LEMMA FreePops ==
    ASSUME Types, FreeLists, NEW k \in Stacks, free[k] # <<>>,
           free' = [free EXCEPT ![k] = Tail(free[k])],
           OnlySocket(free[k][1]), sock'[free[k][1]].type # "UNUSED"
    PROVE  FreeLists'
<1> DEFINE q == free[k]
           s == free[k][1]
<1>1. /\ s \in Socks /\ 1 \in DOMAIN q
      /\ \A i \in DOMAIN Tail(q) : i \in Nat /\ i + 1 \in DOMAIN q /\ Tail(q)[i] = q[i + 1] /\ i + 1 # 1
      /\ \A i \in DOMAIN q : i = 1 \/ (i - 1 \in DOMAIN Tail(q) /\ Tail(q)[i - 1] = q[i])
  BY Tails, SMTT(30) DEF Types
<1>2. free'[k] = Tail(q) /\ \A l \in Stacks \ {k} : free'[l] = free[l]
  BY DEF Types
<1>3. \A l \in Stacks : \A i \in DOMAIN free'[l] :
         \E j \in DOMAIN free[l] : /\ free'[l][i] = free[l][j] /\ free[l][j] # s
                                   /\ j = IF l = k THEN i + 1 ELSE i
  <2> SUFFICES ASSUME NEW l \in Stacks, NEW i \in DOMAIN free'[l]
               PROVE  \E j \in DOMAIN free[l] : /\ free'[l][i] = free[l][j] /\ free[l][j] # s
                                                 /\ j = IF l = k THEN i + 1 ELSE i
    OBVIOUS
  <2>1. CASE l = k
    <3>1. i \in DOMAIN Tail(q)
      BY <1>2, <2>1
    <3>2. i + 1 \in DOMAIN free[k] /\ free'[l][i] = free[k][i + 1] /\ i + 1 # 1
      BY <1>1, <1>2, <2>1, <3>1
    <3>3. free[k][i + 1] # s
      BY <1>1, <3>2, SMTT(30) DEF FreeLists
    <3> QED BY <2>1, <3>2, <3>3
  <2>2. CASE l # k
    BY <1>1, <1>2, <2>2, SMTT(30) DEF FreeLists
  <2> QED BY <2>1, <2>2
<1>4. \A l \in Stacks : \A i \in DOMAIN free'[l] : i \in Nat /\ free[l] \in Seq(Socks)
  BY <1>1, <1>2, SMTT(30) DEF Types
<1>5. \A m, l \in Stacks : \A i \in DOMAIN free'[m], j \in DOMAIN free'[l] :
         free'[m][i] = free'[l][j] => m = l /\ i = j
  BY <1>3, <1>4, SMTT(30) DEF FreeLists
<1>6. \A l \in Stacks : \A i \in DOMAIN free'[l] : sock'[free'[l][i]].type = "UNUSED"
  BY <1>3, <1>4, SMTT(30) DEF FreeLists, OnlySocket, Types
<1>7. \A x \in Socks : sock'[x].type = "UNUSED" =>
          \E l \in Stacks : \E i \in DOMAIN free'[l] : free'[l][i] = x
  <2> SUFFICES ASSUME NEW x \in Socks, sock'[x].type = "UNUSED"
               PROVE  \E l \in Stacks : \E i \in DOMAIN free'[l] : free'[l][i] = x
    OBVIOUS
  <2>1. x # s /\ sock[x].type = "UNUSED"
    BY DEF OnlySocket
  <2>2. PICK l \in Stacks : \E i \in DOMAIN free[l] : free[l][i] = x
    BY <2>1 DEF FreeLists
  <2>3. PICK i \in DOMAIN free[l] : free[l][i] = x
    BY <2>2
  <2>4. CASE l = k
    <3>1. i \in DOMAIN q /\ i # 1
      BY <2>1, <2>3, <2>4
    <3>2. i - 1 \in DOMAIN Tail(q) /\ Tail(q)[i - 1] = x
      BY <1>1, <2>3, <2>4, <3>1
    <3> QED BY <1>2, <3>2
  <2>5. CASE l # k
    BY <1>2, <2>3, <2>5
  <2> QED BY <2>4, <2>5
<1> QED BY <1>5, <1>6, <1>7 DEF FreeLists

LEMMA FreePushes ==
    ASSUME Types, FreeLists, NEW k \in Stacks, NEW s \in Socks, sock[s].type # "UNUSED",
           free' = [free EXCEPT ![k] = Append(free[k], s)],
           OnlySocket(s), sock'[s].type = "UNUSED"
    PROVE  FreeLists'
<1> DEFINE q == free[k]
           n == Len(free[k]) + 1
<1>1. /\ \A i \in DOMAIN q : i \in DOMAIN Append(q, s) /\ Append(q, s)[i] = q[i] /\ i # n
      /\ n \in DOMAIN Append(q, s) /\ Append(q, s)[n] = s
      /\ \A i \in DOMAIN Append(q, s) : i \in DOMAIN q \/ i = n
  BY SMTT(30) DEF Types
<1>2. free'[k] = Append(q, s) /\ \A l \in Stacks \ {k} : free'[l] = free[l]
  BY DEF Types
<1>3. \A l \in Stacks : \A i \in DOMAIN free[l] :
         /\ i \in DOMAIN free'[l] /\ free'[l][i] = free[l][i]
         /\ free[l][i] \in Socks /\ free[l][i] # s
  <2>1. \A l \in Stacks : \A i \in DOMAIN free[l] :
           i \in DOMAIN free'[l] /\ free'[l][i] = free[l][i]
    BY <1>1, <1>2
  <2>2. \A l \in Stacks : \A i \in DOMAIN free[l] : free[l][i] \in Socks /\ free[l][i] # s
    BY SMTT(30) DEF FreeLists, Types
  <2> QED BY <2>1, <2>2
<1>4. \A l \in Stacks : \A i \in DOMAIN free'[l] :
         i \in DOMAIN free[l] \/ (l = k /\ i = n /\ free'[l][i] = s)
  BY <1>1, <1>2
<1> HIDE DEF n, q
<1>5. \A m, l \in Stacks : \A i \in DOMAIN free'[m], j \in DOMAIN free'[l] :
         free'[m][i] = free'[l][j] => m = l /\ i = j
  BY <1>3, <1>4, SMTT(30) DEF FreeLists
<1>6. \A l \in Stacks : \A i \in DOMAIN free'[l] : sock'[free'[l][i]].type = "UNUSED"
  BY <1>3, <1>4, SMTT(30) DEF FreeLists, OnlySocket
<1>7. \A x \in Socks : sock'[x].type = "UNUSED" =>
          \E l \in Stacks : \E i \in DOMAIN free'[l] : free'[l][i] = x
  <2> SUFFICES ASSUME NEW x \in Socks, sock'[x].type = "UNUSED"
               PROVE  \E l \in Stacks : \E i \in DOMAIN free'[l] : free'[l][i] = x
    OBVIOUS
  <2>1. CASE x = s
    BY <1>1, <1>2, <2>1, SMTT(30) DEF q
  <2>2. CASE x # s
    BY <1>3, <2>2, SMTT(30) DEF FreeLists, OnlySocket
  <2> QED BY <2>1, <2>2
<1> QED BY <1>5, <1>6, <1>7 DEF FreeLists

LEMMA FreeSame ==
    ASSUME FreeLists, Types, free' = free,
           \A x \in Socks : sock'[x].type = "UNUSED" <=> sock[x].type = "UNUSED"
    PROVE  FreeLists'
BY SMTT(30) DEF FreeLists, Types

LEMMA FreeListsStep ==
    ASSUME Types, Pointers, FreeLists, Next
    PROVE  FreeLists'
<1>1. CASE q_socket
  BY <1>1, Allocates, FreePops, Basics
<1>2. ASSUME NEW s \in Socks, NEW p \in Ports, q_bind(s, p)
      PROVE  FreeLists'
  <2>1. \A x \in Socks : sock'[x].type = "UNUSED" <=> sock[x].type = "UNUSED"
    BY <1>2, Binds DEF OnlySocket
  <2> QED BY <1>2, <2>1, FreeSame DEF q_bind
<1>3. ASSUME NEW s \in Socks, NEW g \in BOOLEAN, q_listen(s, g)
      PROVE  FreeLists'
  <2>1. \A x \in Socks : sock'[x].type = "UNUSED" <=> sock[x].type = "UNUSED"
    BY <1>3, Listens DEF OnlySocket, q_listen
  <2> QED BY <1>3, <2>1, FreeSame DEF q_listen
<1>4. ASSUME NEW s \in Socks, q_accept(s)
      PROVE  FreeLists'
  <2>1. \A x \in Socks : sock'[x].type = "UNUSED" <=> sock[x].type = "UNUSED"
    BY <1>4, Accepts DEF OnlySocket
  <2> QED BY <1>4, <2>1, FreeSame DEF q_accept
<1>5. ASSUME NEW k \in Stacks, handle_connect_call(k)
      PROVE  FreeLists'
  <2>1. \A x \in Socks : sock'[x].type = "UNUSED" <=> sock[x].type = "UNUSED"
    BY <1>5, Connects DEF OnlySocket
  <2> QED BY <1>5, <2>1, FreeSame DEF handle_connect_call
<1>6. ASSUME NEW p \in Peers, handle_passive_open(p)
      PROVE  FreeLists'
  <2>1. CASE UNCHANGED <<sock, free>>
    BY <2>1, FreeSame
  <2>2. CASE ~ UNCHANGED <<sock, free>>
    BY <1>6, <2>2, Opens, FreePops
  <2> QED BY <2>1, <2>2
<1>7. ASSUME NEW st \in Streams, str[st].live, Destroyed(st)
      PROVE  FreeLists'
  <2>1. CASE UNCHANGED <<sock, free>>
    BY <2>1, FreeSame
  <2>2. CASE ~ UNCHANGED <<sock, free>>
    BY <1>7, <2>2, Destroys, FreePushes
  <2> QED BY <2>1, <2>2
<1>8. CASE \/ \E s \in Socks : q_connect(s) \/ q_close(s)
           \/ \E k \in Stacks : handle_close_call(k)
           \/ \E st \in Streams : Established(st) \/ PeerCloses(st)
  <2>1. UNCHANGED <<sock, free>>
    BY <1>8 DEF q_connect, q_close, handle_close_call, Established, PeerCloses
  <2> QED BY <2>1, FreeSame
<1>9. ASSUME NEW st \in Streams, tcp_stream_destroy(st)
      PROVE  FreeLists'
  BY <1>7, <1>9 DEF tcp_stream_destroy
<1>10. ASSUME NEW k \in Stacks, handle_reset_call(k)
       PROVE  FreeLists'
  <2>1. Head(close_queue[k]) \in Streams
    BY <1>10, Tails DEF handle_reset_call, Types
  <2> QED BY <1>7, <1>10, <2>1 DEF handle_reset_call
<1> QED BY <1>1, <1>2, <1>3, <1>4, <1>5, <1>6, <1>8, <1>9, <1>10 DEF Next, handle_app_call

LEMMA Elements ==
    ASSUME Types
    PROVE  /\ \A i \in DOMAIN acceptq : acceptq[i] \in Streams
           /\ \A k \in Stacks : \A i \in DOMAIN connect_queue[k] : connect_queue[k][i] \in Socks
           /\ \A k \in Stacks : \A i \in DOMAIN close_queue[k] : close_queue[k][i] \in Streams
           /\ \A k \in Stacks : \A i \in DOMAIN free[k] : free[k][i] \in Socks
           /\ \A x \in Socks : sock[x].stream \in Streams \cup {None, Listener}
BY SMTT(30) DEF Types, SocketType

(* A queue that loses its first entry. *)
LEMMA AcceptqTail ==
    ASSUME Types, acceptq # <<>>, acceptq' = Tail(acceptq)
    PROVE  \A i \in DOMAIN acceptq' : i + 1 \in DOMAIN acceptq /\ acceptq'[i] = acceptq[i + 1]
                                      /\ i + 1 # 1 /\ i \in Nat
BY Tails DEF Types

LEMMA PointersStep ==
    ASSUME Types, Pointers, FreeLists, Next
    PROVE  Pointers'
<1> USE Basics, Elements
<1>1. CASE q_socket
  BY <1>1, Allocates DEF Pointers, OnlySocket, q_socket
<1>2. ASSUME NEW s \in Socks, NEW p \in Ports, q_bind(s, p)
      PROVE  Pointers'
  BY <1>2, Binds, SMTT(30) DEF Pointers, OnlySocket, q_bind
<1>3. ASSUME NEW s \in Socks, NEW g \in BOOLEAN, q_listen(s, g)
      PROVE  Pointers'
  BY <1>3, Listens DEF Pointers, OnlySocket, q_listen
<1>4. ASSUME NEW s \in Socks, q_accept(s)
      PROVE  Pointers'
  <2>1. \A i \in DOMAIN acceptq' : \E j \in DOMAIN acceptq : acceptq'[i] = acceptq[j]
    BY <1>4, Accepts, AcceptqTail
  <2>2. \A x \in Socks : sock'[x].type = "STREAM" => sock'[x].stream # Listener
    BY <1>4, Accepts DEF Pointers, OnlySocket
  <2>3. str' = str
    BY <1>4 DEF q_accept
  <2> QED BY <2>1, <2>2, <2>3 DEF Pointers
<1>5. ASSUME NEW s \in Socks, q_close(s)
      PROVE  Pointers'
  <2>1. CASE sock[s].type = "STREAM" /\ sock[s].stream # None
    <3>1. \A x \in Streams : /\ str'[x].live = str[x].live
                             /\ str'[x].socket = str[x].socket /\ str'[x].conn = str[x].conn
      BY <1>5, <2>1, Closes DEF OnlyBlock
    <3>2. acceptq' = acceptq /\ sock' = sock
      BY <1>5 DEF q_close
    <3> QED BY <3>1, <3>2 DEF Pointers
  <2>2. CASE ~ (sock[s].type = "STREAM" /\ sock[s].stream # None)
    BY <1>5, <2>2 DEF Pointers, q_close
  <2> QED BY <2>1, <2>2
<1>6. ASSUME NEW k \in Stacks, handle_connect_call(k)
      PROVE  Pointers'
  <2>1. CASE UNCHANGED <<sock, str, ht>>
    BY <1>6, <2>1 DEF Pointers, handle_connect_call
  <2>2. CASE ~ UNCHANGED <<sock, str, ht>>
    <3> DEFINE s == connect_queue[k][1]
    <3>1. acceptq' = acceptq
      BY <1>6 DEF handle_connect_call
    <3>2. /\ s \in Socks /\ OnlySocket(s) /\ sock'[s].type = sock[s].type
          /\ sock[s].port \in Conns
      BY <1>6, <2>2, Connects
    <3>3. PICK st \in Streams :
             sock'[s].stream = st /\ NewBlock(st, s, sock[s].port, "SYN_SENT")
      BY <1>6, <2>2, Connects
    <3>4. \A x \in Streams : str'[x] = str[x] \/ (str'[x].socket \in Socks /\ str'[x].conn \in Conns)
      BY <3>2, <3>3 DEF NewBlock, OnlyBlock
    <3>5. \A x \in Socks : sock'[x].type = "STREAM" => sock'[x].stream # Listener
      BY <3>2, <3>3 DEF OnlySocket, Pointers
    <3> QED BY <3>1, <3>4, <3>5 DEF Pointers
  <2> QED BY <2>1, <2>2
<1>7. ASSUME NEW p \in Peers, handle_passive_open(p)
      PROVE  Pointers'
  <2>1. CASE UNCHANGED <<sock, free, str, ht>>
    BY <1>7, <2>1 DEF Pointers, handle_passive_open
  <2>2. CASE ~ UNCHANGED <<sock, free, str, ht>>
    <3> DEFINE s == free[RSS[p]][1]
    <3>1. acceptq' = acceptq
      BY <1>7 DEF handle_passive_open
    <3>2. s \in Socks /\ OnlySocket(s) /\ p \in Conns
      BY <1>7, <2>2, Opens
    <3>3. PICK st \in Streams :
             sock'[s].stream = st /\ NewBlock(st, s, p, "SYN_RCVD")
      BY <1>7, <2>2, Opens
    <3>4. \A x \in Streams : str'[x] = str[x] \/ (str'[x].socket \in Socks /\ str'[x].conn \in Conns)
      BY <3>2, <3>3 DEF NewBlock, OnlyBlock
    <3>5. \A x \in Socks : sock'[x].type = "STREAM" => sock'[x].stream # Listener
      BY <3>2, <3>3 DEF OnlySocket, Pointers
    <3> QED BY <3>1, <3>4, <3>5 DEF Pointers
  <2> QED BY <2>1, <2>2
<1>8. ASSUME NEW st \in Streams, str[st].live, Destroyed(st), acceptq' = acceptq
      PROVE  Pointers'
  <2>1. acceptq' = acceptq
    BY <1>8
  <2>2. \A x \in Streams : /\ str'[x].live => str[x].live
                           /\ str'[x].socket = str[x].socket /\ str'[x].conn = str[x].conn
    BY <1>8, Destroys DEF OnlyBlock
  <2>3. \A x \in Socks : sock'[x].type = "STREAM" => sock'[x].stream # Listener
    BY <1>8, Destroys, SMTT(30) DEF OnlySocket, Pointers
  <2> QED BY <2>1, <2>2, <2>3 DEF Pointers
<1>9. ASSUME NEW k \in Stacks, handle_close_call(k)
      PROVE  Pointers'
  <2>1. Head(close_queue[k]) \in Streams
    BY <1>9, Tails DEF handle_close_call, Types
  <2>2. \A x \in Streams : /\ str'[x].live = str[x].live
                           /\ str'[x].socket = str[x].socket /\ str'[x].conn = str[x].conn
    <3>1. PICK y : str' = [str EXCEPT ![Head(close_queue[k])].state = y]
      BY <1>9 DEF handle_close_call
    <3>2. NewState(Head(close_queue[k]), y)
      BY <2>1, <3>1, ChangesState
    <3> QED BY <2>1, <3>2 DEF NewState, OnlyBlock
  <2>3. acceptq' = acceptq /\ sock' = sock
    BY <1>9 DEF handle_close_call
  <2> QED BY <2>2, <2>3 DEF Pointers
<1>10. ASSUME NEW st \in Streams, Established(st)
      PROVE  Pointers'
  <2>1. \A x \in Streams : /\ str'[x].live = str[x].live
                           /\ str'[x].socket = str[x].socket /\ str'[x].conn = str[x].conn
    BY <1>10, ChangesState DEF Established, NewState, OnlyBlock
  <2>2. \A i \in DOMAIN acceptq' : acceptq'[i] = st \/ (i \in DOMAIN acceptq /\ acceptq'[i] = acceptq[i])
    BY <1>10, Appends, SMTT(30) DEF Established, Types
  <2>3. str[st].live /\ sock' = sock
    BY <1>10 DEF Established
  <2>4. \A x \in Streams : str'[x].live => str'[x].socket \in Socks /\ str'[x].conn \in Conns
    BY <2>1 DEF Pointers
  <2>5. ASSUME NEW i \in DOMAIN acceptq'
        PROVE  str'[acceptq'[i]].socket \in Socks /\ str'[acceptq'[i]].conn \in Conns
    <3>1. CASE acceptq'[i] = st
      BY <2>1, <2>3, <3>1 DEF Pointers
    <3>2. CASE i \in DOMAIN acceptq /\ acceptq'[i] = acceptq[i]
      <4>1. acceptq[i] \in Streams /\ str[acceptq[i]].socket \in Socks /\ str[acceptq[i]].conn \in Conns
        BY <3>2, Elements DEF Pointers
      <4> QED BY <2>1, <3>2, <4>1
    <3> QED BY <2>2, <3>1, <3>2
  <2>6. \A x \in Socks : sock'[x].type = "STREAM" => sock'[x].stream # Listener
    BY <2>3 DEF Pointers
  <2> QED BY <2>4, <2>5, <2>6 DEF Pointers
<1>11. ASSUME NEW st \in Streams, PeerCloses(st)
      PROVE  Pointers'
  <2>1. \A x \in Streams : /\ str'[x].live = str[x].live
                           /\ str'[x].socket = str[x].socket /\ str'[x].conn = str[x].conn
    BY <1>11, ChangesState DEF PeerCloses, NewState, OnlyBlock
  <2> QED BY <1>11, <2>1 DEF Pointers, PeerCloses, Types
<1>12. ASSUME NEW s \in Socks, q_connect(s)
       PROVE  Pointers'
  BY <1>12 DEF q_connect, Pointers
<1>13. ASSUME NEW st \in Streams, tcp_stream_destroy(st)
       PROVE  Pointers'
  BY <1>8, <1>13 DEF tcp_stream_destroy
<1>14. ASSUME NEW k \in Stacks, handle_reset_call(k)
       PROVE  Pointers'
  <2>1. Head(close_queue[k]) \in Streams
    BY <1>14, Tails DEF handle_reset_call, Types
  <2> QED BY <1>8, <1>14, <2>1 DEF handle_reset_call
<1> QED BY <1>1, <1>2, <1>3, <1>4, <1>5, <1>6, <1>7, <1>13, <1>14, <1>9, <1>10, <1>11, <1>12
        DEF Next, handle_app_call

-----------------------------------------------------------------------------
(* Steps that misuse nothing. *)
Good == Types /\ Pointers /\ FreeLists /\ Clean

(* Each part of Clean is kept by a step that leaves what it is about alone. *)
SameBlocks == \A x \in Streams : /\ str'[x].live = str[x].live
                                 /\ str'[x].socket = str[x].socket /\ str'[x].conn = str[x].conn
SameSockets == \A y \in Socks : sock'[y].type = sock[y].type /\ sock'[y].stream = sock[y].stream

LEMMA LinksKept ==
    ASSUME Pointers, Linked, Owned, SameBlocks, SameSockets, ht' = ht
    PROVE  Linked' /\ Owned'
<1>1. Linked'
  BY SMTT(30) DEF Pointers, Linked, SameBlocks, SameSockets
<1>2. Owned'
  BY SMTT(30) DEF Owned, SameBlocks, SameSockets
<1> QED BY <1>1, <1>2

LEMMA LinksSame ==
    ASSUME Linked, Owned, sock' = sock, str' = str, ht' = ht
    PROVE  Linked' /\ Owned'
BY DEF Linked, Owned

LEMMA ConnectingKept ==
    ASSUME Connecting, connect_queue' = connect_queue,
           \A x \in Streams : str'[x].live => str[x].live /\ str'[x].conn = str[x].conn,
           \A k \in Stacks : \A i \in DOMAIN connect_queue[k] :
              sock'[connect_queue[k][i]] = sock[connect_queue[k][i]]
    PROVE  Connecting'
<1>1. \A k \in Stacks : \A i \in DOMAIN connect_queue'[k] :
         /\ sock'[connect_queue'[k][i]].type = "STREAM"
         /\ sock'[connect_queue'[k][i]].stream = None
         /\ sock'[connect_queue'[k][i]].port \in Ports
         /\ \A x \in Streams : str'[x].live => str'[x].conn # sock'[connect_queue'[k][i]].port
  BY SMTT(30) DEF Connecting
<1>2. \A k, l \in Stacks : \A i \in DOMAIN connect_queue'[k], j \in DOMAIN connect_queue'[l] :
         sock'[connect_queue'[k][i]].port = sock'[connect_queue'[l][j]].port => k = l /\ i = j
  BY SMTT(30) DEF Connecting
<1>3. \A k \in Stacks : \A i \in DOMAIN connect_queue'[k] :
         LET s == connect_queue'[k][i]
         IN  /\ sock'[s].type = "STREAM" /\ sock'[s].stream = None /\ sock'[s].port \in Ports
             /\ \A x \in Streams : str'[x].live => str'[x].conn # sock'[s].port
  BY <1>1
<1> QED BY <1>2, <1>3 DEF Connecting

LEMMA WaitingSame ==
    ASSUME Closing, Unaccepted, NotYetQueued, str' = str, acceptq' = acceptq,
           close_queue' = close_queue, held' = held, stale' = stale
    PROVE  Closing' /\ Unaccepted' /\ NotYetQueued'
BY DEF Closing, Unaccepted, NotYetQueued

LEMMA SocketClean ==
    ASSUME Good, q_socket
    PROVE  Clean'
<1> USE Basics
<1> DEFINE s == free[0][1]
<1>1. s \in Socks /\ sock[s].type = "UNUSED"
  BY Allocates DEF Good, FreeLists
<1>2. /\ OnlySocket(s) /\ sock'[s].type = "STREAM" /\ sock'[s].stream = None
      /\ held' = held \cup {s} /\ stale' = stale \ {s}
  BY Allocates DEF Good
<1>3. UNCHANGED <<str, ht, acceptq, connect_queue, close_queue, up>>
  BY DEF q_socket
<1>4. /\ \A i \in DOMAIN acceptq : acceptq[i] \in Streams
      /\ \A k \in Stacks : \A i \in DOMAIN connect_queue[k] : connect_queue[k][i] \in Socks \ {s}
      /\ \A st \in Streams : str[st].live => str[st].socket \in Socks \ {s}
  <2>1. \A k \in Stacks : \A i \in DOMAIN connect_queue[k] :
           connect_queue[k][i] \in Socks /\ sock[connect_queue[k][i]].type = "STREAM"
    BY Elements DEF Good, Clean, Connecting
  <2>2. \A st \in Streams : str[st].live =>
           str[st].socket \in Socks /\ sock[str[st].socket].type = "STREAM"
    BY DEF Good, Clean, Linked, Pointers
  <2> HIDE DEF s
  <2> QED BY <1>1, <2>1, <2>2, Elements DEF Good
<1> HIDE DEF s
<1>5. Linked' /\ Owned'
  <2>1. Linked'
    <3>1. \A st \in Streams : str[st].live => sock'[str[st].socket] = sock[str[st].socket]
      BY <1>2, <1>4 DEF OnlySocket
    <3> QED BY <1>3, <3>1 DEF Good, Clean, Linked
  <2>2. Owned'
    BY <1>2, <1>3 DEF Good, Clean, Owned, OnlySocket
  <2> QED BY <2>1, <2>2
<1>6. Connecting'
  <2>1. \A k \in Stacks : \A i \in DOMAIN connect_queue[k] :
           sock'[connect_queue[k][i]] = sock[connect_queue[k][i]]
    BY <1>2, <1>4 DEF OnlySocket
  <2> QED BY <1>3, <2>1, ConnectingKept DEF Good, Clean
<1>7. Closing'
  BY <1>3 DEF Good, Clean, Closing
<1>8. Unaccepted' /\ NotYetQueued'
  BY <1>2, <1>3, <1>4 DEF Good, Clean, Unaccepted, NotYetQueued
<1>9. Given' /\ Reachable'
  BY <1>1, <1>2, <1>3 DEF Good, Clean, Given, Reachable, OnlySocket
<1> QED BY <1>5, <1>6, <1>7, <1>8, <1>9 DEF Clean

LEMMA BindClean ==
    ASSUME Good, NEW s \in Socks, NEW p \in Ports, q_bind(s, p)
    PROVE  Clean'
<1>1. /\ OnlySocket(s) /\ sock'[s].type = sock[s].type
      /\ sock'[s].stream = sock[s].stream /\ sock'[s].port = p
  BY Binds DEF Good
<1>2. UNCHANGED <<str, ht, acceptq, connect_queue, close_queue, held, stale, up>>
  BY DEF q_bind
<1>3. \A x \in Socks : sock'[x].type = sock[x].type /\ sock'[x].stream = sock[x].stream
  BY <1>1 DEF OnlySocket
<1>4. \A k \in Stacks : \A i \in DOMAIN connect_queue[k] : connect_queue[k][i] \in Socks \ {s}
  BY Elements DEF Good, Clean, Connecting, q_bind, Bound
<1>5. Linked' /\ Owned' /\ Given' /\ Reachable'
  <2>1. Linked' /\ Owned'
    BY <1>2, <1>3, LinksKept DEF Good, Clean, SameBlocks, SameSockets
  <2>2. Given' /\ Reachable'
    BY <1>2, <1>3 DEF Good, Clean, Given, Reachable
  <2> QED BY <2>1, <2>2
<1>6. Connecting'
  <2>1. \A k \in Stacks : \A i \in DOMAIN connect_queue[k] :
           sock'[connect_queue[k][i]] = sock[connect_queue[k][i]]
    BY <1>1, <1>4 DEF OnlySocket
  <2> QED BY <1>2, <2>1, ConnectingKept DEF Good, Clean
<1>7. Closing' /\ Unaccepted' /\ NotYetQueued'
  BY <1>2, WaitingSame DEF Good, Clean
<1> QED BY <1>5, <1>6, <1>7 DEF Clean

LEMMA ListenClean ==
    ASSUME Good, NEW s \in Socks, NEW g \in BOOLEAN, q_listen(s, g), ~ misused'
    PROVE  Clean'
<1> USE Basics
<1>1. /\ OnlySocket(s) /\ sock'[s].type = "LISTENER"
      /\ sock'[s].stream \in {Listener, sock[s].stream}
  BY Listens DEF Good
<1>2. UNCHANGED <<str, ht, acceptq, connect_queue, close_queue, held, stale, up>>
  BY DEF q_listen
<1>3. sock[s].stream = None
  BY DEF q_listen
<1>4. \A k \in Stacks : \A i \in DOMAIN connect_queue[k] : connect_queue[k][i] # s
  BY DEF q_listen, Range
<1>5. /\ \A k \in Stacks : \A i \in DOMAIN connect_queue[k] : connect_queue[k][i] \in Socks \ {s}
      /\ \A st \in Streams : str[st].live => str[st].socket \in Socks \ {s}
  <2>1. \A st \in Streams : str[st].live => str[st].socket \in Socks /\ str[st].socket # s
    BY <1>3 DEF Good, Clean, Linked, Pointers
  <2>2. \A k \in Stacks : \A i \in DOMAIN connect_queue[k] : connect_queue[k][i] \in Socks
    BY Elements DEF Good
  <2> QED BY <1>4, <2>1, <2>2
<1>6. Linked' /\ Owned'
  <2>1. Linked'
    <3>1. \A st \in Streams : str[st].live => sock'[str[st].socket] = sock[str[st].socket]
      BY <1>1, <1>5 DEF OnlySocket
    <3> QED BY <1>2, <3>1 DEF Good, Clean, Linked
  <2>2. Owned'
    BY <1>1, <1>2, <1>3, SMTT(30) DEF Good, Clean, Owned, OnlySocket
  <2> QED BY <2>1, <2>2
<1>7. Given' /\ Reachable'
  BY <1>1, <1>2 DEF Good, Clean, Given, Reachable, OnlySocket
<1>8. Connecting'
  <2>1. \A k \in Stacks : \A i \in DOMAIN connect_queue[k] :
           sock'[connect_queue[k][i]] = sock[connect_queue[k][i]]
    BY <1>1, <1>5 DEF OnlySocket
  <2> QED BY <1>2, <2>1, ConnectingKept DEF Good, Clean
<1>9. Closing' /\ Unaccepted' /\ NotYetQueued'
  BY <1>2, WaitingSame DEF Good, Clean
<1> QED BY <1>6, <1>7, <1>8, <1>9 DEF Clean

LEMMA ConnectClean ==
    ASSUME Good, NEW s \in Socks, q_connect(s), ~ misused'
    PROVE  Clean'
<1> USE Basics
<1>1. /\ UNCHANGED <<sock, str, ht, acceptq, close_queue, held, stale>>
      /\ sock[s].type = "STREAM" /\ sock[s].stream = None
  BY DEF q_connect
<1>2. Linked' /\ Owned' /\ Given' /\ Closing' /\ Unaccepted' /\ NotYetQueued'
  BY <1>1, LinksSame, WaitingSame DEF Good, Clean, Given
<1>3. CASE ~ Bound(s)
  <2>1. connect_queue' = connect_queue /\ up' # "yes"
    BY <1>3 DEF q_connect
  <2>2. Connecting' /\ Reachable'
    BY <1>1, <2>1, ConnectingKept DEF Good, Clean, Reachable
  <2> QED BY <1>2, <2>2 DEF Clean
<1>4. CASE Bound(s)
  <2> DEFINE k == RSS[sock[s].port]
             n == Len(connect_queue[k]) + 1
  <2>1. sock[s].port \in Ports /\ k \in Stacks
    BY <1>4 DEF Bound
  <2>2. ~ Taken(s) /\ up' = up
    BY <1>4 DEF q_connect
  <2>3. connect_queue' = [connect_queue EXCEPT ![k] = Append(connect_queue[k], s)]
    BY <1>4 DEF q_connect, streamq_enqueue
  <2>4. /\ \A l \in Stacks : \A i \in DOMAIN connect_queue[l] :
               /\ i \in DOMAIN connect_queue'[l] /\ connect_queue'[l][i] = connect_queue[l][i]
               /\ sock[connect_queue[l][i]].port # sock[s].port
        /\ \A l \in Stacks : \A i \in DOMAIN connect_queue'[l] :
               \/ i \in DOMAIN connect_queue[l]
               \/ l = k /\ i = n /\ connect_queue'[l][i] = s
        /\ n \in DOMAIN connect_queue'[k] /\ connect_queue'[k][n] = s
    <3>1. /\ connect_queue'[k] = Append(connect_queue[k], s)
          /\ \A l \in Stacks \ {k} : connect_queue'[l] = connect_queue[l]
      BY <2>1, <2>3 DEF Good, Types
    <3>2. /\ \A i \in DOMAIN connect_queue[k] :
                i \in DOMAIN connect_queue'[k] /\ connect_queue'[k][i] = connect_queue[k][i]
          /\ \A i \in DOMAIN connect_queue'[k] : i \in DOMAIN connect_queue[k] \/ i = n
          /\ n \in DOMAIN connect_queue'[k] /\ connect_queue'[k][n] = s
      <4>1. connect_queue[k] \in Seq(Socks)
        BY <2>1 DEF Good, Types
      <4> HIDE DEF k
      <4> QED BY <3>1, <4>1, Appends, SMTT(30)
    <3>3. \A l \in Stacks : \A i \in DOMAIN connect_queue[l] :
             sock[connect_queue[l][i]].port # sock[s].port
      BY <2>2 DEF Taken
    <3> HIDE DEF k, n
    <3> QED BY <3>1, <3>2, <3>3
  <2>5. \A st \in Streams : str[st].live => str[st].conn # sock[s].port
    BY <2>2 DEF Taken
  <2> HIDE DEF k, n
  <2>6. Connecting'
    <3>1. \A l \in Stacks : \A i \in DOMAIN connect_queue'[l] :
            /\ sock[connect_queue'[l][i]].type = "STREAM"
            /\ sock[connect_queue'[l][i]].stream = None
            /\ sock[connect_queue'[l][i]].port \in Ports
            /\ \A st \in Streams : str[st].live => str[st].conn # sock[connect_queue'[l][i]].port
      <4>1. ASSUME NEW l \in Stacks, NEW i \in DOMAIN connect_queue'[l]
            PROVE  connect_queue'[l][i] = s \/
                   (i \in DOMAIN connect_queue[l] /\ connect_queue'[l][i] = connect_queue[l][i])
        BY <2>4
      <4> QED BY <1>1, <2>1, <2>5, <4>1, SMTT(30) DEF Good, Clean, Connecting
    <3>2. \A m, l \in Stacks : \A i \in DOMAIN connect_queue'[m], j \in DOMAIN connect_queue'[l] :
             sock[connect_queue'[m][i]].port = sock[connect_queue'[l][j]].port => m = l /\ i = j
      <4>1. \A m, l \in Stacks : \A i \in DOMAIN connect_queue[m], j \in DOMAIN connect_queue[l] :
               sock[connect_queue[m][i]].port = sock[connect_queue[l][j]].port => m = l /\ i = j
        BY DEF Good, Clean, Connecting
      <4> QED BY <2>4, <4>1, SMTT(30)
    <3> QED BY <1>1, <3>1, <3>2, SMTT(30) DEF Connecting
  <2>7. Reachable'
    BY <1>1, <2>2, <2>4, SMTT(30) DEF Good, Clean, Reachable
  <2> QED BY <1>2, <2>6, <2>7 DEF Clean
<1> QED BY <1>3, <1>4

LEMMA AcceptClean ==
    ASSUME Good, NEW l \in Socks, q_accept(l)
    PROVE  Clean'
<1> USE Basics
<1>1. UNCHANGED <<str, ht, connect_queue, close_queue>>
  BY DEF q_accept
<1>2. CASE UNCHANGED <<sock, acceptq, held, stale>> /\ up' # "yes"
  <2>1. Linked' /\ Owned'
    BY <1>1, <1>2, LinksSame DEF Good, Clean
  <2>2. Connecting'
    BY <1>1, <1>2, ConnectingKept DEF Good, Clean
  <2>3. Closing' /\ Unaccepted' /\ NotYetQueued'
    BY <1>1, <1>2, WaitingSame DEF Good, Clean
  <2>4. Given' /\ Reachable'
    BY <1>2 DEF Good, Clean, Given, Reachable
  <2> QED BY <2>1, <2>2, <2>3, <2>4 DEF Clean
<1>3. CASE ~ (UNCHANGED <<sock, acceptq, held, stale>> /\ up' # "yes")
  <2> DEFINE st == acceptq[1]
             s == str[st].socket
  <2>1. /\ acceptq # <<>> /\ acceptq' = Tail(acceptq) /\ up' = up
        /\ st \in Streams /\ 1 \in DOMAIN acceptq /\ s \in Socks
    BY <1>3, Accepts DEF Good
  <2>2. /\ OnlySocket(s)
        /\ sock'[s].type = sock[s].type /\ sock'[s].stream = st
        /\ held' = held \cup {s} /\ stale' = stale \ {s}
    BY <1>3, Accepts DEF Good
  <2>3. str[st].live /\ sock[s].type = "STREAM" /\ sock[s].stream = st
        /\ str[st].state \in {"ESTABLISHED", "CLOSE_WAIT"}
    BY <2>1 DEF Good, Clean, Unaccepted, Linked
  <2>4. \A x \in Socks : sock'[x].type = sock[x].type /\ sock'[x].stream = sock[x].stream
    BY <2>1, <2>2, <2>3 DEF OnlySocket
  <2>5. \A k \in Stacks : \A i \in DOMAIN connect_queue[k] : connect_queue[k][i] \in Socks \ {s}
    BY <2>1, <2>3, Elements, SMTT(30) DEF Good, Clean, Connecting
  <2>6. \A x \in Streams : str[x].live /\ x # st => str[x].socket # s
    BY <2>1, <2>3, SMTT(30) DEF Good, Clean, Linked
  <2>7. \A i \in DOMAIN acceptq' : /\ i + 1 \in DOMAIN acceptq /\ acceptq'[i] = acceptq[i + 1]
                                   /\ i + 1 # 1 /\ i \in Nat
    BY <2>1, AcceptqTail DEF Good
  <2>8. \A i \in DOMAIN acceptq : i # 1 => acceptq[i] # st
    BY <2>1 DEF Good, Clean, Unaccepted
  <2> HIDE DEF s, st
  <2>9. Linked' /\ Owned' /\ Given' /\ Reachable'
    <3>1. Linked' /\ Owned'
      BY <1>1, <2>4 DEF Good, Clean, Linked, Owned, Pointers
    <3>2. Given'
      BY <2>1, <2>2, <2>3, <2>4 DEF Good, Clean, Given
    <3>3. Reachable'
      BY <1>1, <2>1, <2>2, <2>4 DEF Good, Clean, Reachable
    <3> QED BY <3>1, <3>2, <3>3
  <2>10. Connecting'
    BY <1>1, <2>2, <2>5, SMTT(30) DEF Good, Clean, Connecting, OnlySocket
  <2>11. Closing'
    BY <1>1 DEF Good, Clean, Closing
  <2>12. NotYetQueued'
    BY <1>1, <2>1, <2>2, <2>3, <2>6 DEF Good, Clean, NotYetQueued
  <2>13. Unaccepted'
    <3>1. \A i \in DOMAIN acceptq' :
            /\ str[acceptq'[i]].live /\ ~ str[acceptq'[i]].closed
            /\ str[acceptq'[i]].state \in {"ESTABLISHED", "CLOSE_WAIT"}
            /\ str[acceptq'[i]].socket \notin held' \ stale'
      <4> SUFFICES ASSUME NEW i \in DOMAIN acceptq'
                   PROVE  /\ str[acceptq'[i]].live /\ ~ str[acceptq'[i]].closed
                          /\ str[acceptq'[i]].state \in {"ESTABLISHED", "CLOSE_WAIT"}
                          /\ str[acceptq'[i]].socket \notin held' \ stale'
        OBVIOUS
      <4>1. PICK j \in DOMAIN acceptq : j # 1 /\ acceptq'[i] = acceptq[j]
        BY <2>7
      <4>2. acceptq[j] \in Streams /\ acceptq[j] # st
        BY <2>8, <4>1, Elements DEF Good
      <4>3. /\ str[acceptq[j]].live /\ ~ str[acceptq[j]].closed
            /\ str[acceptq[j]].state \in {"ESTABLISHED", "CLOSE_WAIT"}
            /\ str[acceptq[j]].socket \notin held \ stale
        BY DEF Good, Clean, Unaccepted
      <4> QED BY <2>2, <2>6, <4>1, <4>2, <4>3
    <3>2. \A i, j \in DOMAIN acceptq' : acceptq'[i] = acceptq'[j] => i = j
      BY <2>7, SMTT(30) DEF Good, Clean, Unaccepted
    <3> QED BY <1>1, <3>1, <3>2 DEF Unaccepted
  <2> QED BY <2>9, <2>10, <2>11, <2>12, <2>13 DEF Clean
<1> QED BY <1>2, <1>3

LEMMA CloseClean ==
    ASSUME Good, NEW s \in Socks, q_close(s), ~ misused'
    PROVE  Clean'
<1> USE Basics
<1>1. UNCHANGED <<sock, ht, acceptq, connect_queue>>
  BY DEF q_close
<1>2. CASE sock[s].type = "STREAM" /\ sock[s].stream # None
  <2> DEFINE st == sock[s].stream
  <2>1. /\ st \in Streams /\ OnlyBlock(st)
        /\ str'[st].live = str[st].live /\ str'[st].socket = str[st].socket
        /\ str'[st].conn = str[st].conn /\ str'[st].state = str[st].state
        /\ str'[st].closed
        /\ close_queue' \in {close_queue, [close_queue EXCEPT ![st[1]] = Append(@, st)]}
        /\ up' = up
    BY <1>2, Closes DEF Good
  <2>2. s \in held /\ s \notin stale /\ held' = held \ {s} /\ stale' = stale \ {s}
    BY <1>2 DEF q_close
  <2>3. str[st].live /\ str[st].socket = s
    BY <2>1 DEF Good, Clean, Owned
  <2>4. \A x \in Streams :
           /\ str'[x].live = str[x].live /\ str'[x].socket = str[x].socket
           /\ str'[x].conn = str[x].conn /\ str'[x].state = str[x].state
           /\ x # st => str'[x].closed = str[x].closed
    BY <2>1 DEF OnlyBlock
  <2>5. \A k \in Stacks : \A i \in DOMAIN close_queue'[k] :
           \/ i \in DOMAIN close_queue[k] /\ close_queue'[k][i] = close_queue[k][i]
           \/ k = st[1] /\ close_queue'[k][i] = st
    <3>1. CASE close_queue' = close_queue
      BY <3>1
    <3>2. CASE close_queue' = [close_queue EXCEPT ![st[1]] = Append(@, st)]
      <4>1. st[1] \in Stacks
        BY <2>1
      <4>2. /\ close_queue'[st[1]] = Append(close_queue[st[1]], st)
            /\ \A k \in Stacks \ {st[1]} : close_queue'[k] = close_queue[k]
            /\ close_queue[st[1]] \in Seq(Streams)
        BY <3>2, <4>1 DEF Good, Types
      <4>3. \A i \in DOMAIN close_queue'[st[1]] :
               \/ i \in DOMAIN close_queue[st[1]]
                  /\ close_queue'[st[1]][i] = close_queue[st[1]][i]
               \/ close_queue'[st[1]][i] = st
        <5> DEFINE q == close_queue[st[1]]
        <5>1. q \in Seq(Streams) /\ st \in Streams
          BY <2>1, <4>2
        <5> HIDE DEF st, q
        <5>2. \A i \in DOMAIN Append(q, st) : (i \in DOMAIN q /\ Append(q, st)[i] = q[i])
                                               \/ Append(q, st)[i] = st
          BY <5>1, SMTT(30)
        <5> QED BY <4>2, <5>2 DEF q
      <4> QED BY <4>2, <4>3
    <3> QED BY <2>1, <3>1, <3>2
  <2> HIDE DEF st
  <2>6. Linked' /\ Owned'
    BY <1>1, <2>4, LinksKept DEF Good, Clean, SameBlocks, SameSockets
  <2>7. Connecting'
    BY <1>1, <2>4, ConnectingKept DEF Good, Clean
  <2>8. Closing'
    BY <2>1, <2>3, <2>4, <2>5, Elements, SMTT(30) DEF Good, Clean, Closing
  <2>9. NotYetQueued'
    BY <2>2, <2>3, <2>4 DEF Good, Clean, NotYetQueued
  <2>10. Unaccepted'
    <3>1. \A i \in DOMAIN acceptq : acceptq[i] \in Streams \ {st}
      BY <2>2, <2>3, Elements DEF Good, Clean, Unaccepted
    <3> QED BY <1>1, <2>2, <2>4, <3>1 DEF Good, Clean, Unaccepted
  <2>11. Given'
    BY <1>1, <2>2 DEF Good, Clean, Given
  <2>12. Reachable'
    BY <1>1, <2>1, <2>2, <2>3, <2>4, SMTT(30) DEF Good, Clean, Reachable
  <2> QED BY <2>6, <2>7, <2>8, <2>9, <2>10, <2>11, <2>12 DEF Clean
<1>3. CASE ~ (sock[s].type = "STREAM" /\ sock[s].stream # None)
  <2>1. UNCHANGED <<str, close_queue>>
    BY <1>3 DEF q_close
  <2>2. /\ stale' = stale \ {s}
        /\ sock[s].type = "LISTENER" => held' = held /\ up' = up
        /\ sock[s].type # "LISTENER" => held' = held \ {s}
        /\ sock[s].type = "STREAM" => up' # "yes"
        /\ sock[s].type # "STREAM" => up' = up
    BY <1>3 DEF q_close
  <2>3. Linked' /\ Owned' /\ Connecting' /\ Closing'
    <3>1. Closing'
      BY <2>1 DEF Good, Clean, Closing
    <3> QED BY <1>1, <2>1, <3>1, LinksSame, ConnectingKept DEF Good, Clean
  <2>4. \A st \in Streams : str[st].live /\ sock[s].type = "LISTENER" => str[st].socket # s
    BY DEF Good, Clean, Linked
  <2>5. NotYetQueued'
    BY <2>1, <2>2, <2>4 DEF Good, Clean, NotYetQueued
  <2>6. Unaccepted'
    BY <1>1, <2>1, <2>2, <2>4, Elements DEF Good, Clean, Unaccepted
  <2>7. Given'
    BY <1>1, <2>2 DEF Good, Clean, Given
  <2>8. Reachable'
    BY <1>1, <2>1, <2>2 DEF Good, Clean, Reachable
  <2> QED BY <2>3, <2>5, <2>6, <2>7, <2>8 DEF Clean
<1> QED BY <1>2, <1>3

(* Blocks of which only the state changes, of none that waits or could     *)
(* wait to be accepted.                                                    *)
StateStep(st, x) ==
    /\ NewState(st, x) /\ x # "SYN_RCVD"
    /\ UNCHANGED <<sock, ht, acceptq, connect_queue, held, stale>>
    /\ (\A i \in DOMAIN acceptq : acceptq[i] # st) \/ x = "CLOSE_WAIT"
    /\ up' \in {up, "closed already"}
    /\ \A k \in Stacks : \A i \in DOMAIN close_queue'[k] :
          \E j \in DOMAIN close_queue[k] : close_queue'[k][i] = close_queue[k][j]

LEMMA StateClean ==
    ASSUME Good, NEW st \in Streams, NEW x, StateStep(st, x)
    PROVE  Clean'
<1>0. UNCHANGED <<sock, ht, acceptq, connect_queue, held, stale>>
  BY DEF StateStep
<1>1. \A y \in Streams :
         /\ str'[y].live = str[y].live /\ str'[y].socket = str[y].socket
         /\ str'[y].conn = str[y].conn /\ str'[y].closed = str[y].closed
         /\ y # st => str'[y].state = str[y].state
  BY DEF StateStep, NewState, OnlyBlock
<1>2. str'[st].state = x
  BY DEF StateStep, NewState
<1>3. Linked' /\ Owned'
  BY <1>0, <1>1, LinksKept DEF Good, Clean, SameBlocks, SameSockets
<1>4. Connecting'
  BY <1>0, <1>1, ConnectingKept DEF Good, Clean
<1>5. Closing'
  <2>1. \A k \in Stacks : \A i \in DOMAIN close_queue'[k] :
           \E j \in DOMAIN close_queue[k] : close_queue'[k][i] = close_queue[k][j]
    BY DEF StateStep
  <2> SUFFICES ASSUME NEW k \in Stacks, NEW i \in DOMAIN close_queue'[k]
               PROVE  /\ close_queue'[k][i][1] = k
                      /\ str'[close_queue'[k][i]].live /\ str'[close_queue'[k][i]].closed
    BY DEF Closing
  <2>2. PICK j \in DOMAIN close_queue[k] : close_queue'[k][i] = close_queue[k][j]
    BY <2>1
  <2>3. /\ close_queue[k][j] \in Streams /\ close_queue[k][j][1] = k
        /\ str[close_queue[k][j]].live /\ str[close_queue[k][j]].closed
    BY Elements DEF Good, Clean, Closing
  <2> QED BY <1>1, <2>2, <2>3
<1>6. Unaccepted'
  <2>1. (\A i \in DOMAIN acceptq : acceptq[i] # st) \/ x = "CLOSE_WAIT"
    BY DEF StateStep
  <2> QED BY <1>0, <1>1, <1>2, <2>1, Elements DEF Good, Clean, Unaccepted
<1>7. NotYetQueued'
  BY <1>0, <1>1, <1>2 DEF Good, Clean, NotYetQueued, StateStep
<1>8. Given' /\ Reachable'
  <2>1. up' = "yes" => up = "yes"
    BY DEF StateStep
  <2> QED BY <1>0, <1>1, <2>1, SMTT(30) DEF Good, Clean, Given, Reachable
<1> QED BY <1>3, <1>4, <1>5, <1>6, <1>7, <1>8 DEF Clean

LEMMA PeerClosesClean ==
    ASSUME Good, NEW st \in Streams, PeerCloses(st)
    PROVE  Clean'
<1>1. NewState(st, "CLOSE_WAIT")
  BY ChangesState DEF PeerCloses, Good
<1> QED BY <1>1, StateClean DEF PeerCloses, StateStep

LEMMA CloseCallClean ==
    ASSUME Good, NEW k \in Stacks, handle_close_call(k)
    PROVE  Clean'
<1> DEFINE st == close_queue[k][1]
<1>1. close_queue[k] # <<>> /\ close_queue' = [close_queue EXCEPT ![k] = Tail(@)]
  BY DEF handle_close_call, streamq_dequeue
<1>2. /\ st \in Streams /\ st = Head(close_queue[k]) /\ 1 \in DOMAIN close_queue[k]
      /\ \A i \in DOMAIN Tail(close_queue[k]) :
            \E j \in DOMAIN close_queue[k] : Tail(close_queue[k])[i] = close_queue[k][j]
  BY <1>1, Tails, SMTT(30) DEF Good, Types
<1>3. \A l \in Stacks : \A i \in DOMAIN close_queue'[l] :
         \E j \in DOMAIN close_queue[l] : close_queue'[l][i] = close_queue[l][j]
  BY <1>1, <1>2, SMTT(30) DEF Good, Types
<1>4. str[st].live /\ str[st].closed
  BY <1>2 DEF Good, Clean, Closing
<1>5. str[st].state # "SYN_RCVD"
  BY <1>2, <1>4 DEF Good, Clean, NotYetQueued
<1>6. PICK x : x # "SYN_RCVD" /\ str' = [str EXCEPT ![st].state = x]
  BY <1>2, <1>5 DEF handle_close_call
<1>7. NewState(st, x)
  BY <1>2, <1>6, ChangesState DEF Good
<1>8. \A i \in DOMAIN acceptq : acceptq[i] # st
  BY <1>4 DEF Good, Clean, Unaccepted
<1> QED BY <1>2, <1>3, <1>6, <1>7, <1>8, StateClean DEF handle_close_call, StateStep

LEMMA EstablishedClean ==
    ASSUME Good, NEW st \in Streams, Established(st)
    PROVE  Clean'
<1>1. \A i \in DOMAIN acceptq : acceptq[i] # st
  BY DEF Established, Good, Clean, Unaccepted
<1>2. CASE acceptq' = acceptq
  <2>1. PICK x : x # "SYN_RCVD" /\ str' = [str EXCEPT ![st].state = x]
    BY DEF Established
  <2>2. NewState(st, x)
    BY <2>1, ChangesState DEF Good
  <2> QED BY <1>1, <1>2, <2>1, <2>2, StateClean DEF Established, StateStep
<1>3. CASE acceptq' # acceptq
  <2>1. /\ str[st].live /\ str[st].state = "SYN_RCVD" /\ acceptq' = Append(acceptq, st)
        /\ str' = [str EXCEPT ![st].state = "ESTABLISHED"]
        /\ UNCHANGED <<sock, ht, connect_queue, close_queue, held, stale, up>>
    BY <1>3 DEF Established
  <2>2. NewState(st, "ESTABLISHED")
    BY <2>1, ChangesState DEF Good
  <2>3. \A y \in Streams :
           /\ str'[y].live = str[y].live /\ str'[y].socket = str[y].socket
           /\ str'[y].conn = str[y].conn /\ str'[y].closed = str[y].closed
           /\ y # st => str'[y].state = str[y].state
    BY <2>2 DEF NewState, OnlyBlock
  <2>4. str'[st].state = "ESTABLISHED"
    BY <2>2 DEF NewState
  <2>5. /\ \A i \in DOMAIN acceptq : i \in DOMAIN acceptq' /\ acceptq'[i] = acceptq[i]
        /\ \A i \in DOMAIN acceptq' :
              i \in DOMAIN acceptq \/ (i = Len(acceptq) + 1 /\ acceptq'[i] = st)
    <3>1. acceptq \in Seq(Streams)
      BY DEF Good, Types
    <3> QED BY <2>1, <3>1, Appends, SMTT(30)
  <2>6. Linked' /\ Owned'
    BY <2>1, <2>3, LinksKept DEF Good, Clean, SameBlocks, SameSockets
  <2>7. Connecting'
    BY <2>1, <2>3, ConnectingKept DEF Good, Clean
  <2>8. Closing'
    BY <2>1, <2>3, Elements, SMTT(30) DEF Good, Clean, Closing
  <2>9. ~ str[st].closed /\ str[st].socket \notin held \ stale
    BY <2>1 DEF Good, Clean, NotYetQueued
  <2>10. Unaccepted'
    <3>1. \A i \in DOMAIN acceptq' :
            /\ str'[acceptq'[i]].live /\ ~ str'[acceptq'[i]].closed
            /\ str'[acceptq'[i]].state \in {"ESTABLISHED", "CLOSE_WAIT"}
            /\ str'[acceptq'[i]].socket \notin held \ stale
      BY <1>1, <2>1, <2>3, <2>4, <2>5, <2>9, Elements, SMTT(30) DEF Good, Clean, Unaccepted
    <3>2. \A i, j \in DOMAIN acceptq' : acceptq'[i] = acceptq'[j] => i = j
      BY <1>1, <2>5 DEF Good, Clean, Unaccepted
    <3> QED BY <2>1, <3>1, <3>2 DEF Unaccepted
  <2>11. NotYetQueued'
    BY <2>1, <2>3, <2>4, SMTT(30) DEF Good, Clean, NotYetQueued
  <2>12. Given' /\ Reachable'
    BY <2>1, <2>3, SMTT(30) DEF Good, Clean, Given, Reachable
  <2> QED BY <2>6, <2>7, <2>8, <2>10, <2>11, <2>12 DEF Clean
<1> QED BY <1>2, <1>3

(* A block that was free is given to a socket, which nobody else uses.     *)
LEMMA NewBlockClean ==
    ASSUME Good, NEW s \in Socks, NEW st \in Streams, NEW c \in Conns, NEW state,
           NewBlock(st, s, c, state), ~ str[st].live, OnlySocket(s),
           sock'[s].type = "STREAM", sock'[s].stream = st,
           \A x \in Streams : str[x].live => str[x].socket # s,
           \A x \in Streams : str[x].live /\ x[1] = st[1] => str[x].conn # c
    PROVE  Linked' /\ Owned'
<1>1. /\ \A x \in Streams \ {st} : str'[x] = str[x]
      /\ str'[st].live /\ str'[st].socket = s /\ str'[st].conn = c
      /\ \A k \in Stacks, d \in Conns :
            ht'[k][d] = IF k = st[1] /\ d = c THEN st ELSE ht[k][d]
  BY DEF NewBlock, OnlyBlock
<1>2. \A x \in Streams : str[x].live =>
         x[1] \in Stacks /\ str[x].conn \in Conns /\ str[x].socket \in Socks
  BY Basics DEF Good, Pointers
<1>3. Linked'
  <2> SUFFICES ASSUME NEW x \in Streams, str'[x].live
               PROVE  /\ sock'[str'[x].socket].type = "STREAM"
                      /\ sock'[str'[x].socket].stream = x
                      /\ ht'[x[1]][str'[x].conn] = x
    BY DEF Linked
  <2>1. CASE x = st
    <3>1. ht'[st[1]][c] = st
      <4>1. st[1] \in Stacks
        BY Basics
      <4>2. \A k \in Stacks, d \in Conns : k = st[1] /\ d = c => ht'[k][d] = st
        BY <1>1
      <4> QED BY <4>1, <4>2
    <3> QED BY <1>1, <2>1, <3>1
  <2>2. CASE x # st
    <3>1. str[x].live /\ str'[x] = str[x]
      BY <1>1, <2>2
    <3>2. sock'[str[x].socket] = sock[str[x].socket]
      BY <1>2, <3>1 DEF OnlySocket
    <3>3. ht'[x[1]][str[x].conn] = ht[x[1]][str[x].conn]
      <4>1. x[1] \in Stacks /\ str[x].conn \in Conns /\ ~ (x[1] = st[1] /\ str[x].conn = c)
        BY <1>2, <3>1
      <4> QED BY <1>1, <4>1
    <3> QED BY <3>1, <3>2, <3>3, SMTT(30) DEF Good, Clean, Linked
  <2> QED BY <2>1, <2>2
<1>4. Owned'
  <2>1. \A x \in Socks \ {s} : sock'[x].stream \in Streams =>
           sock[x].stream # st /\ str'[sock[x].stream] = str[sock[x].stream]
    BY <1>1 DEF Good, Clean, Owned, OnlySocket
  <2> QED BY <1>1, <2>1, SMTT(30) DEF Good, Clean, Owned, OnlySocket
<1> QED BY <1>3, <1>4

LEMMA ConnectCallClean ==
    ASSUME Good, NEW k \in Stacks, handle_connect_call(k)
    PROVE  Clean'
<1> USE Basics
<1> DEFINE s == connect_queue[k][1]
<1>1. /\ connect_queue[k] # <<>> /\ 1 \in DOMAIN connect_queue[k] /\ s \in Socks
      /\ connect_queue' = [connect_queue EXCEPT ![k] = Tail(connect_queue[k])]
  BY Connects DEF Good
<1>2. UNCHANGED <<acceptq, close_queue, held, stale>>
  BY DEF handle_connect_call
<1>3. \A l \in Stacks : \A i \in DOMAIN connect_queue'[l] :
         LET j == IF l = k THEN i + 1 ELSE i
         IN  /\ j \in DOMAIN connect_queue[l] /\ connect_queue'[l][i] = connect_queue[l][j]
             /\ l = k => j # 1 /\ i \in Nat
  <2>1. /\ connect_queue'[k] = Tail(connect_queue[k])
        /\ \A l \in Stacks \ {k} : connect_queue'[l] = connect_queue[l]
        /\ connect_queue[k] \in Seq(Socks)
    BY <1>1 DEF Good, Types
  <2>2. \A i \in DOMAIN connect_queue'[k] :
           /\ i + 1 \in DOMAIN connect_queue[k] /\ i \in Nat /\ i + 1 # 1
           /\ connect_queue'[k][i] = connect_queue[k][i + 1]
    <3> DEFINE q == connect_queue[k]
    <3>1. q \in Seq(Socks) /\ q # <<>> /\ connect_queue'[k] = Tail(q)
      BY <1>1, <2>1
    <3> HIDE DEF q
    <3>2. \A i \in DOMAIN Tail(q) : /\ i \in Nat /\ i + 1 # 1
                                    /\ i + 1 \in DOMAIN q /\ Tail(q)[i] = q[i + 1]
      BY <3>1, Tails, SMTT(30)
    <3> QED BY <3>1, <3>2 DEF q
  <2> QED BY <2>1, <2>2
<1>4. \A l \in Stacks : \A i \in DOMAIN connect_queue'[l] :
         \E j \in DOMAIN connect_queue[l] :
            connect_queue'[l][i] = connect_queue[l][j] /\ (l = k => j # 1)
  BY <1>3, SMTT(30)
<1>5. \A m, l \in Stacks : \A i \in DOMAIN connect_queue'[m], j \in DOMAIN connect_queue'[l] :
         sock[connect_queue'[m][i]].port = sock[connect_queue'[l][j]].port => m = l /\ i = j
  <2> SUFFICES ASSUME NEW m \in Stacks, NEW l \in Stacks,
                      NEW i \in DOMAIN connect_queue'[m], NEW j \in DOMAIN connect_queue'[l],
                      sock[connect_queue'[m][i]].port = sock[connect_queue'[l][j]].port
               PROVE  m = l /\ i = j
    OBVIOUS
  <2>1. m = l /\ (IF m = k THEN i + 1 ELSE i) = (IF l = k THEN j + 1 ELSE j)
    <3>1. \A a, b \in Stacks : \A x \in DOMAIN connect_queue[a], y \in DOMAIN connect_queue[b] :
             sock[connect_queue[a][x]].port = sock[connect_queue[b][y]].port => a = b /\ x = y
      BY DEF Good, Clean, Connecting
    <3> QED BY <1>3, <3>1, SMTT(30)
  <2> QED BY <1>3, <2>1, SMTT(30)
<1>6. CASE UNCHANGED <<sock, str, ht>> /\ up' # "yes"
  <2>1. Connecting'
    <3>1. \A l \in Stacks : \A i \in DOMAIN connect_queue'[l] :
             /\ sock[connect_queue'[l][i]].type = "STREAM"
             /\ sock[connect_queue'[l][i]].stream = None
             /\ sock[connect_queue'[l][i]].port \in Ports
             /\ \A x \in Streams : str[x].live => str[x].conn # sock[connect_queue'[l][i]].port
      <4>1. Connecting
        BY DEF Good, Clean
      <4> QED BY <1>4, <4>1, SMTT(30) DEF Connecting
    <3> QED BY <1>5, <1>6, <3>1, SMTT(30) DEF Connecting
  <2>2. Given' /\ Reachable'
    BY <1>2, <1>6 DEF Good, Clean, Given, Reachable
  <2> QED BY <1>2, <1>6, <2>1, <2>2, LinksSame, WaitingSame DEF Good, Clean
<1>7. CASE ~ (UNCHANGED <<sock, str, ht>> /\ up' # "yes")
  <2>1. /\ up' = up /\ sock[s].port \in Conns
        /\ OnlySocket(s) /\ sock'[s].type = sock[s].type /\ sock'[s].port = sock[s].port
    BY <1>7, Connects DEF Good
  <2>2. PICK st \in Streams :
           /\ st[1] = k /\ ~ str[st].live /\ sock'[s].stream = st
           /\ NewBlock(st, s, sock[s].port, "SYN_SENT")
    BY <1>7, Connects DEF Good
  <2>3. /\ sock[s].type = "STREAM" /\ sock[s].stream = None /\ sock[s].port \in Ports
        /\ \A x \in Streams : str[x].live => str[x].conn # sock[s].port
    BY <1>1 DEF Good, Clean, Connecting
  <2>4. \A x \in Streams : str[x].live => str[x].socket # s
    <3>1. \A x \in Streams : str[x].live => sock[str[x].socket].stream \in Streams
      BY DEF Good, Clean, Linked
    <3> HIDE DEF s
    <3> QED BY <2>3, <3>1
  <2>5. /\ \A x \in Streams \ {st} : str'[x] = str[x]
        /\ str'[st].live /\ str'[st].socket = s /\ str'[st].conn = sock[s].port
        /\ str'[st].state = "SYN_SENT"
    BY <2>2 DEF NewBlock, OnlyBlock
  <2>6. \A l \in Stacks : \A i \in DOMAIN connect_queue'[l] :
           /\ connect_queue'[l][i] \in Socks \ {s}
           /\ sock[connect_queue'[l][i]].port # sock[s].port
    <3>1. \A l \in Stacks : \A i \in DOMAIN connect_queue'[l] :
             connect_queue'[l][i] \in Socks
      BY <1>4, Elements, SMTT(30) DEF Good
    <3>2. \A l \in Stacks : \A i \in DOMAIN connect_queue'[l] :
             sock[connect_queue'[l][i]].port # sock[s].port
      <4>1. Connecting
        BY DEF Good, Clean
      <4> QED BY <1>1, <1>4, <4>1, SMTT(30) DEF Connecting
    <3> QED BY <3>1, <3>2
  <2> HIDE DEF s
  <2>7. Linked' /\ Owned'
    BY <1>1, <2>1, <2>2, <2>3, <2>4, NewBlockClean, SMTT(30)
  <2>8. Connecting'
    <3>1. \A l \in Stacks : \A i \in DOMAIN connect_queue'[l] :
             sock'[connect_queue'[l][i]] = sock[connect_queue'[l][i]]
      BY <2>1, <2>6 DEF OnlySocket
    <3>2. \A l \in Stacks : \A i \in DOMAIN connect_queue'[l] :
            /\ sock[connect_queue'[l][i]].type = "STREAM"
            /\ sock[connect_queue'[l][i]].stream = None
            /\ sock[connect_queue'[l][i]].port \in Ports
            /\ \A x \in Streams : str[x].live => str[x].conn # sock[connect_queue'[l][i]].port
      <4> SUFFICES ASSUME NEW l \in Stacks, NEW i \in DOMAIN connect_queue'[l]
                   PROVE  LET e == connect_queue'[l][i]
                          IN  /\ sock[e].type = "STREAM" /\ sock[e].stream = None
                              /\ sock[e].port \in Ports
                              /\ \A x \in Streams : str[x].live => str[x].conn # sock[e].port
        OBVIOUS
      <4>1. PICK j \in DOMAIN connect_queue[l] : connect_queue'[l][i] = connect_queue[l][j]
        BY <1>4
      <4> QED BY <4>1, SMTT(30) DEF Good, Clean, Connecting
    <3>3. \A l \in Stacks : \A i \in DOMAIN connect_queue'[l] :
             \A x \in Streams : str'[x].live => str'[x].conn # sock[connect_queue'[l][i]].port
      <4>1. ASSUME NEW x \in Streams, str'[x].live
            PROVE  str'[x].conn = sock[s].port \/ (str[x].live /\ str'[x].conn = str[x].conn)
        BY <2>5, <4>1
      <4> QED BY <2>6, <3>2, <4>1, SMTT(30)
    <3>4. \A m, l \in Stacks : \A i \in DOMAIN connect_queue'[m], j \in DOMAIN connect_queue'[l] :
             sock'[connect_queue'[m][i]].port = sock'[connect_queue'[l][j]].port => m = l /\ i = j
      BY <1>5, <3>1, SMTT(30)
    <3>5. \A l \in Stacks : \A i \in DOMAIN connect_queue'[l] :
            /\ sock'[connect_queue'[l][i]].type = "STREAM"
            /\ sock'[connect_queue'[l][i]].stream = None
            /\ sock'[connect_queue'[l][i]].port \in Ports
            /\ \A x \in Streams : str'[x].live => str'[x].conn # sock'[connect_queue'[l][i]].port
      <4> SUFFICES ASSUME NEW l \in Stacks, NEW i \in DOMAIN connect_queue'[l]
                   PROVE  LET e == connect_queue'[l][i]
                          IN  /\ sock'[e].type = "STREAM" /\ sock'[e].stream = None
                              /\ sock'[e].port \in Ports
                              /\ \A x \in Streams : str'[x].live => str'[x].conn # sock'[e].port
        OBVIOUS
      <4> QED BY <3>1, <3>2, <3>3, SMTT(30)
    <3> QED BY <3>4, <3>5 DEF Connecting
  <2>9. Closing'
    BY <1>2, <2>2, <2>5, Elements, SMTT(30) DEF Good, Clean, Closing
  <2>10. Unaccepted'
    BY <1>2, <2>2, <2>5, Elements DEF Good, Clean, Unaccepted
  <2>11. NotYetQueued'
    BY <1>2, <2>5 DEF Good, Clean, NotYetQueued
  <2>12. Given'
    BY <1>2, <2>1 DEF Good, Clean, Given, OnlySocket
  <2>13. Reachable'
    <3> SUFFICES ASSUME NEW x \in Socks, sock'[x].type = "STREAM", up' = "yes"
                 PROVE  \/ \E y \in Streams : str'[y].live /\ str'[y].socket = x
                        \/ \E l \in Stacks : \E i \in DOMAIN connect_queue'[l] :
                              connect_queue'[l][i] = x
                        \/ x \in held'
      BY DEF Reachable
    <3>1. CASE x = s
      BY <2>5, <3>1
    <3>2. CASE x # s
      <4>1. sock[x].type = "STREAM" /\ up = "yes"
        BY <2>1, <3>2 DEF OnlySocket
      <4>2. CASE \E y \in Streams : str[y].live /\ str[y].socket = x
        BY <2>2, <2>5, <4>2
      <4>3. CASE x \in held
        BY <1>2, <4>3
      <4>4. ASSUME NEW l \in Stacks, NEW i \in DOMAIN connect_queue[l], connect_queue[l][i] = x
            PROVE  \E j \in DOMAIN connect_queue'[l] : connect_queue'[l][j] = x
        <5>1. CASE l # k
          BY <1>1, <4>4, <5>1 DEF Good, Types
        <5>2. CASE l = k
          <6>1. connect_queue[k] \in Seq(Socks) /\ connect_queue'[k] = Tail(connect_queue[k])
            BY <1>1 DEF Good, Types
          <6>2. i # 1
            BY <3>2, <4>4, <5>2 DEF s
          <6> DEFINE q == connect_queue[k]
          <6>3. q \in Seq(Socks) /\ q # <<>> /\ i \in DOMAIN q /\ q[i] = x
            BY <1>1, <4>4, <5>2, <6>1
          <6> HIDE DEF q
          <6>4. i - 1 \in DOMAIN Tail(q) /\ Tail(q)[i - 1] = x
            BY <6>2, <6>3, Tails, SMTT(30)
          <6> QED BY <5>2, <6>1, <6>4 DEF q
        <5> QED BY <5>1, <5>2
      <4> QED BY <4>1, <4>2, <4>3, <4>4 DEF Good, Clean, Reachable
    <3> QED BY <3>1, <3>2
  <2> QED BY <2>7, <2>8, <2>9, <2>10, <2>11, <2>12, <2>13 DEF Clean
<1> QED BY <1>6, <1>7

LEMMA PassiveOpenClean ==
    ASSUME Good, NEW p \in Peers, handle_passive_open(p)
    PROVE  Clean'
<1> USE Basics
<1> DEFINE k == RSS[p]
           s == free[k][1]
<1>1. UNCHANGED <<acceptq, connect_queue, close_queue, held, stale>>
  BY DEF handle_passive_open
<1>2. CASE UNCHANGED <<sock, free, str, ht>> /\ up' # "yes"
  <2>1. Given' /\ Reachable'
    BY <1>1, <1>2 DEF Good, Clean, Given, Reachable
  <2> QED BY <1>1, <1>2, <2>1, LinksSame, ConnectingKept, WaitingSame DEF Good, Clean
<1>3. CASE ~ (UNCHANGED <<sock, free, str, ht>> /\ up' # "yes")
  <2>1. /\ up' = up /\ k \in Stacks /\ p \in Conns /\ 1 \in DOMAIN free[k] /\ s \in Socks
        /\ OnlySocket(s) /\ sock'[s].type = "STREAM"
    BY <1>3, Opens DEF Good
  <2>2. PICK st \in Streams :
           /\ st[1] = k /\ ~ str[st].live /\ sock'[s].stream = st
           /\ NewBlock(st, s, p, "SYN_RCVD")
    BY <1>3, Opens DEF Good
  <2>3. sock[s].type = "UNUSED" /\ ht[k][p] = None
    BY <2>1 DEF Good, FreeLists, handle_passive_open, ht_search
  <2>4. s \notin held \ stale
    BY <2>1, <2>3 DEF Good, Clean, Given
  <2>5. \A x \in Streams : str[x].live => str[x].socket # s
    BY <2>3 DEF Good, Clean, Linked
  <2>6. \A x \in Streams : str[x].live /\ x[1] = k => str[x].conn # p
    BY <2>3, SMTT(30) DEF Good, Clean, Linked
  <2>7. /\ \A x \in Streams \ {st} : str'[x] = str[x]
        /\ str'[st].live /\ str'[st].socket = s /\ str'[st].conn = p
        /\ str'[st].state = "SYN_RCVD" /\ ~ str'[st].closed
    BY <2>2 DEF NewBlock, OnlyBlock
  <2>8. \A l \in Stacks : \A i \in DOMAIN connect_queue[l] : connect_queue[l][i] \in Socks \ {s}
    <3>1. \A l \in Stacks : \A i \in DOMAIN connect_queue[l] :
             connect_queue[l][i] \in Socks /\ sock[connect_queue[l][i]].type = "STREAM"
      BY Elements DEF Good, Clean, Connecting
    <3> QED BY <2>3, <3>1
  <2> HIDE DEF s, k
  <2>9. Linked' /\ Owned'
    BY <2>1, <2>2, <2>5, <2>6, NewBlockClean, SMTT(30)
  <2>10. Connecting'
    <3>1. \A l \in Stacks : \A i \in DOMAIN connect_queue[l] :
             sock'[connect_queue[l][i]] = sock[connect_queue[l][i]]
      BY <2>1, <2>8 DEF OnlySocket
    <3>2. \A l \in Stacks : \A i \in DOMAIN connect_queue[l] :
             \A x \in Streams : str'[x].live => str'[x].conn # sock[connect_queue[l][i]].port
      <4>1. \A l \in Stacks : \A i \in DOMAIN connect_queue[l] :
               sock[connect_queue[l][i]].port \in Ports /\ p \notin Ports
        BY DEF Good, Clean, Connecting
      <4>2. \A l \in Stacks : \A i \in DOMAIN connect_queue[l] :
               \A x \in Streams : str[x].live => str[x].conn # sock[connect_queue[l][i]].port
        <5>1. Connecting
          BY DEF Good, Clean
        <5> QED BY <5>1, SMTT(30) DEF Connecting
      <4>3. ASSUME NEW x \in Streams, str'[x].live
            PROVE  str'[x].conn = p \/ (str[x].live /\ str'[x].conn = str[x].conn)
        BY <2>7, <4>3
      <4> QED BY <4>1, <4>2, <4>3
    <3>3. \A m, l \in Stacks : \A i \in DOMAIN connect_queue'[m], j \in DOMAIN connect_queue'[l] :
             sock'[connect_queue'[m][i]].port = sock'[connect_queue'[l][j]].port => m = l /\ i = j
      <4>1. Connecting /\ connect_queue' = connect_queue
        BY <1>1 DEF Good, Clean
      <4> QED BY <3>1, <4>1, SMTT(30) DEF Connecting
    <3>4. \A l \in Stacks : \A i \in DOMAIN connect_queue'[l] :
            /\ sock'[connect_queue'[l][i]].type = "STREAM"
            /\ sock'[connect_queue'[l][i]].stream = None
            /\ sock'[connect_queue'[l][i]].port \in Ports
            /\ \A x \in Streams : str'[x].live => str'[x].conn # sock'[connect_queue'[l][i]].port
      <4>1. Connecting /\ connect_queue' = connect_queue
        BY <1>1 DEF Good, Clean
      <4>2. \A l \in Stacks : \A i \in DOMAIN connect_queue[l] :
               /\ sock[connect_queue[l][i]].type = "STREAM"
               /\ sock[connect_queue[l][i]].stream = None
               /\ sock[connect_queue[l][i]].port \in Ports
        BY <4>1 DEF Connecting
      <4> QED BY <3>1, <3>2, <4>1, <4>2, SMTT(30)
    <3> QED BY <3>3, <3>4 DEF Connecting
  <2>11. Closing'
    BY <1>1, <2>2, <2>7, Elements, SMTT(30) DEF Good, Clean, Closing
  <2>12. Unaccepted'
    BY <1>1, <2>2, <2>7, Elements DEF Good, Clean, Unaccepted
  <2>13. NotYetQueued'
    BY <1>1, <2>4, <2>7 DEF Good, Clean, NotYetQueued
  <2>14. Given'
    BY <1>1, <2>1 DEF Good, Clean, Given, OnlySocket
  <2>15. Reachable'
    BY <1>1, <2>1, <2>2, <2>7, SMTT(30) DEF Good, Clean, Reachable, OnlySocket
  <2> QED BY <2>9, <2>10, <2>11, <2>12, <2>13, <2>14, <2>15 DEF Clean
<1> QED BY <1>2, <1>3

(* A stream ends that waits neither to be accepted nor, after the step, to *)
(* be closed.                                                              *)
Ends(st) ==
    /\ str[st].live /\ Destroyed(st)
    /\ UNCHANGED <<acceptq, connect_queue, held>>
    /\ \A i \in DOMAIN acceptq : acceptq[i] # st
    /\ \A k \in Stacks : \A i \in DOMAIN close_queue'[k] :
          /\ close_queue'[k][i] # st
          /\ \E j \in DOMAIN close_queue[k] : close_queue'[k][i] = close_queue[k][j]

LEMMA EndsClean ==
    ASSUME Good, NEW st \in Streams, Ends(st)
    PROVE  Clean'
<1> USE Basics
<1> DEFINE s == str[st].socket
<1>1. /\ UNCHANGED <<acceptq, connect_queue, held>>
      /\ str[st].live /\ Destroyed(st) /\ stale' = stale \cup (held \cap {s})
  BY DEF Ends, Destroyed
<1>2. sock[s].type = "STREAM" /\ sock[s].stream = st /\ ht[st[1]][str[st].conn] = st
  BY <1>1 DEF Good, Clean, Linked
<1>3. /\ s \in Socks /\ st[1] \in Stacks /\ str[st].conn \in Conns
      /\ OnlyBlock(st) /\ ~ str'[st].live
      /\ \A k \in Stacks, d \in Conns :
            ht'[k][d] = IF k = st[1] /\ d = str[st].conn THEN None ELSE ht[k][d]
  BY <1>1, Destroys DEF Good
<1>4. /\ up' = up /\ OnlySocket(s) /\ sock'[s].type = "UNUSED" /\ sock'[s].stream = None
  BY <1>1, <1>2, Destroys DEF Good
<1>5. \A i \in DOMAIN acceptq : acceptq[i] \in Streams \ {st}
  BY Elements DEF Ends, Good
<1>6. \A k \in Stacks : \A i \in DOMAIN close_queue'[k] :
         /\ close_queue'[k][i] \in Streams \ {st} /\ close_queue'[k][i][1] = k
         /\ str[close_queue'[k][i]].live /\ str[close_queue'[k][i]].closed
  <2> SUFFICES ASSUME NEW k \in Stacks, NEW i \in DOMAIN close_queue'[k]
               PROVE  /\ close_queue'[k][i] \in Streams \ {st} /\ close_queue'[k][i][1] = k
                      /\ str[close_queue'[k][i]].live /\ str[close_queue'[k][i]].closed
    OBVIOUS
  <2>1. PICK j \in DOMAIN close_queue[k] : close_queue'[k][i] = close_queue[k][j]
    BY DEF Ends
  <2>2. /\ close_queue[k][j] \in Streams /\ close_queue[k][j][1] = k
        /\ str[close_queue[k][j]].live /\ str[close_queue[k][j]].closed
    BY Elements DEF Good, Clean, Closing
  <2>3. close_queue'[k][i] # st
    BY DEF Ends
  <2> QED BY <2>1, <2>2, <2>3
<1>7. \A k \in Stacks : \A i \in DOMAIN connect_queue[k] : connect_queue[k][i] \in Socks \ {s}
  BY <1>2, Elements, SMTT(30) DEF Good, Clean, Connecting
<1>8. \A x \in Streams : str[x].live /\ x # st =>
         /\ str[x].socket \in Socks \ {s}
         /\ x[1] \in Stacks /\ str[x].conn \in Conns
         /\ ~ (x[1] = st[1] /\ str[x].conn = str[st].conn)
  BY <1>2 DEF Good, Clean, Linked, Pointers
<1> HIDE DEF s
<1>9. Linked'
  <2> SUFFICES ASSUME NEW x \in Streams, str'[x].live
               PROVE  /\ sock'[str'[x].socket].type = "STREAM"
                      /\ sock'[str'[x].socket].stream = x
                      /\ ht'[x[1]][str'[x].conn] = x
    BY DEF Linked
  <2>1. x # st /\ str'[x] = str[x]
    BY <1>3 DEF OnlyBlock
  <2>2. sock'[str[x].socket] = sock[str[x].socket]
    BY <1>4, <1>8, <2>1 DEF OnlySocket
  <2>3. ht'[x[1]][str[x].conn] = ht[x[1]][str[x].conn]
    BY <1>3, <1>8, <2>1, SMTT(30)
  <2> QED BY <2>1, <2>2, <2>3, SMTT(30) DEF Good, Clean, Linked
<1>10. Owned'
  <2>1. \A x \in Socks \ {s} : sock[x].stream # st
    BY DEF Good, Clean, Owned, s
  <2>2. \A x \in Socks : sock'[x].stream \in Streams => x # s /\ sock'[x] = sock[x]
    BY <1>4 DEF OnlySocket
  <2>3. \A x \in Streams : x # st => str'[x] = str[x]
    BY <1>3 DEF OnlyBlock
  <2> QED BY <2>1, <2>2, <2>3, SMTT(30) DEF Good, Clean, Owned
<1>11. Connecting'
  <2>1. \A k \in Stacks : \A i \in DOMAIN connect_queue[k] :
           sock'[connect_queue[k][i]] = sock[connect_queue[k][i]]
    BY <1>4, <1>7 DEF OnlySocket
  <2>2. \A x \in Streams : str'[x].live => str[x].live /\ str'[x].conn = str[x].conn
    BY <1>3 DEF OnlyBlock
  <2> QED BY <1>1, <2>1, <2>2, ConnectingKept DEF Good, Clean
<1>12. Closing'
  BY <1>3, <1>6 DEF Closing, OnlyBlock
<1>13. Unaccepted'
  BY <1>1, <1>3, <1>5 DEF Good, Clean, Unaccepted, OnlyBlock
<1>14. NotYetQueued'
  BY <1>1, <1>3 DEF Good, Clean, NotYetQueued, OnlyBlock
<1>15. Given'
  BY <1>1, <1>4 DEF Good, Clean, Given, OnlySocket
<1>16. Reachable'
  <2>1. \A x \in Socks : sock'[x].type = "STREAM" => x # s /\ sock[x].type = "STREAM"
    BY <1>4 DEF OnlySocket
  <2>2. \A x \in Socks, y \in Streams : str[y].live /\ str[y].socket = x /\ x # s =>
           str'[y].live /\ str'[y].socket = x
    BY <1>3 DEF OnlyBlock, s
  <2> QED BY <1>1, <1>4, <2>1, <2>2, SMTT(30) DEF Good, Clean, Reachable
<1> QED BY <1>9, <1>10, <1>11, <1>12, <1>13, <1>14, <1>15, <1>16 DEF Clean

LEMMA DestroyClean ==
    ASSUME Good, NEW st \in Streams, tcp_stream_destroy(st), ~ misused'
    PROVE  Clean'
<1>1. \A i \in DOMAIN acceptq : acceptq[i] # st
  BY DEF tcp_stream_destroy, Range, Good, Clean, Unaccepted
<1>2. \A k \in Stacks : \A i \in DOMAIN close_queue[k] : close_queue[k][i] # st
  <2>1. \A i \in DOMAIN close_queue[st[1]] : close_queue[st[1]][i] # st
    BY DEF tcp_stream_destroy, Range
  <2> QED BY <2>1, Elements, SMTT(30) DEF Good, Clean, Closing
<1>3. close_queue' = close_queue
  BY DEF tcp_stream_destroy
<1> QED BY <1>1, <1>2, <1>3, EndsClean DEF tcp_stream_destroy, Ends

LEMMA ResetCallClean ==
    ASSUME Good, NEW k \in Stacks, handle_reset_call(k), ~ misused'
    PROVE  Clean'
<1> DEFINE st == close_queue[k][1]
<1>1. close_queue[k] # <<>> /\ close_queue' = [close_queue EXCEPT ![k] = Tail(@)]
  BY DEF handle_reset_call, streamq_dequeue
<1>2. /\ st \in Streams /\ st = Head(close_queue[k]) /\ 1 \in DOMAIN close_queue[k]
      /\ \A i \in DOMAIN Tail(close_queue[k]) :
            \E j \in DOMAIN close_queue[k] : Tail(close_queue[k])[i] = close_queue[k][j]
  BY <1>1, Tails, SMTT(30) DEF Good, Types
<1>3. \A l \in Stacks : \A i \in DOMAIN close_queue'[l] :
         \E j \in DOMAIN close_queue[l] : close_queue'[l][i] = close_queue[l][j]
  BY <1>1, <1>2, SMTT(30) DEF Good, Types
<1>4. str[st].closed /\ st[1] = k
  BY <1>2 DEF Good, Clean, Closing
<1>5. \A i \in DOMAIN acceptq : acceptq[i] # st
  BY <1>4 DEF Good, Clean, Unaccepted
<1>6. \A i \in DOMAIN Tail(close_queue[k]) : Tail(close_queue[k])[i] # st
  BY <1>2 DEF handle_reset_call, Range
<1>7. \A l \in Stacks : \A i \in DOMAIN close_queue'[l] : close_queue'[l][i] # st
  <2>1. close_queue'[k] = Tail(close_queue[k])
        /\ \A l \in Stacks \ {k} : close_queue'[l] = close_queue[l]
    BY <1>1 DEF Good, Types
  <2>2. \A l \in Stacks \ {k} : \A i \in DOMAIN close_queue[l] : close_queue[l][i] # st
    BY <1>4, SMTT(30) DEF Good, Clean, Closing
  <2> QED BY <1>6, <2>1, <2>2
<1>8. str[st].live /\ Destroyed(st) /\ UNCHANGED <<acceptq, connect_queue, held>>
  BY <1>2 DEF handle_reset_call
<1>9. st \in Streams
  BY <1>2
<1> HIDE DEF st
<1>10. Ends(st)
  BY <1>3, <1>5, <1>7, <1>8 DEF Ends
<1> QED BY <1>9, <1>10, EndsClean

LEMMA CleanStep ==
    ASSUME Good, Next, ~ misused'
    PROVE  Clean'
BY SocketClean, BindClean, ListenClean, ConnectClean, AcceptClean, CloseClean,
   CloseCallClean, ConnectCallClean, PassiveOpenClean, EstablishedClean,
   PeerClosesClean, DestroyClean, ResetCallClean
   DEF Next, handle_app_call

-----------------------------------------------------------------------------
LEMMA InitFree ==
    ASSUME Init
    PROVE  FreeLists
<1> DEFINE S == SocketsPerStack
<1>1. S \in Nat \ {0} /\ NumStacks \in Nat \ {0}
  BY SocketsAssumption
<1>2. \A k \in Stacks : DOMAIN free[k] = 1 .. S /\ \A i \in 1 .. S : free[k][i] = k * S + i - 1
  BY DEF Init
<1> HIDE DEF S
<1>3. ASSUME NEW k \in Nat, NEW l \in Nat, NEW i \in 1 .. S, NEW j \in 1 .. S,
             k * S + i - 1 = l * S + j - 1
      PROVE  k = l /\ i = j
  <2>1. CASE k < l
    <3>1. (k + 1) * S <= l * S
      BY <1>1, <2>1, SMTT(30)
    <3> QED BY <1>1, <1>3, <3>1, SMTT(30)
  <2>2. CASE l < k
    <3>1. (l + 1) * S <= k * S
      BY <1>1, <2>2, SMTT(30)
    <3> QED BY <1>1, <1>3, <3>1, SMTT(30)
  <2>3. CASE k = l
    BY <1>1, <1>3, <2>3, SMTT(30)
  <2> QED BY <2>1, <2>2, <2>3, SMTT(30)
<1>4. \A k, l \in Stacks : \A i \in DOMAIN free[k], j \in DOMAIN free[l] :
         free[k][i] = free[l][j] => k = l /\ i = j
  <2> SUFFICES ASSUME NEW k \in Stacks, NEW l \in Stacks,
                      NEW i \in DOMAIN free[k], NEW j \in DOMAIN free[l],
                      free[k][i] = free[l][j]
               PROVE  k = l /\ i = j
    OBVIOUS
  <2>3. i \in 1 .. S /\ j \in 1 .. S
    BY <1>2
  <2>1. k \in Nat /\ l \in Nat
    BY <1>1, SMTT(30) DEF Stacks
  <2>2. k * S + i - 1 = l * S + j - 1
    BY <1>2, <2>3
  <2> QED BY <1>3, <2>1, <2>2, <2>3
<1>5. \A s \in Socks : \E k \in Stacks : \E i \in DOMAIN free[k] : free[k][i] = s
  <2> SUFFICES ASSUME NEW s \in Socks
               PROVE  \E k \in Stacks : \E i \in DOMAIN free[k] : free[k][i] = s
    OBVIOUS
  <2> DEFINE k == s \div S
             i == (s % S) + 1
  <2>1. s \in Nat /\ s < NumStacks * S
    BY <1>1, SMTT(30) DEF Socks, S
  <2>2. k \in Nat /\ i \in 1 .. S /\ s = k * S + (s % S)
    BY <1>1, <2>1, SMTT(30)
  <2>3. k < NumStacks
    BY <1>1, <2>1, <2>2, SMTT(30)
  <2>4. k \in Stacks
    BY <1>1, <2>2, <2>3, SMTT(30) DEF Stacks
  <2>5. k * S + i - 1 = s
    BY <1>1, <2>1, <2>2, SMTT(30)
  <2> HIDE DEF k, i
  <2>6. i \in DOMAIN free[k] /\ free[k][i] = s
    BY <1>2, <2>2, <2>4, <2>5
  <2> QED BY <2>4, <2>6
<1>6. \A s \in Socks : sock[s].type = "UNUSED"
  BY DEF Init, FreshSocket
<1>7. \A k \in Stacks : \A i \in DOMAIN free[k] : free[k][i] \in Socks
  <2> SUFFICES ASSUME NEW k \in Stacks, NEW i \in 1 .. S
               PROVE  k * S + i - 1 \in Socks
    BY <1>2
  <2>1. (k + 1) * S <= NumStacks * S /\ k \in Nat
    BY <1>1, SMTT(30) DEF Stacks
  <2> QED BY <1>1, <2>1, SMTT(30) DEF Socks, S
<1> QED BY <1>4, <1>5, <1>6, <1>7 DEF FreeLists

LEMMA InitInv ==
    ASSUME Init
    PROVE  IInv
<1> USE Basics
<1>1. FreeLists
  BY InitFree
<1>2. Pointers
  <2>1. acceptq = <<>> /\ DOMAIN acceptq = {}
    BY SMTT(30) DEF Init
  <2> QED BY <2>1 DEF Init, Pointers, FreshSocket, FreeBlock
<1>3. free \in [Stacks -> Seq(Socks)]
  <2> SUFFICES ASSUME NEW k \in Stacks
               PROVE  free[k] \in Seq(Socks)
    BY DEF Init
  <2> DEFINE S == SocketsPerStack
  <2>1. S \in Nat \ {0} /\ NumStacks \in Nat \ {0}
    BY SocketsAssumption
  <2>2. free[k] = [i \in 1 .. S |-> k * S + i - 1]
    BY DEF Init
  <2>3. ASSUME NEW i \in 1 .. S
        PROVE  k * S + i - 1 \in Socks
    <3>1. (k + 1) * S <= NumStacks * S /\ k \in Nat
      BY <2>1, SMTT(30) DEF Stacks
    <3> QED BY <2>1, <3>1, SMTT(30) DEF Socks
  <2> QED BY <2>1, <2>2, <2>3, SMTT(30)
<1>4. Types
  <2>1. sock \in [Socks -> SocketType] /\ str \in [Streams -> BlockType]
    BY DEF Init, SocketType, BlockType, FreshSocket, FreeBlock, States
  <2>2. ht \in [Stacks -> [Conns -> Streams \cup {None}]]
    BY DEF Init, Conns
  <2>3. /\ connect_queue \in [Stacks -> Seq(Socks)]
        /\ close_queue \in [Stacks -> Seq(Streams)]
        /\ acceptq \in Seq(Streams)
    BY SMTT(30) DEF Init
  <2>4. held \subseteq Socks /\ stale \subseteq Socks /\ misused \in BOOLEAN
    BY DEF Init
  <2> QED BY <1>3, <2>1, <2>2, <2>3, <2>4 DEF Types
<1>5. Clean
  BY SMTT(30) DEF Init, FreshSocket, FreeBlock, Clean, Linked, Owned, Connecting, Closing, Unaccepted,
         NotYetQueued, Given, Reachable
<1> QED BY <1>1, <1>2, <1>4, <1>5 DEF IInv

LEMMA StepInv ==
    ASSUME IInv, [Next]_vars
    PROVE  IInv'
<1>1. CASE Next
  <2>1. Types' /\ Pointers' /\ FreeLists'
    BY <1>1, TypesStep, PointersStep, FreeListsStep DEF IInv
  <2>2. misused => misused'
    BY <1>1 DEF Next, q_socket, q_bind, q_listen, q_connect, q_accept, q_close, handle_app_call,
                handle_close_call, handle_reset_call, handle_connect_call, handle_passive_open,
                Established, PeerCloses, tcp_stream_destroy
  <2>3. ~ misused' => Clean'
    BY <1>1, <2>2, CleanStep DEF IInv, Good
  <2> QED BY <2>1, <2>3 DEF IInv
<1>2. CASE UNCHANGED vars
  <2>1. /\ sock' = sock /\ str' = str /\ free' = free /\ ht' = ht /\ acceptq' = acceptq
        /\ connect_queue' = connect_queue /\ close_queue' = close_queue /\ up' = up
        /\ held' = held /\ stale' = stale /\ misused' = misused
    BY <1>2 DEF vars
  <2>2. Types' /\ Pointers' /\ FreeLists'
    <3>1. Types'
      BY <2>1 DEF IInv, Types
    <3>2. Pointers'
      BY <2>1 DEF IInv, Pointers
    <3>3. FreeLists
      BY DEF IInv
    <3>4. FreeLists'
      BY <2>1, <3>3, SMTT(30) DEF FreeLists
    <3> QED BY <3>1, <3>2, <3>4
  <2>3. Clean => Given' /\ Reachable'
    BY <2>1 DEF Clean, Given, Reachable
  <2> QED BY <2>1, <2>2, <2>3, LinksSame, ConnectingKept, WaitingSame DEF IInv, Clean
<1> QED BY <1>1, <1>2

LEMMA InvImplies ==
    ASSUME IInv
    PROVE  SocketsExact /\ LinksExact /\ AcceptIsNew
<1>1. LinksExact
  BY DEF IInv, Clean, Linked, LinksExact
<1>2. AcceptIsNew
  BY DEF IInv, Clean, Unaccepted, AcceptIsNew
<1>3. /\ \A k \in Stacks : IsInjective(free[k])
      /\ \A k, l \in Stacks : k # l => Range(free[k]) \cap Range(free[l]) = {}
  BY SMTT(30) DEF IInv, FreeLists, IsInjective, Range
<1>4. UNION {Range(free[k]) : k \in Stacks} = {s \in Socks : sock[s].type = "UNUSED"}
  BY Elements, SMTT(30) DEF IInv, FreeLists, Range
<1>5. ~ misused => \A s \in Socks : sock[s].type = "STREAM" /\ up = "yes" =>
          \/ \E st \in Streams : str[st].live /\ str[st].socket = s
          \/ \E k \in Stacks : s \in Range(connect_queue[k])
          \/ s \in held
  BY DEF IInv, Clean, Reachable, Range
<1> QED BY <1>1, <1>2, <1>3, <1>4, <1>5 DEF SocketsExact

LEMMA Always == Spec => []IInv
<1>1. IInv /\ [Next]_vars => IInv'
  BY StepInv
<1> QED BY <1>1, InitInv, PTL DEF Spec

(* The free lists hold every unused socket once, and no socket is lost as  *)
(* long as nothing was misused: see SocketsExact.                          *)
THEOREM SocketsAreExact == Spec => []SocketsExact
<1>1. IInv => SocketsExact
  BY InvImplies
<1> QED BY <1>1, Always, PTL

(* A live stream, its socket and its hash entry point at each other as     *)
(* long as nothing was misused: see LinksExact.                            *)
THEOREM LinksAreExact == Spec => []LinksExact
<1>1. IInv => LinksExact
  BY InvImplies
<1> QED BY <1>1, Always, PTL

(* What waits to be accepted is alive, was not closed, and its socket is   *)
(* nobody's yet, as long as nothing was misused: see AcceptIsNew.          *)
THEOREM AcceptedIsNew == Spec => []AcceptIsNew
<1>1. IInv => AcceptIsNew
  BY InvImplies
<1> QED BY <1>1, Always, PTL
=============================================================================
