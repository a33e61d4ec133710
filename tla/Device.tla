------------------------------- MODULE Device -------------------------------
(***************************************************************************)
(* The packet buffers (mbufs) of one stack core and of the cores that run   *)
(* applications, and the driver code that moves them: dpdk_module.c, the    *)
(* io_ functions of io_module.c over it, the receive and send checks of the *)
(* main loop in core.c and the ARP reply, the one packet answered below TCP.*)
(*                                                                          *)
(* Core 0 runs the stack, and an application beside it as a coroutine; the  *)
(* other cores run applications only.  Three kinds of mbuf, by the pool     *)
(* they come from: Rx (filled by the device), Sw (written by the stack) and *)
(* Uw[c] (written by the application of core c).  The device frees what it  *)
(* has sent when it needs the descriptor again, at any later moment.        *)
(* The n-to-1 queues are atomic here: N21Queue shows them to be queues.     *)
(***************************************************************************)
EXTENDS Integers, Sequences, FiniteSets, Functions

CONSTANTS Cores,                \* the cores; 0 is the stack's
          Rx, Sw,               \* the mbufs of rx_pktmbuf_pool and tx_pktmbuf_pool
          Uw,                   \* [Cores -> set of mbufs]: pktmbuf_alloc_pool
          MAX_RECV_BATCH, MAX_PKT_TX_BURST, MAX_TX_CHECK_BATCH,
          FreeSize,             \* entries of one producer of nofree_queue, rxfree_queue
          Descriptors,          \* transmit descriptors of the device
          MaxRefs,              \* bound: times one mbuf is queued or in the device
          None,                 \* no mbuf
          MaxStall              \* bound: send checks in a row that send nothing

UwAll == UNION {Uw[c] : c \in Cores}
Mbufs == Rx \cup Sw \cup UwAll

ASSUME DeviceAssumption ==
    /\ 0 \in Cores /\ IsFiniteSet(Mbufs) /\ None \notin Mbufs
    /\ Rx \cap Sw = {} /\ (Rx \cup Sw) \cap UwAll = {}
    /\ \A c, d \in Cores : c # d => Uw[c] \cap Uw[d] = {}
    /\ {MAX_RECV_BATCH, MAX_PKT_TX_BURST, MAX_TX_CHECK_BATCH} \subseteq Nat \ {0}
    /\ Descriptors \in Nat

VARIABLES
    pool,       \* [Mbufs -> Nat]: how often the mbuf lies in its own pool
    refcnt,     \* [UwAll -> 0..2^16-1]: rte_mbuf.refcnt; it stays 1 for Rx and Sw
    udata64,    \* [UwAll -> {0, 2}]: 2 from allocation to release
    app,        \* [Mbufs -> Nat]: how often applications hold the mbuf
    snd,        \* [Mbufs -> Nat]: how often the stack's send buffers hold it
    nicrx,      \* received by the device, by the level the filter gives them
    rh, rl,     \* rh_mbufs, rl_mbufs
    th,         \* th_mbufs
    txburst,    \* the first tx_num entries of pkts_txburst
    nic,        \* mbufs in transmit descriptors, oldest first
    nofree,     \* [Cores -> [Cores -> Seq]]: nofree_queue of a core, by producer
    rxfree,     \* [Cores -> Seq]: rxfree_queue of the stack core, by producer
    pc,         \* where the stack thread is
    left,       \* packets still to receive in this round of the main loop
    loop_time,  \* bursts of this send check
    sent,       \* mbufs taken by the device in this send check
    stalled,    \* send checks in which it took none since tx_num < MAX_PKT_TX_BURST
    relm,       \* the mbuf the stack is releasing
    halted      \* why TRACE_EXIT was reached, or "no"

mem == <<pool, refcnt, udata64>>
rxv == <<nicrx, rh, rl, rxfree, left>>
txv == <<th, txburst, nic, loop_time, sent, stalled>>
vars == <<pool, refcnt, udata64, app, snd, nicrx, rh, rl, th, txburst, nic,
          nofree, rxfree, pc, left, loop_time, sent, stalled, relm, halted>>

Init ==
    /\ pool = [m \in Mbufs |-> 1]
    /\ refcnt = [m \in UwAll |-> 1]
    /\ udata64 = [m \in UwAll |-> 0]
    /\ app = [m \in Mbufs |-> 0] /\ snd = [m \in Mbufs |-> 0]
    /\ nicrx = [level \in {0, 1} |-> <<>>] /\ rh = <<>> /\ rl = <<>>
    /\ th = <<>> /\ txburst = <<>> /\ nic = <<>>
    /\ nofree = [c \in Cores |-> [p \in Cores |-> <<>>]]
    /\ rxfree = [p \in Cores |-> <<>>]
    /\ pc = "loop" /\ left = 0 /\ loop_time = 0 /\ sent = 0 /\ stalled = 0
    /\ relm = None /\ halted = "no"

-----------------------------------------------------------------------------
(* Operators of the DPDK library, modelled from how the driver uses them.    *)

Occurs(s, m) == Cardinality({i \in DOMAIN s : s[i] = m})
Refs(m) == Occurs(th, m) + Occurs(txburst, m) + Occurs(nic, m)
Plus(f, m, k) == [f EXCEPT ![m] = @ + k]

(* rte_pktmbuf_free: the mbuf goes back to its pool if its reference count   *)
(* is 1; otherwise the 16-bit count drops.                                   *)
rte_pktmbuf_free(m) ==
    IF m \in UwAll /\ refcnt[m] # 1
    THEN refcnt' = [refcnt EXCEPT ![m] = (@ + 2 ^ 16 - 1) % 2 ^ 16] /\ UNCHANGED pool
    ELSE pool' = Plus(pool, m, 1) /\ UNCHANGED refcnt

(* The device received a packet into an mbuf of its pool; the application's  *)
(* filter will give it this level.                                           *)
Arrive(m, level) ==
    /\ halted = "no" /\ pool[m] > 0
    /\ pool' = Plus(pool, m, -1)
    /\ nicrx' = [nicrx EXCEPT ![level] = Append(@, m)]
    /\ UNCHANGED <<refcnt, udata64, app, snd, rh, rl, rxfree, left, txv, nofree, pc, relm, halted>>

(* In rte_eth_tx_burst the driver takes back its oldest descriptor and frees *)
(* the mbuf in it.                                                           *)
Reap ==
    /\ halted = "no" /\ pc \in {"burst", "last"} /\ nic # <<>>
    /\ rte_pktmbuf_free(Head(nic))
    /\ nic' = Tail(nic)
    /\ UNCHANGED <<udata64, app, snd, rxv, th, txburst, loop_time, sent, stalled,
                   nofree, pc, relm, halted>>

-----------------------------------------------------------------------------
(* Allocation and release *)

(* dpdk_tx_send at level 1, which io_send_mbuf gives to every packet: an     *)
(* application's mbuf gets the count 2, so that it outlives the device's     *)
(* free.                                                                     *)
dpdk_tx_send(m, counts) ==
    /\ th' = Append(th, m)
    /\ refcnt' = IF m \in UwAll THEN [counts EXCEPT ![m] = 2] ELSE counts

(* dpdk_alloc_mbuf(core, 0): an mbuf for a packet of the stack's own.  None  *)
(* of another core comes back through free_queue: only the device frees      *)
(* these.                                                                    *)
io_get_swmbuf(m) == pool[m] > 0 /\ pool' = Plus(pool, m, -1)

(* The stack writes a packet of its own and queues it. *)
SwSend(m) == io_get_swmbuf(m) /\ dpdk_tx_send(m, refcnt)

(* One pass of the loop of dpdk_alloc_mbuf(core, 1): an mbuf from            *)
(* nofree_queue, else from the pool; one that is still marked in use is      *)
(* dropped and the loop goes on.                                             *)
\* Slip for OneUser: the mark is not looked at.
AllocTrustsPool(m) == TRUE
AllocKeeps(m) == udata64[m] # 2

Granted(m, c) ==
    /\ udata64' = IF AllocKeeps(m) THEN [udata64 EXCEPT ![m] = 2] ELSE udata64
    /\ refcnt' = IF AllocKeeps(m) THEN [refcnt EXCEPT ![m] = 2] ELSE refcnt
    /\ app' = IF AllocKeeps(m) THEN Plus(app, m, 1) ELSE app

AllocUwQueue(c, p) ==
    /\ nofree[c][p] # <<>>
    /\ nofree' = [nofree EXCEPT ![c][p] = Tail(@)]
    /\ Granted(Head(nofree[c][p]), c)
    /\ UNCHANGED pool

AllocUwPool(c, m) ==
    /\ \A p \in Cores : nofree[c][p] = <<>>
    /\ pool[m] > 0
    /\ pool' = Plus(pool, m, -1)
    /\ Granted(m, c)
    /\ UNCHANGED nofree

(* The thread of core c may run: the application of the stack's core only    *)
(* while the stack thread is between two of its calls.                       *)
Runs(c) == halted = "no" /\ (c = 0 => pc = "loop")

io_get_uwmbuf(c) ==
    /\ Runs(c)
    /\ \/ \E p \in Cores : AllocUwQueue(c, p)
       \/ \E m \in Uw[c] : AllocUwPool(c, m)
    /\ UNCHANGED <<snd, rxv, txv, pc, relm, halted>>

(* dpdk_release_pkt by the core the mbuf belongs to.                         *)
ReleaseOwn(m) ==
    /\ udata64' = [udata64 EXCEPT ![m] = 0]
    /\ refcnt' = [refcnt EXCEPT ![m] = 1]
    /\ pool' = Plus(pool, m, 1)

(* An application frees an mbuf it wrote and did not send.                   *)
AppFreesUw(c, m) ==
    /\ Runs(c) /\ app[m] > 0
    /\ ReleaseOwn(m)
    /\ app' = Plus(app, m, -1)
    /\ UNCHANGED <<snd, rxv, txv, nofree, pc, relm, halted>>

(* An application frees a packet it read: any core, through rxfree_queue;    *)
(* it waits while its part of the queue is full.                             *)
AppFreesRx(c, m) ==
    /\ Runs(c) /\ app[m] > 0 /\ Len(rxfree[c]) < FreeSize
    /\ rxfree' = [rxfree EXCEPT ![c] = Append(@, m)]
    /\ app' = Plus(app, m, -1)
    /\ UNCHANGED <<mem, snd, nicrx, rh, rl, left, txv, nofree, pc, relm, halted>>

(* The application passes an mbuf to a stream's send buffer.                 *)
AppSends(c, m) ==
    /\ Runs(c) /\ app[m] > 0
    /\ app' = Plus(app, m, -1) /\ snd' = Plus(snd, m, 1)
    /\ UNCHANGED <<mem, rxv, txv, nofree, pc, relm, halted>>

(* The stack releases an mbuf whose bytes are acknowledged or whose stream   *)
(* ended.  One of its own core is done at once; for one of another core the  *)
(* mark is cleared first, and count and queue follow while that core runs.   *)
StackReleases(m) ==
    /\ halted = "no" /\ pc = "loop" /\ snd[m] > 0
    /\ snd' = Plus(snd, m, -1)
    /\ IF m \in Uw[0]
       THEN ReleaseOwn(m) /\ UNCHANGED <<pc, relm>>
       ELSE /\ udata64' = [udata64 EXCEPT ![m] = 0]
            /\ pc' = "release" /\ relm' = m
            /\ UNCHANGED <<pool, refcnt>>
    /\ UNCHANGED <<app, rxv, txv, nofree, halted>>

Owner(m) == CHOOSE c \in Cores : m \in Uw[c]

ReleaseEnqueue ==
    /\ halted = "no" /\ pc = "release"
    /\ refcnt' = [refcnt EXCEPT ![relm] = 0]
    /\ LET c == Owner(relm)
           room == Len(nofree[c][0]) < FreeSize
       IN /\ nofree' = IF room THEN [nofree EXCEPT ![c][0] = Append(@, relm)] ELSE nofree
          /\ halted' = IF room THEN "no" ELSE "nofree_queue_full"
    /\ pc' = "loop" /\ relm' = None
    /\ UNCHANGED <<pool, udata64, app, snd, rxv, txv>>

-----------------------------------------------------------------------------
(* Receiving *)

(* dpdk_check_rx_ring: free what the cores gave back, then take all that the *)
(* device has, by level.  A ring holds more than the pool can fill.          *)
OfLevel(level) == nicrx[level]

GivenBack(m) == UNION {{p} \X {i \in DOMAIN rxfree[p] : rxfree[p][i] = m} : p \in Cores}

dpdk_check_rx_ring ==
    /\ pool' = [m \in Mbufs |-> pool[m] + Cardinality(GivenBack(m))]
    /\ rxfree' = [p \in Cores |-> <<>>]
    /\ rl' = rl \o OfLevel(0)
    /\ rh' = rh \o OfLevel(1)
    /\ nicrx' = [level \in {0, 1} |-> <<>>]

(* The main loop: io_recv_check, and how many packets this round receives.   *)
io_recv_check ==
    /\ halted = "no" /\ pc = "loop"
    /\ dpdk_check_rx_ring
    /\ LET count == Len(rh') + Len(rl')
       IN left' = IF count < MAX_RECV_BATCH THEN count ELSE MAX_RECV_BATCH
    /\ pc' = IF left' > 0 THEN "recv" ELSE "loop"
    /\ UNCHANGED <<refcnt, udata64, app, snd, txv, nofree, relm, halted>>

(* dpdk_rx_receive_one(1): the high queue first; both empty ends the process.*)
\* Slip for BurstsExact: the high queue is counted but not read.
ReceiveLowOnly ==
    IF rl # <<>> THEN [got |-> Head(rl), rh |-> rh, rl |-> Tail(rl)]
    ELSE [got |-> None, rh |-> rh, rl |-> rl]

dpdk_rx_receive_one ==
    IF rh # <<>> THEN [got |-> Head(rh), rh |-> Tail(rh), rl |-> rl]
    ELSE IF rl # <<>> THEN [got |-> Head(rl), rh |-> rh, rl |-> Tail(rl)]
    ELSE [got |-> None, rh |-> rh, rl |-> rl]

NextReceive ==
    /\ left' = left - 1
    /\ pc' = IF left = 1 THEN "loop" ELSE "recv"

(* The reply needs an mbuf of the stack's pool; without one there is none.   *)
arp_output ==
    IF \E m \in Sw : pool[m] > 0
    THEN \E m \in Sw : SwSend(m)
    ELSE UNCHANGED <<pool, refcnt, th>>

process_arp_request == arp_output

(* Only a request for an address of this host is answered.  The table it     *)
(* fills is not read by anything else: see get_dst_hwaddr.                   *)
process_arp_packet(answer) ==
    IF answer THEN process_arp_request ELSE UNCHANGED <<pool, refcnt, th>>

(* process_eth_packet on the packet received, and the free of the main loop  *)
(* if nothing kept it.                                                       *)
RecvDropped(answer) ==
    LET r == dpdk_rx_receive_one
    IN  /\ halted = "no" /\ pc = "recv" /\ r.got # None
        /\ rh' = r.rh /\ rl' = r.rl
        /\ process_arp_packet(answer)
        /\ Len(rxfree[0]) < FreeSize
        /\ rxfree' = [rxfree EXCEPT ![0] = Append(@, r.got)]
        /\ NextReceive
        /\ UNCHANGED <<udata64, app, snd, nicrx, txburst, nic, loop_time, sent,
                       stalled, nofree, relm, halted>>

(* A TCP segment with data goes to a receive buffer, for an application.     *)
\* Slip for MbufsAccounted: the packet kept stays marked as just received.
RecvKeptAndFreed ==
    LET r == dpdk_rx_receive_one
    IN  /\ halted = "no" /\ pc = "recv" /\ r.got # None
        /\ rh' = r.rh /\ rl' = r.rl
        /\ app' = Plus(app, r.got, 1)
        /\ rxfree' = [rxfree EXCEPT ![0] = Append(@, r.got)]
        /\ NextReceive
        /\ UNCHANGED <<mem, snd, nicrx, txv, nofree, relm, halted>>

RecvKept ==
    LET r == dpdk_rx_receive_one
    IN  /\ halted = "no" /\ pc = "recv"
        /\ halted' = IF r.got = None THEN "no_packet" ELSE "no"
        /\ rh' = r.rh /\ rl' = r.rl
        /\ app' = IF r.got = None THEN app ELSE Plus(app, r.got, 1)
        /\ NextReceive
        /\ UNCHANGED <<mem, snd, nicrx, rxfree, txv, nofree, relm>>

-----------------------------------------------------------------------------
(* Sending *)

(* The stack sends a segment, for the first time or again.                   *)
SendData(m) ==
    /\ halted = "no" /\ pc = "loop" /\ snd[m] > 0 /\ Refs(m) < MaxRefs
    /\ dpdk_tx_send(m, refcnt)
    /\ UNCHANGED <<pool, udata64, app, snd, rxv, txburst, nic, loop_time, sent,
                   stalled, nofree, pc, relm, halted>>

(* io_send_check: dpdk_check_tx_ring starts.                                 *)
io_send_check ==
    /\ halted = "no" /\ pc = "loop" /\ th \o txburst # <<>>
    /\ pc' = "high" /\ loop_time' = 0 /\ sent' = 0
    /\ UNCHANGED <<mem, app, snd, rxv, th, txburst, nic, stalled, nofree, relm, halted>>

(* One mbuf moves from th_mbufs to the burst; a full burst is sent.          *)
BurstIsFull(n) == n >= MAX_PKT_TX_BURST

TxMove ==
    /\ halted = "no" /\ pc = "high" /\ th # <<>>
    /\ txburst' = Append(txburst, Head(th)) /\ th' = Tail(th)
    /\ pc' = IF BurstIsFull(Len(txburst')) THEN "burst" ELSE "high"
    /\ UNCHANGED <<mem, app, snd, rxv, nic, loop_time, sent, stalled, nofree, relm, halted>>

TxMoved ==
    /\ halted = "no" /\ pc = "high" /\ th = <<>>
    /\ pc' = "last"
    /\ UNCHANGED <<mem, app, snd, rxv, txv, nofree, relm, halted>>

(* rte_eth_tx_burst: the device takes the first k, as many as it has         *)
(* descriptors for or fewer; the rest moves to the front.                    *)
Takes(k) ==
    /\ k <= Len(txburst) /\ Len(nic) + k <= Descriptors
    /\ nic' = nic \o SubSeq(txburst, 1, k)
    /\ txburst' = SubSeq(txburst, k + 1, Len(txburst))
    /\ sent' = sent + k

Returns ==
    /\ pc' = "loop"
    /\ stalled' = IF ~ BurstIsFull(Len(txburst')) THEN 0
                  ELSE IF sent' = 0 THEN stalled + 1 ELSE stalled
    /\ stalled' <= MaxStall

(* After MAX_TX_CHECK_BATCH bursts the check returns, else it tries again    *)
(* until the burst is empty.                                                 *)
CheckEnds(n) == n >= MAX_TX_CHECK_BATCH

TxBurst(k) ==
    /\ halted = "no" /\ pc = "burst"
    /\ Takes(k)
    /\ loop_time' = loop_time + 1
    /\ IF CheckEnds(loop_time') THEN Returns
       ELSE pc' = (IF txburst' = <<>> THEN "high" ELSE "burst") /\ UNCHANGED stalled
    /\ UNCHANGED <<mem, app, snd, rxv, th, nofree, relm, halted>>

(* The last burst, with what is left after both queues.                      *)
TxLast(k) ==
    /\ halted = "no" /\ pc = "last"
    /\ Takes(k) /\ Returns
    /\ UNCHANGED <<mem, app, snd, rxv, th, loop_time, nofree, relm, halted>>

-----------------------------------------------------------------------------
Receive ==
    \/ \E m \in Rx, level \in {0, 1} : Arrive(m, level)
    \/ io_recv_check
    \/ \E answer \in BOOLEAN : RecvDropped(answer)
    \/ RecvKept

Send ==
    \/ \E m \in UwAll : SendData(m)
    \/ io_send_check
    \/ TxMove
    \/ TxMoved
    \/ \E k \in 0 .. Descriptors : TxBurst(k)
    \/ \E k \in 0 .. Descriptors : TxLast(k)
    \/ Reap

Hold ==
    \/ \E c \in Cores :
          \/ io_get_uwmbuf(c)
          \/ \E m \in Uw[c] : AppFreesUw(c, m) \/ AppSends(c, m)
          \/ \E m \in Rx : AppFreesRx(c, m)
    \/ \E m \in UwAll : StackReleases(m)
    \/ ReleaseEnqueue

Next == Receive \/ Send \/ Hold

Spec == Init /\ [][Next]_vars

-----------------------------------------------------------------------------
(* Properties *)

InQueues(m) ==
    \E c \in Cores : m \in Range(rxfree[c]) \/ \E p \in Cores : m \in Range(nofree[c][p])
InRings(m) == Occurs(rh, m) + Occurs(rl, m) + Occurs(nicrx[0], m) + Occurs(nicrx[1], m)

(* An application's mbuf has one user at a time, whatever the device frees   *)
(* late: the mark udata64 keeps dpdk_alloc_mbuf from handing out an mbuf     *)
(* that an application or a send buffer still holds.                         *)
OneUser == \A m \in UwAll : app[m] + snd[m] <= 1

(* No mbuf is lost: in every state somebody holds it, the device or a queue  *)
(* has it, or it can be allocated; also one that dpdk_alloc_mbuf dropped. A  *)
(* packet received and a packet of the stack are in one place at a time:     *)
(* neither is freed twice or freed while it waits.                           *)
MbufsAccounted ==
    /\ halted = "no" => \A m \in Mbufs :
          pool[m] + app[m] + snd[m] > 0 \/ Refs(m) > 0 \/ InQueues(m) \/ InRings(m) > 0 \/ relm = m
    /\ \A m \in Rx \cup Sw :
          pool[m] + app[m] + Refs(m) + InRings(m) + Cardinality(GivenBack(m)) = 1

(* What dpdk_check_rx_ring has counted can be received: dpdk_rx_receive_one  *)
(* never finds both rings empty and ends the process.  The packets waiting   *)
(* in pkts_txburst exceed one burst by at most one, and one more for each    *)
(* send check in which the device took nothing: its 256 entries suffice      *)
(* until the device has refused everything for 192 checks.                   *)
BurstsExact ==
    /\ halted # "no_packet"
    /\ Len(txburst) <= MAX_PKT_TX_BURST + stalled + 1
=============================================================================
