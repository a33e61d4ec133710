# A TLA+ model of qstack

qstack is a user-space TCP stack on DPDK. *Stack threads* poll the network
device and run the protocol; *application threads* call the API of
`src/qstack/src/api.c`. The two sides share, without locks, the queues, the
receive buffer, the send buffer and the control block of every stream. This
directory models these parts in TLA+, checks small instances with TLC, and
proves the central properties of the queues, of the memory pool, of the mbufs, of
the sockets, of the stream block and of the runtime with TLAPS for every value of
the constants.

The build that is modelled is the one the repository's headers configure:
`TCP_SIMPLE_RTO`, `N21Q_DEQUEUE_STRONG`, `SIMPLE_HEADTAIL`, no prefetching,
`COROUTINE_SCHEDULING`, `USE_MESSAGE` 0, `SUCCESS` = 1, `FAILED` = -2, `ERROR` =
-1. Threads run on cores of their own, or as coroutines of one core; where it
matters the initial state chooses (`mode` in `RecvBuff` and `SendBuff`, `home` in
`Events`, `conf` in `Runtime`).

Contents: [the system](#the-system) · [modules](#modules) ·
[the models and the code](#the-models-and-the-code) · [runs](#runs) ·
[bounds](#bounds) · [fairness](#fairness) · [proofs](#proofs) ·
[finding](#finding) · [other observations](#other-observations) ·
[not modelled](#not-modelled)

## The system

| Part | State | Operations | Written by | What is hard |
|---|---|---|---|---|
| circular queue (`circular_queue.h`) | slots, `head`, `tail` | add, get, prefetch | one producer, one consumer | no lock: only the order of test, slot access and index update |
| N-to-1 queue (`n21_queue.h`) | one ring per producer, `queue_point` | enqueue, strong and local dequeue | N producers, one consumer | honest NULL while producers add behind the walk; fairness |
| memory pool (`tools/mempool`) | private ring, public ring, two lists per core | allocate, free | every core | batches, counters kept by hand |
| device (`dpdk_module.c`, `io_module.c`) | receive and transmit rings, burst array, reference counts, `udata64` | receive, send, allocate, release | stack, applications, the device | the device drops its references late |
| receive buffer (`tcp_recv_buff.c`) | `merged_q`, `high_q`, `ooo_list`, `head_seq`, `merged_next` | `rb_put`, `rb_get`, merge, clear | stack and application | reordering, two priorities over the same mbufs, who frees what, the window |
| send buffer (`tcp_send_buff.c`, `tcp_out.c`) | `usnd_q`, `husnd_q`, `uack_list`, `retrans_list`, `snd_nxt`, `snd_una`, `snd_wnd` | put, flush, remove acked, retransmit, free | stack and application | numbers are given when a message is sent; loss, duplicates, late acks |
| connection (`tcp_in.c`, `tcp_stream.c`, `core.c`, `api.c`) | state, flags, FIN and ack numbers, timers | state handlers, RST, connect, accept, close, destroy | stack, and application for the flags | stale queue entries, reuse of the block, lost FIN and SYN |
| timers (`timer.h`) | rto, timewait and timeout lists | add, remove, check | stack | one link for two lists; late acks against expiry |
| sockets (`socket.c`, `api.c`) | socket table, free list per stack, listeners, flow hash table | socket, bind, listen, accept, connect, close | application and stacks | numbers and blocks are used again, time-outs are silent |
| events (`qepoll.c`, `socket.c`, `tcp_in.c`, `runtime_mgt.c`) | event rings by stack, direction and priority, pending events of a stream, masks, `knocked` | raise, wait, accept, ctl | stack and application | events raised during the registration, lost wake-ups, priorities |
| runtime (`runtime_mgt.c`, `tools/qcoroutine`) | runtime context per core, coroutines, call stacks, saved contexts | create, resume, yield | main thread, stacks, applications | threads that start while events already come in |
| cuckoo hash (`qing_hash.c`) | buckets, key store, free slots | add, delete, lookup | one writer, one reader | entries are moved under a reader |
| IoT server (`apps/iotepserver.c`) | forward buffers, server, workers | forward, query, update | server and workers | rings of cells without locks, a server that waits on the core of its stack |

How they interact: a packet goes from the device to `process_tcp_packet`, which
finds the stream in the flow hash table, runs the state handler, stores payload
in the receive buffer, removes acked data from the send buffer, queues acks and
control packets, and raises events. The application takes events with
`qepoll_wait` or `eventmgt_get`, reads with `q_recv`, and calls `q_send`,
`q_connect` and `q_close`, which enqueue into queues that the stack's main loop
serves in batches. `PROJECT.json` lists every part with its status and every
hazard, at the line where it bites, with the property aimed at it.

## Modules

| Module | Models | Code |
|---|---|---|
| `BoundedFifo` | what a circular queue promises | abstract specification |
| `CircularQueue`, `MCCircularQueue`, `CircularQueueProofs` | the lock-free ring | `circular_queue.h` |
| `N21Queue`, `MCN21Queue`, `N21QueueProofs` | the N-to-1 queue | `n21_queue.h` |
| `ChunkPool`, `MCChunkPool`, `ChunkPoolProofs` | the memory pool | `dpdk_mempool.c`, `dpdk_chunk.c` |
| `Device`, `MCDevice`, `DeviceProofs` | mbufs between device, stack and applications, ARP replies | `dpdk_module.c`, `io_module.c`, `arp.c`, `eth_in.h`, `ip_in.h` |
| `SeqArith` | wrapping sequence numbers | `protocol.h` |
| `MbufList` | lists and queues of mbufs | `mbuf.h`, `mbuf_queue.h` |
| `OooList` | the out-of-order list | `tcp_recv_buff.c` |
| `RecvBuff`, `MCRecvBuff` | the receive buffer, `process_tcp_payload`, `q_recv` | `tcp_recv_buff.c`, `tcp_in.c`, `api.c` |
| `SendBuff`, `MCSendBuff` | the send buffer, flush, acks, retransmission | `tcp_send_buff.c`, `tcp_out.c`, `tcp_in.c`, `timer.h` |
| `Connection`, `MCConnection`, `ConnectionProofs` | the life of a stream block | `tcp_in.c`, `tcp_out.c`, `tcp_stream.c`, `timer.h`, `core.c`, `api.c` |
| `Sockets`, `MCSockets`, `SocketsProofs` | sockets, listeners, streams and their hash table entries, several stacks | `socket.c`, `api.c`, `core.c`, `tcp_stream.c`, `hashtable.c` |
| `Events`, `MCEvents` | the event framework between stack threads and an application | `qepoll.c`, `socket.c`, `tcp_in.c`, `api.c`, `core.c`, the applications' loops |
| `KeyMap` | what a hash table promises | abstract specification |
| `CuckooHash`, `MCCuckooHash` | the cuckoo hash table | `qing_hash.c` |
| `Runtime` | start of threads, coroutines, hand-over of a core | `runtime_mgt.c`, `core.c`, `routine.c`, `context.c`, `coctx_swap.S` |
| `RuntimeProofs`, `IotServerProofs` | theorems about the runtime, alone and below the server | |
| `IotServer`, `MCIotServer` | the IoT server, composed with `Runtime` | `apps/iotepserver.c` |

They stack up: `CircularQueue` has every shared access as a step of its own and
is shown to implement `BoundedFifo`; `N21Queue`, `SendBuff` and `Device` rely on
that and take one ring operation as one step. `Connection`
keeps only the lengths of the send buffer's lists, whose contents `SendBuff`
treats; `Sockets` keeps of a stream only what the calls of the API tell apart,
and has several of them. `IotServer` extends `Runtime`: its threads take steps
only on a core that the runtime gives them. Of the events and of the receive
buffer it keeps what decides which request the server reads: an event ring per
priority, and the order in which `rb_get` hands out what has come in.

## The models and the code

**CircularQueue.** `cirq_add` is three steps (test of `tail`, store, publication
of `head`), `cirq_get` likewise; `cirq_prefetch` reads without advancing. The
`dir_` functions are the same code over embedded slots.

**N21Queue.** One step per visited queue. `waiting` and `passed` are history:
which queues had an item when the call began, and how often a waiting queue was
passed over.

**ChunkPool.** `get_private`, `get_local`, `get_public` and `get_fails` are the
ways `chunk_alloc_notype` can go, `free_public` and `free_private` those of
`chunk_free_notype`. A call touches the shared ring at most once and else only
what belongs to its core, so a call is one step. The order in which the ring
yields chunks is external.

**Device.** Core 0 runs the stack. An mbuf of an application has a reference
count and the mark `udata64`: 2 from allocation to release. `dpdk_tx_send` adds a
reference for the device, which drops it when it needs the descriptor again
(`Reap`), at any later moment and possibly after the mbuf was released and
allocated anew: `pool` therefore counts how often an mbuf lies in its pool. One
turn of the loop of `dpdk_alloc_mbuf`, of the receive loop and of
`dpdk_check_tx_ring` is one step.

**OooList.** The place `ooo_insert` finds, over segments with wrapping numbers.
In front of the head of the list the code calls `mbuf_list_add_head` with its
arguments the wrong way round and overwrites memory; the stack thread stops there
(`spc` = "undefined").

**RecvBuff.** `spc` and `apc` are the program counters of the stack and the
application; each access to a field that both sides use is one step. The slots of
`merged_q` are kept (`d_queue`), because `try_merge_ooo` stores through the wrong
pointer (see the finding). With `mode.same_core` the threads alternate only between
calls; `mode` also gives the offsets and priorities of the segments, the size of
the buffer and the bytes the peer sends. The fields `mbuf_state` and `holding`
decide which queue frees an mbuf. Where the code goes wrong the step is recorded,
and the model goes on: `faults` has the causes (an mbuf found before its state was
stored, a full `high_q`, a high-priority segment out of order, a slot that was not
written) and the effects (an mbuf freed twice, in use or unread, a byte delivered
twice), `lost` the mbufs that were counted as received and are in no queue,
`untold` the mbufs merged without an event. After an effect that spoils the queues
(`Sound` no longer holds) nothing more is said of the buffer. `rb_clear` ends the life of
the stream, after the application has closed it.

**SendBuff.** Messages are numbered when sent. `wire`, `rcvd` and `acks` are the
network: a segment sent stays in `wire` and may arrive any number of times or
never. The windows of the peer and of congestion control are one value chosen at
every flush from `mode.windows`; the application puts messages whether there is
room or not, so that buffer (`mode.size`) and queues (`QueueSize`) fill up. With
`mode.stale_acks` acks arrive in any order. `dropped` are the messages the flush
has popped outside the window, `refused` those that got numbers and found their
queue full. After `MaxRtx` time-outs the stream is destroyed, which calls
`sb_free`.

**Connection.** The record `s` holds the fields of one `tcp_stream` and how often
the control, send event, close and accept queues hold the block. Every C function
that changes them is an operator from block to block with the name of the
function; the actions are the entry points: a packet (`receive`,
`CreateNewFlowHTEntry`), one entry of an output queue (`control_queue_step`,
`send_queue_step`), an expired timer (`rto_list_check`, `timewait_expires` and
`timewait_list_check`, `timeout_list_check`), a queued call (`handle_close_call`,
`handle_connect_call`), and the API calls of the application. `q_close` is three
steps, as `close_stream_socket` reads `closed`, then the state, then enqueues and
sets the flag. Since `tcp_stream_destroy` leaves the block in the queues, the
same block is used by `MaxConns` connections in turn. The queues of a stack serve
all its streams and may be full at any step (`Found`, `Left`): `refused` says that
the control queue or the close queue has turned this stream away. A packet in
TIME_WAIT starts the five seconds anew (`tw_expired`). `up` becomes false where
the process ends (`TRACE_ERR` in `core.c`, or a NULL listener). The peer and the
network (`Packets`) are external: they may send whatever a TCP peer in that
state can send, including RST, and may lose everything. Assumed of the
environment, each at a guard: the application accepts a connection before the
300 s timeout, in SYN_SENT the peer answers with SYN, SYN|ACK or RST, and
left-over send events and close calls of a block are served before `q_connect`
uses it again.

**Events.** A channel is a ring per stack, direction (`sq` from the stack, `qs`
from the application) and priority. Raising an event is one step up to
`check_stream_event_validation`, then one step per access to `pdev_st`, to
`pending_events`, to the mask, to the slot, to `end` and to `knocked`. The
application is the loop of `RunServerThread` with `qepoll_wait` (echo_server) or
`eventmgt_get` (iotepserver), one step per test, read and store; `q_accept` and
`qepoll_ctl` follow the event of the listener. On a shared core (`home` is a
stack) only the side that `on_stack` names takes steps, and the hand-over happens
in `wakeup_application`, `rt_check` and when the application finds no event.
`raised`, `early`, `taken`, `dropped`, `left`, `passed` and `overtaken` are history;
`early` are the events that came before the registration of their socket.
Left out: the time wheel (no application passes a timeout), `qepoll_wait_pri`
and `Q_EPOLL_CTL_MOD` (not called), several applications, and the reuse of event
structures and socket ids.

**Sockets.** Two stacks, each with a free list of sockets and a share of the
stream blocks. The application runs on the core of stack 0; every call of the API
is one step, a call that is queued (`q_connect`, `q_close`) is served by
`handle_connect_call` and `handle_close_call` later; a stream that was reset is
destroyed by the close call (`handle_reset_call`). `held` are the numbers the
application uses, `stale` those whose connection timed out without its knowledge:
it may use them again. `misused` becomes true when a number, an address or a
block is used for two things at once, which the code does not prevent; the
properties about links are stated up to that point, that about the free lists
beyond it. `up` says why the process ended, where the code calls exit or follows
a NULL pointer.

**CuckooHash.** A step is what the other thread can see at once. The writer goes
through `__qing_hash_add_key_with_hash` (slot, match, place, push) and
`__qing_hash_del_key_with_hash`; `make_space_bucket` moves an entry with one step
for the copy and one for the original, the transactional build moves a whole path.
`add_key` is the way of adding the table was created with; the lock of
ADD_KEY_MULTIWRITER makes no difference to one writer. `w.hidden` are the keys
whose entry the second search of an add has put into the secondary bucket with the
signatures for the primary one. The reader walks over the places of the two
buckets; `rd.moved` and `rd.removed` say that the entry of the key it looks for was
pushed or removed meanwhile. `ImplementsMap` maps the table to `KeyMap` for the
writer.

**Runtime.** `flow` is what runs on a pthread, `ctx` what is saved in a
coroutine. `coctx_swap` saves the flow that runs in the context it is told and
goes on with another one; nothing checks that they belong to the coroutines meant,
and `ContextsExact` says that they always do. The main thread starts the stacks,
listens and then creates the applications one after the other, while events for
them may come in already: `early` records that. `routine.c` finds a pthread by its
thread id modulo `ROSTACK_SIZE`; the ids of one process are taken to stay distinct.

**IotServer.** The peer connects, sends queries and updates and may close, at any
time from its SYN on. Each raises an event in the ring of its priority; one that
comes before the server has registered the connection goes to a channel nobody
reads, and one that finds the ring full is dropped (`missed`). The server takes an
event, high priority first, reads whatever `q_recv` returns, and writes it to the
next cell of the buffer that the priority of the event names, of one of its
workers, or spins while the buffers are full. A worker takes a query if there is
one and an update otherwise, reads the payload after it has freed the cell, and
answers a query; for the answer it spins until its pool has an mbuf, which comes
back when the peer acknowledges an answer and the stack frees it. `raced` records
that the server wrote to a buffer its worker had not initialised yet, `other` the
requests in the buffer of the other kind.

## Runs

| Run | Asks | Result |
|---|---|---|
| `ring` | Do producer and consumer ever touch the same slot; is the ring a FIFO queue with exact FAILED and NULL? | holds |
| `n21_queue` | Is NULL honest; is a queue passed at most N - 1 times? | holds |
| `pool` | Is every chunk in one place; do the counters tell the lengths of the lists; does an allocation fail only when public chunks are scarce? | holds |
| `device` | Late frees of the device, two cores: has an mbuf ever two users; is one lost, freed twice or freed while it waits; can every packet counted be received; is the burst array bounded? | holds |
| `recv` | Separate cores or one, both priorities, old segments and segments ahead of gaps, full queues: which steps lose, leak or repeat data, and do others? | only those named below |
| `recv_merge` | Is a merged segment available to the reader? | violated |
| `send` | Separate cores or one, small windows, full buffers, late acks, a lossy network: see below | holds but for dropped messages |
| `connection` | Two connections in one block, with loss, resets, timers and full queues: see below | holds but for refused entries |
| `sockets` | Two stacks, a listener, connects, accepts and closes, silent time-outs: see below | holds |
| `events` | One core or two, both ways of taking events, events before the registration: see below | holds but for full rings and early events |
| `hash` | Is the table a map for its writer; is a slot ever lost; is a lookup beside a writer right except where a push or a removal of its own key meets it? | holds but for hidden keys |
| `iot` | Server and workers on the runtime, from their start on: see below | holds but for missed events, a buffer used too early, and waits for mbufs |

Where the code goes wrong in a run, the property names the steps that make it go
wrong, and the run shows that nothing else does. The exceptions happen in the
runs: with one of them taken out TLC finds the property violated. The one that
`NeverStuck` makes for `Renumbered` needs larger bounds than those of `send`, a
buffer of four bytes and two retransmissions.

`recv` checks that a byte that was acknowledged is read or still in the buffer,
except in an mbuf that found `merged_q` full, that `try_merge_ooo` did not store or
that was taken in place of another (`AckedIsKept`). An mbuf is freed by exactly one
of four places and never while something refers to it, and none leaks, unless a
slot was not written, a high-priority segment came out of order or `high_q` was
full; `rb_clear` frees twice what waits in both queues, and the property speaks of
it only for the rest (`MbufsExact`). Bytes are delivered once, those of low priority
in order, and none is freed unread, unless for one of these reasons or because the
application found the mbuf between its entry into the queue and the store of its
state (`DeliveredExactly`). The out-of-order list is sorted and refuses exactly what
overlaps it (`OooListExact`). An application that reads once per event leaves at
most as many mbufs unread as a closing gap has added beyond the one event
(`NothingStranded`). The buffer is not overrun and, between coroutines, the window
is exact (`WindowExact`; on separate cores `rcv_wnd` may be stale).

`send` checks that a message is in exactly one list until it is freed, or dropped by
a flush that meets it outside the window, and that it is freed only when the peer
has it (`InOneList`); that it keeps its numbers over all retransmissions and that
low priority keeps its order (`SameBytesSameNumbers`); that with acks in order it
never waits without an event or a timer (`NeverStuck`). The drop of a message that
had been sent before ends what these say, since `snd_nxt` stays at its numbers
(`Renumbered`). The room is exact, with what was dropped or refused counted as
used, and so is `snd_wnd` between coroutines (`RoomExact`).

`connection` checks that a stream is never on two timer lists with one link and a
destroyed block on none and CLOSED (`OneTimerList`); that a timer, a queue or the
application comes back to every stream unless a full control or close queue has
refused it, that `on_control_queue` never stays set without an entry, and that the
SYN, the SYN|ACK and the last FIN are queued, timed or refused (`NotForgotten`);
that FIN_WAIT_2 and TIME_WAIT are reached only when all data were sent and acked
(`OrderlyEndIsComplete`); and that a stream in LAST_ACK or TIME_WAIT ends without
the help of the peer, unless the peer restarts the timer of TIME_WAIT for ever or
the control queue has dropped the stream (`ClosedEnds`).

`sockets` checks that the free lists together hold every unused socket once and
that no socket in use is out of reach (`SocketsExact`); that a live stream, its
socket and its hash table entry belong together (`LinksExact`); and that a
connection that waits to be accepted is alive and new to the application
(`AcceptIsNew`).

`events` checks that an event raised while the application accepts and registers
the socket is in the list it will look at, in a ring it reads or in the hands of
a thread, so that it is lost only to a full ring, or if it came before the
registration and was not the only one, or is to be taken with `eventmgt_get`, and
carries the data registered for its socket (`NoEventLost`); that the application never sleeps beside an event
without `knocked` (`NoLostWakeup`); that an event of high priority is passed by at
most one of low priority (`HighFirst`); and that the application catches up with
all other events (`EveryEventTaken`).

`hash` checks that every slot is in use once or free (`SlotsExact`); that for its
writer the table is a map, but for the keys hidden by the second search of an add,
calls for which still change nothing for other keys (`ImplementsMap`); and that a
lookup by another thread errs only if the entry of its own key is pushed or removed
during the lookup (`LookupIsHonest`).

`iot` checks that what runs on a core and what is saved in a context belong
together (`ContextsExact`); that a stack switches only to an application that is
there, unless an event came between the knock and the creation of its coroutine
(`SwitchesToThreads`); that every request is in one place and is answered from its
own payload, and on the core of the stack goes to the buffer of its kind as long as
no event was missed and no FIN came (`ForwardedExactly`); that a waiting query lets
at most one update pass (`QueryPassedOnce`); that as many requests are done as the
server has seen events for, unless a worker waits for ever for an mbuf
(`EveryRequestDone`); and that a stack gets its core back, unless all buffers are
full and all workers wait for an mbuf (`StackRunsAgain`). `ForwardedExactly` and
`EveryRequestDone` say nothing once the server has used the buffer of a worker that
had not initialised it.

Each property of a passing run has a mutant in `PROJECT.json`: a plausible slip in
the code that it catches. The slips stand before the definitions they change.

## Bounds

- `ring`: four slots and two items, so that the ring becomes full, empty and
  wraps at every index.
- `n21_queue`: three producers (one is passed while another is served), two
  items each.
- `pool`: two cores, a private chunk each and seven public ones, batches of two
  and three: lists of every length, and a public ring that runs out.
- `device`: two received mbufs, one of the stack, one per application, two
  descriptors, bursts of two. `Bounded` keeps an mbuf at most twice in its pool,
  at most four packets on their way out, and lets packets come in and be
  answered only while the mbufs of the applications rest: the two directions share
  nothing but the release queues.
- `recv`: four mbufs, rings of three slots, so that two mbufs fill one, a buffer
  of three bytes (of four for several gaps), segments of one or two bytes, three to
  six bytes from number 13 on: the numbers wrap at 16, rings and window close, gaps
  close before one segment and before several, and mbufs are reused. Separate cores
  get old segments of low priority or segments in order of both priorities; one
  core gets all of these and segments ahead of a gap.
- `send`: three messages of one or two bytes into a buffer of two or three, queues
  of two, windows of two or three bytes, numbers from 13 wrapping at 16, one
  retransmission before the stream gives up, one send event waiting at a time.
- `connection`: two connections (the second meets the stale entries of the first),
  two messages, one retransmission, one send event. `snd_nxt` is capped behind
  `fss` + 1, where all its values compare alike. How full the queues are is chosen
  at every step.
- `sockets`: two stacks with two sockets and two streams each, seven calls: enough
  to open, lose and reuse a number and to move a socket from one list to the other.
- `events`: one stack thread, two connections, rings of three slots (two events
  fill one), an accept queue for one, two events per call, four events in all:
  rings and accept queue become full and wrap, up to four events come before the
  registration, and an event of each connection meets the registration of the
  other.
- `hash`: four buckets of one place and three slots; five keys, of which two have
  one hash value and push each other, one pushes these from their secondary
  bucket, one has the hash value 0 and one has two equal buckets; four calls, two
  pushes, one aborted transaction. The reader looks for one of the keys that are
  pushed.
- `iot`: one stack, the server beside it or on its own core, one worker or two,
  two cells per buffer, two events per ring, one mbuf per worker, up to four
  requests: buffers, rings and pools run full or empty, a query meets two updates,
  and the FIN follows a query and an update. The mbufs are one because a worker
  holds at most one, and a second only delays the wait for it.

Symmetry is used for the mbufs of `RecvBuff` and the public chunks of `ChunkPool`,
in runs without liveness. Deadlock is not checked where the system may stop: once
all bytes, messages, calls or connections of the bound are used, or the process
has ended.

## Fairness

- `Connection`: weak fairness of the control queue, the send queue and the two
  timer checks, which the main loop reaches in every round, and of time itself
  (`timewait_expires`). None is assumed of the peer, the network, the application,
  the other streams that fill the queues, or the 300 s list. Five seconds that are
  over can start again before the check sees it; a peer that does this for ever is
  an exception of `ClosedEnds`.
- `Events`: weak fairness of every stack thread and of the application, whose
  loops do not block: each has a core, or gets it back when the other yields.
  None is assumed of the arrival of packets.
- `IotServer`: weak fairness of the main thread and of every core: what runs on a
  core goes on running. Which coroutine that is, only the code decides. The peer
  owes nothing, not even acknowledgements.

## Proofs

`CircularQueueProofs` proves, for every ring size and every set of items, that
the indices stay in range, that the slot being read is never stored to
(`NoSlotRace`) and that the ring implements `BoundedFifo`. The inductive
invariant `Inv` says what each thread keeps between its steps: a producer past
its test still has room, since the consumer only makes more; a consumer past its
test still has an item. `NoSlotRace` alone is not inductive: it needs the tests
to stay true until the index is updated.

`N21QueueProofs` proves, for every number of producers and every capacity, that
NULL is honest and that a waiting queue is passed at most N - 1 times. `WalkInv`
says that the queues which had items when the call began still lie ahead of the
walk; `BypassInv` bounds the number of times a queue was passed plus the distance
of the walk to it.

`ChunkPoolProofs` proves, for any cores, chunks and batch sizes, `OnePlace` and
`CountersExact`. `IInv` states where chunks are as facts about pairs of places:
no two of the sets meet (`SetsApart`), a list holds nothing a set holds
(`ListsApart`), no chunk is at two positions of lists (`NoRepeats`), a private ring
holds its own chunks (`Home`), and every chunk is somewhere (`Complete`). Counters
and places depend on each other: a counter that is off by one lets a list be
emptied too far.

`DeviceProofs` proves `OneUser`, `MbufsAccounted` and `BurstsExact` for any number
of cores, mbufs and descriptors, and however late the device frees. An mbuf of an
application is marked exactly while it has a user (`Users`) and is always within
reach (`Reached`). For the packets of the stack, `th_mbufs`, `pkts_txburst` and
the descriptors are sections of one queue (`Out`), so a step that moves a packet
from one to the next leaves it alone, and an mbuf is in its pool or once in that
queue (`OneSw`). A received packet is in the pool, with an application, once in one
of the two rings with what the device has for them (`Low`, `High`), or once in one
release queue (`OneRx`). The burst array is bounded at every place of the stack
thread (`Counted`): at the end of a send check alone the bound is not inductive.
That an mbuf which lies once in a sequence is counted once, with `Cardinality`, is
a lemma of its own (`Counting`).

`SocketsProofs` proves `SocketsExact`, `LinksExact` and `AcceptIsNew` for any number
of stacks, sockets, streams, ports, peers and calls. The free lists are exact
whatever the application does (`FreeLists`). The rest holds until a number, an
address or a block is used twice (`misused`), and is inductive only together
(`Clean`): a live block and its socket point at each other (`Linked`, `Owned`), a
queued connect call has a socket and an address of its own, for else the block
made for it would take over a hash table entry (`Connecting`), a queued close call
has a live block that was closed (`Closing`), and what nobody accepted belongs to
nobody (`Unaccepted`, `NotYetQueued`, `Given`). There is one lemma per action.

`ConnectionProofs` proves `OneTimerList` for any number of connections, messages,
retransmissions and events. Its parts are not inductive one by one: the stack
goes on serving the queue entries of a destroyed stream, and sending for it would
start the rto timer again; the state CLOSED prevents that. `Good` is the property
over a block, with the types of the fields concerned. There is one lemma per C
function or state handler, and one step per action.

`RuntimeProofs` proves `ContextsExact` and `SwitchesToThreads` for any number of
stacks, cores and applications, over every sequence of runtime steps
(`RuntimeSpec`), whatever the applications do in between. `ContextsExact` alone is
not inductive: that the context to go on with holds something depends on where
the core is. `IInv` therefore says for every core which of four places it is in
(`StackCore`, `AppCore`), that a context is saved exactly for a coroutine that was
started and does not run (`Saved`), that the tables of the applications agree
(`Tables`), that a knock without a coroutine comes from an early event (`Knocks`)
and what the main thread has done (`Starts`). There is one lemma per action; the
five actions that switch share `SwitchKept`. `IotServerProofs` shows that every
step of the server is a step of the runtime or leaves it alone
(`ServerRunsOnRuntime`), and with it the two properties for the specification the
run `iot` checks.

Assumptions: the named `ASSUME`s of the modules only (a positive ring size and
number of queues, natural bounds, NULL is no item, disjoint finite shares of the
pool, disjoint pools of mbufs and positive batch sizes, ports that are no peers, a
stack for every connection, configurations that start each application once).

Only model-checked: all liveness (`ClosedEnds`, `EveryEventTaken`,
`EveryRequestDone`, `StackRunsAgain`), which needs fairness and is out of the
prover's reach; the refinement of `KeyMap` by `CuckooHash`, whose search for a
path is an induction over data; and the invariants of the other modules.

## Finding

`try_merge_ooo` fills the direct ring `merged_q` with `cirq_add`, which stores
through `queue` instead of `d_queue` (`tcp_recv_buff.c:132`): the merged mbuf is
not in the slot the reader takes. Run `recv_merge`.

## Other observations

What modelling showed the code to do. Where a property is named, it happens in the
run of that property and is one of its exceptions.

Receive buffer:

- `rb_put` tests the result of `mbufq_enqueue` for truth (`tcp_recv_buff.c:211`),
  and `FAILED` is -2: a segment that finds `merged_q` full is in no queue but is
  counted, and acknowledged (`AckedIsKept`). With the default of 11200 bytes over
  seven mbufs small segments are enough.
- `rb_put` marks an mbuf RBUFFED after it is visible in `high_q` or `merged_q`
  (`tcp_recv_buff.c:204`): a reader on another core may see the old state and
  free it unread (`DeliveredExactly`).
- When `high_q` is full the mbuf stays RCVED although `merged_q` holds it, and the
  main loop frees it (`MbufsExact`).
- Old high-priority data whose number is `head_seq` make `try_get_high_mbuf` take
  another mbuf from `merged_q` (`tcp_recv_buff.c:261`), whose data are lost
  (`AckedIsKept`).
- When a gap closes before several segments one event is raised for all
  (`NothingStranded`).
- A segment in front of the head of the out-of-order list is lost, and memory
  overwritten, by the swapped arguments of `mbuf_list_add_head`.
- A high-priority duplicate of a segment that waits in the out-of-order list is
  delivered from `high_q` and never freed; one of a segment still unmerged is
  delivered again.
- `rb_clear` frees an mbuf that waits in both `merged_q` and `high_q` twice
  (`MbufsExact`), and `tcp_stream_destroy` may call it while the application reads on another core.
- `snd_wnd` and `rcv_wnd` are stored by both sides; on separate cores a stale
  value may win.

Send buffer and connection:

- `flush_tcp_sending_buffer` pops a message before it tests the window and does
  not put it back (`tcp_out.c:675`): the message is lost (`InOneList`), and if it
  had been sent before, the next one goes out under its numbers, may be freed
  although the peer does not have it, and may wait with no timer and no event.
- `sb_put` takes numbers before it finds the queue full: the room stays used
  (`RoomExact`).
- The control queue holds `MAX_FLOW_NUM` >> (2 + `MEM_SCALE`) entries
  (`core.c:281`), fewer than a stack has streams (`core.c:263`).
  `control_queue_add` drops a stream that finds it full (`tcp_out.c:778`): a SYN,
  SYN|ACK or FIN may then never be sent and the stream be left to the 300 s timeout
  (`NotForgotten`, `ClosedEnds`). `q_close` ignores a full close queue
  (`api.c:108`): the call is lost.
- Every segment in TIME_WAIT restarts the timer (`timer.h:364`), so that a peer
  that goes on sending keeps the stream (`ClosedEnds`).
- Once the FIN is out it sends nothing (`tcp_out.c:595`), although `handle_rto`
  means to "retrans data first" (`timer.h:123`): data lost before are never sent
  again and the connection ends by `TCP_MAX_RTX`.
- `sb_free` does not empty `husnd_q`.
- Acks that arrive late count as duplicate acks and set `snd_nxt` behind
  `snd_una` until the next ack (the comment at `tcp_in.c:996` lists "ack_seq ==
  snd_una" and outstanding data as conditions, which the code does not test).
  The flush gives up while `snd_nxt` is behind `head_seq`, so that a new message
  can be left without an event or a timer: `NeverStuck` is stated for acks in
  order.
- `q_close` in a state other than ESTABLISHED and CLOSE_WAIT fails but leaves
  `closed` set: a second call returns 0 and nothing is queued.
- A close call served after the stream was destroyed reaches the branch
  `core.c:145`, which ends the process, or hits the next user of the block.
- In FIN_WAIT_1 and CLOSING a late ack of data only stops the rto timer of a
  lost FIN; the stream is then left to the timeout list.
- A left-over send event on a block that `q_connect` uses again sends a second
  SYN under the next number (excluded by the guard of `handle_connect_call`).
- `ack_queue_add` queues a stream only if `ack_cnt` is positive: a window update
  alone is never sent, and an ack that could not be sent leaves `ack_cnt` positive
  with the stream off the queue.

Sockets:

- A stream that times out is destroyed without a word to the application
  (`timer.h` says "destroy and notify to application"); its number then names
  another connection, which a late `q_close` closes.
- `q_connect` twice on a socket makes two streams for it; the second release
  of the socket ends the process. Two sockets with one address overwrite each
  other's hash table entry.
- `q_listen` marks the socket a listener before it can fail, and `q_accept` then
  follows a NULL pointer; so does `q_close` of a socket without a stream, and a
  passive open with no socket left.
- Only the first listener gets connections. Sockets move from the list of stack 0
  to that of the stack that destroys the stream, so that `q_socket` can fail for
  good.

Events:

- `qepoll_ctl` moves an event that came before the registration to the channel
  from the application (`qepoll.c:331`); `eventmgt_get` reads the channels from
  the stacks only (`qepoll.c:1406`) and never sees it (`NoEventLost`).
- `qepoll_ctl` moves one pending event: of several that came before the
  registration the others stay in the list (`NoEventLost`).
- `AddTimeEvent` stores the type of the event as the mask of the socket
  (`qepoll.c:1176`): an event of another type that waits in a ring is skipped
  (`Types` with "OUT"; the stack raises such events for active opens only).
- An application that shares its core with one stack thread and gets events from
  another clears `knocked` after its last look at the rings
  (`qepoll.c:729`), and the other stack's knock may fall in between: the event
  then waits for the next one (two stacks, `home` = 0).

Device and pools:

- An mbuf the send buffer still holds can be back in its pool, against the comment
  in `dpdk_tx_send`; only `udata64` keeps it from a second user.
- `dpdk_alloc_mbuf` spins for ever when pool and release queue are empty. Where
  `nofree_queue` is smaller than the pool, a release can end the process.
- `pkts_txburst` overflows after some 190 send checks in a row in which the device
  takes nothing (`MaxStall` bounds them).
- The low transmit ring is never used. `mp_listener` has fewer public chunks than
  a batch and `mp_stream` none, so that the public ring never serves them.

Hash table (not the one the stack uses: `hashtable.c` calls `rte_hash`):

- With transactional memory an add that finds room only by its second search puts
  the entry into the secondary bucket with `sig_current` = `sig`
  (`qing_hash.c:722`). It returns 0 ("added successfully", `qing_hash.h:288`), but
  a lookup compares the secondary bucket with the other signature
  (`qing_hash.c:938`): neither lookup nor removal finds the key, until a push of the
  entry may bring it back (`ImplementsMap`).
- A lookup beside a writer ("multi-thread safe", `qing_hash.h:318`) may miss a key
  whose own entry is being pushed, and may return data of another key when its own
  is removed meanwhile (`LookupIsHonest`).
- Changing the data of a key fails when no slot is free. With a number of entries
  that is a power of two one slot is never used.

Runtime and IoT server:

- Between `q_listen` and the creation of the application an event finds no
  coroutine to switch to (`early`, `SwitchesToThreads`), and the server may use the
  buffer of a worker that will still initialise it (`raced`).
- Requests that arrive before `qepoll_ctl` raise events nobody sees (as above, for
  the server uses `eventmgt_get`), and no later event makes up for them: as many
  requests stay unread (`EveryRequestDone`).
- The server chooses the buffer by the priority of the event (`iotepserver.c:702`)
  and takes what `q_recv` returns. The event of a FIN is of high priority
  (`tcp_in.c:250`): an update read by it is forwarded as a query. On separate cores
  an event may read a request that has come in after it, of either kind
  (`ForwardedExactly`).
- A request read out of turn stays in `merged_q`; `q_recv` then answers EAGAIN at
  the end of the stream (`api.c:480`), and the server never calls `q_close`.
- `q_send` refuses an answer when the connection has ended, and nobody frees its
  mbuf.
- A worker spins in `q_get_wmbuf` while its pool is empty (`dpdk_module.c:1034`);
  only acknowledgements, handled by the stack, refill it. If the server on the core
  of the stack spins on full buffers (`iotepserver.c:708`) at that time, everybody
  waits for everybody (`StackRunsAgain`).
- An application on the core of a stack that returns has no coroutine to return
  to.
- A worker answers by socket number, which may name another connection by then.

## Not modelled

The driver, header formatting and parsing, check sums, configuration, flow rules
and statistics have no control worth checking. `hashtable.c` wraps a library.
Clocks are abstracted: a timer that is set may fire at any time; the time wheel
of `qepoll` is not used. Congestion control is reduced to a window chosen freely.
Delayed acks (the ack queue) change nothing a stream depends on: the models let
any ack be lost or delayed. The message channel, and with it the slot-writing
interface of the rings, is switched off by `USE_MESSAGE` 0. `qepoll_wait_pri`,
`runtime_schedule`, `request_arp` and the pool functions of type 0 have no caller.
Memory models weaker
than program order are not treated: stores to a slot and to an index are taken
to happen in their order, as on x86.
