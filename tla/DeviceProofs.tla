---------------------------- MODULE DeviceProofs ----------------------------
(***************************************************************************)
(* What holds of the mbufs for any number of cores, mbufs and descriptors, *)
(* and however late the device frees: OneUser, MbufsAccounted, BurstsExact.*)
(*                                                                         *)
(* An mbuf of an application is marked exactly while it has a user (Users) *)
(* and is never out of reach (Reached).  The packets of the stack go round *)
(* between their pool and one queue: th_mbufs, pkts_txburst and the        *)
(* descriptors of the device are sections of it (Out), so that moving them *)
(* on changes nothing (OneSw).  Received packets go round between the      *)
(* pool, the two rings with what the device has for them (Low, High), an   *)
(* application and the rxfree_queues (OneRx).                              *)
(***************************************************************************)
EXTENDS Device, TLAPS

(* Zenon proves most leaves; one that needs SMT says so. *)
USE ZenonT(60)

Tx == Sw \cup UwAll
Places == {"loop", "recv", "release", "high", "burst", "last"}

Types ==
    /\ pool \in [Mbufs -> Nat] /\ app \in [Mbufs -> Nat] /\ snd \in [Mbufs -> Nat]
    /\ udata64 \in [UwAll -> {0, 2}]
    /\ nicrx \in [{0, 1} -> Seq(Rx)] /\ rh \in Seq(Rx) /\ rl \in Seq(Rx)
    /\ rxfree \in [Cores -> Seq(Rx)]
    /\ th \in Seq(Tx) /\ txburst \in Seq(Tx) /\ nic \in Seq(Tx)
    /\ nofree \in [Cores -> [Cores -> Seq(UwAll)]]
    /\ pc \in Places /\ left \in Nat /\ sent \in Nat /\ stalled \in Nat
    /\ pc = "release" => relm \in UwAll

Users ==
    \A m \in UwAll : /\ app[m] + snd[m] <= 1
                     /\ udata64[m] = 2 <=> app[m] + snd[m] = 1

Total(m) == pool[m] + app[m] + snd[m]
InNofree(m) == \E c, p \in Cores : \E i \in DOMAIN nofree[c][p] : nofree[c][p][i] = m

Reached ==
    /\ pc # "release" => relm = None
    /\ halted = "no" => \A m \in UwAll : Total(m) > 0 \/ InNofree(m) \/ relm = m

Absent(s, m) == \A i \in DOMAIN s : s[i] # m
Once(s, m) == \E i \in DOMAIN s : \A j \in DOMAIN s : s[j] = m <=> j = i

Joined(a, b, t) == a \o (b \o t)
WithFirst(a, b, k) == a \o SubSeq(b, 1, k)
Rest(b, k) == SubSeq(b, k + 1, Len(b))
Out == Joined(nic, txburst, th)
Then(a, b) == a \o b
Low == Then(rl, nicrx[0])
High == Then(rh, nicrx[1])

OneSw ==
    \A m \in Sw : /\ app[m] = 0 /\ snd[m] = 0
                  /\ \/ pool[m] = 1 /\ Absent(Out, m)
                     \/ pool[m] = 0 /\ Once(Out, m)

AllFreeAbsent(m) == \A p \in Cores : Absent(rxfree[p], m)
FreedOnce(m) ==
    \E p \in Cores : Once(rxfree[p], m) /\ \A q \in Cores \ {p} : Absent(rxfree[q], m)

RxPlace(m) ==
    \/ /\ pool[m] + app[m] = 1
       /\ Absent(Low, m) /\ Absent(High, m) /\ AllFreeAbsent(m)
    \/ /\ pool[m] = 0 /\ app[m] = 0
       /\ Once(Low, m) /\ Absent(High, m) /\ AllFreeAbsent(m)
    \/ /\ pool[m] = 0 /\ app[m] = 0
       /\ Absent(Low, m) /\ Once(High, m) /\ AllFreeAbsent(m)
    \/ /\ pool[m] = 0 /\ app[m] = 0
       /\ Absent(Low, m) /\ Absent(High, m) /\ FreedOnce(m)

OneRx == \A m \in Rx : snd[m] = 0 /\ RxPlace(m)

(* How often an mbuf lies in a sequence, and in the rxfree_queues that     *)
(* dpdk_check_rx_ring empties.  Both hold in every state: see Counting.    *)
OccursExactly ==
    \A s, m : /\ Absent(s, m) => Occurs(s, m) = 0
              /\ Once(s, m) => Occurs(s, m) = 1
FreesExactly ==
    \A m : /\ AllFreeAbsent(m) => Cardinality(GivenBack(m)) = 0
           /\ FreedOnce(m) => Cardinality(GivenBack(m)) = 1

(* The packets counted are there, and the burst exceeds its size by what   *)
(* the place of the stack thread says.                                     *)
Counted ==
    /\ halted # "no_packet"
    /\ pc = "recv" => left >= 1 /\ left <= Len(rh) + Len(rl)
    /\ pc \in {"loop", "recv", "release"} => Len(txburst) <= MAX_PKT_TX_BURST + stalled
    /\ pc \in {"high", "last"} /\ sent = 0 => Len(txburst) <= MAX_PKT_TX_BURST + stalled
    /\ pc \in {"high", "last"} /\ sent # 0 => Len(txburst) < MAX_PKT_TX_BURST
    /\ pc = "burst" /\ sent = 0 => Len(txburst) <= MAX_PKT_TX_BURST + stalled + 1
    /\ pc = "burst" /\ sent # 0 => Len(txburst) <= MAX_PKT_TX_BURST + stalled

IInv == Types /\ Users /\ Reached /\ OneSw /\ OneRx /\ Counted

-----------------------------------------------------------------------------

LEMMA Basics ==
    /\ 0 \in Cores /\ None \notin Mbufs
    /\ Rx \subseteq Mbufs /\ Sw \subseteq Mbufs /\ UwAll \subseteq Mbufs /\ Tx \subseteq Mbufs
    /\ \A m \in Rx : m \notin Sw /\ m \notin UwAll /\ m \notin Tx
    /\ \A m \in Sw : m \notin UwAll
    /\ \A c \in Cores : Uw[c] \subseteq UwAll
    /\ MAX_RECV_BATCH \in Nat \ {0} /\ MAX_PKT_TX_BURST \in Nat \ {0}
BY DeviceAssumption DEF Mbufs, UwAll, Tx

LEMMA Sizes ==
    /\ MAX_RECV_BATCH \in Nat /\ MAX_RECV_BATCH >= 1
    /\ MAX_PKT_TX_BURST \in Nat /\ MAX_PKT_TX_BURST >= 1
BY DeviceAssumption, SMTT(30)

LEMMA Owned ==
    ASSUME NEW m \in UwAll
    PROVE  Owner(m) \in Cores
BY DEF UwAll, Owner

LEMMA InitIInv ==
    ASSUME Init
    PROVE  IInv
<1> USE Basics
<1>1. Types
  BY SMTT(30) DEF Init, Types, Places
<1>2. Users /\ Reached /\ Counted
  BY SMTT(30) DEF Init, Users, Reached, Total, Counted
<1>3. OneSw
  <2>1. Out = <<>>
    BY SMTT(30) DEF Init, Out, Joined
  <2> QED BY <2>1, SMTT(30) DEF Init, OneSw, Absent
<1>4. OneRx
  <2>1. Low = <<>> /\ High = <<>>
    BY SMTT(30) DEF Init, Low, High, Then
  <2>2. \A p \in Cores : rxfree[p] = <<>>
    BY DEF Init
  <2> QED BY <2>1, <2>2, SMTT(30) DEF Init, OneRx, RxPlace, AllFreeAbsent, Absent
<1> QED BY <1>1, <1>2, <1>3, <1>4 DEF IInv

LEMMA JoinPlaces ==
    ASSUME NEW S, NEW a \in Seq(S), NEW b \in Seq(S), NEW m
    PROVE  /\ Absent(a \o b, m) => Absent(a, m) /\ Absent(b, m)
           /\ Once(a \o b, m) => \/ Once(a, m) /\ Absent(b, m)
                                 \/ Absent(a, m) /\ Once(b, m)
<1> DEFINE c == a \o b
           n == Len(a)
<1>1. /\ n \in Nat
      /\ \A i \in DOMAIN a : i \in DOMAIN c /\ c[i] = a[i] /\ i \in Nat /\ i <= n
      /\ \A i \in DOMAIN b : i + n \in DOMAIN c /\ c[i + n] = b[i] /\ i \in Nat /\ i > 0
      /\ \A i \in DOMAIN c : /\ i \in Nat
                             /\ i \in DOMAIN a \/ (i - n \in DOMAIN b /\ i > n)
  BY SMTT(30)
<1> HIDE DEF c, n
<1>2. Absent(c, m) => Absent(a, m) /\ Absent(b, m)
  BY <1>1 DEF Absent
<1>3. ASSUME Once(c, m)
      PROVE  (Once(a, m) /\ Absent(b, m)) \/ (Absent(a, m) /\ Once(b, m))
  <2>1. PICK i \in DOMAIN c : \A j \in DOMAIN c : c[j] = m <=> j = i
    BY <1>3 DEF Once
  <2>2. CASE i \in DOMAIN a
    <3>1. Once(a, m)
      BY <1>1, <2>1, <2>2 DEF Once
    <3>2. ASSUME NEW j \in DOMAIN b
          PROVE  b[j] # m
      <4>1. j + n \in DOMAIN c /\ c[j + n] = b[j] /\ j \in Nat /\ j > 0 /\ i \in Nat /\ i <= n
        BY <1>1, <2>2
      <4>2. j + n # i
        BY <1>1, <4>1, SMTT(30)
      <4> QED BY <2>1, <4>1, <4>2
    <3>3. Absent(b, m)
      BY <3>2 DEF Absent
    <3> QED BY <3>1, <3>3
  <2>3. CASE i - n \in DOMAIN b /\ i > n
    <3>1. Absent(a, m)
      BY <1>1, <2>1, <2>3, SMTT(30) DEF Absent
    <3>2. \A j \in DOMAIN b : b[j] = m <=> j = i - n
      BY <1>1, <2>1, <2>3, SMTT(30)
    <3> QED BY <3>1, <3>2, <2>3 DEF Once
  <2> QED BY <1>1, <2>2, <2>3
<1> QED BY <1>2, <1>3 DEF c

LEMMA CountsJoined ==
    ASSUME OccursExactly, NEW S, NEW a \in Seq(S), NEW b \in Seq(S), NEW t \in Seq(S), NEW m
    PROVE  /\ Absent(Then(a, b), m) => Occurs(a, m) + Occurs(b, m) = 0
           /\ Once(Then(a, b), m) => Occurs(a, m) + Occurs(b, m) = 1
           /\ Absent(Joined(a, b, t), m) => Occurs(a, m) + Occurs(b, m) + Occurs(t, m) = 0
           /\ Once(Joined(a, b, t), m) => Occurs(a, m) + Occurs(b, m) + Occurs(t, m) = 1
           /\ Absent(Then(a, b), m) \/ Once(Then(a, b), m) =>
                 {Occurs(a, m), Occurs(b, m)} \subseteq Nat
           /\ Absent(Joined(a, b, t), m) \/ Once(Joined(a, b, t), m) =>
                 {Occurs(a, m), Occurs(b, m), Occurs(t, m)} \subseteq Nat
<1>1. /\ Absent(Then(a, b), m) => Absent(a, m) /\ Absent(b, m)
      /\ Once(Then(a, b), m) => \/ Once(a, m) /\ Absent(b, m)
                                \/ Absent(a, m) /\ Once(b, m)
  BY JoinPlaces DEF Then
<1>0. b \o t \in Seq(S)
  BY SMTT(30)
<1>2. PICK c \in Seq(S) : c = b \o t
  BY <1>0
<1>3. Joined(a, b, t) = a \o c
  BY <1>2, SMTT(30) DEF Joined
<1>4. /\ Absent(c, m) => Absent(b, m) /\ Absent(t, m)
      /\ Once(c, m) => \/ Once(b, m) /\ Absent(t, m)
                       \/ Absent(b, m) /\ Once(t, m)
  BY <1>2, JoinPlaces
<1>5. /\ Absent(Joined(a, b, t), m) => Absent(a, m) /\ Absent(c, m)
      /\ Once(Joined(a, b, t), m) => \/ Once(a, m) /\ Absent(c, m)
                                     \/ Absent(a, m) /\ Once(c, m)
  BY <1>3, JoinPlaces
<1>6. \A s \in {a, b, t} : /\ Absent(s, m) => Occurs(s, m) = 0
                           /\ Once(s, m) => Occurs(s, m) = 1
  BY DEF OccursExactly
<1> QED BY <1>1, <1>4, <1>5, <1>6, SMTT(30)

LEMMA IInvAccounts ==
    ASSUME FreesExactly, OccursExactly, IInv
    PROVE  MbufsAccounted
<1> USE Basics
<1>0. /\ nic \in Seq(Tx) /\ txburst \in Seq(Tx) /\ th \in Seq(Tx)
      /\ rh \in Seq(Rx) /\ rl \in Seq(Rx) /\ nicrx[0] \in Seq(Rx) /\ nicrx[1] \in Seq(Rx)
      /\ rxfree \in [Cores -> Seq(Rx)]
      /\ \A m \in Mbufs : pool[m] \in Nat /\ app[m] \in Nat /\ snd[m] \in Nat
  BY DEF IInv, Types
<1>1. ASSUME NEW m \in Sw
      PROVE  /\ Refs(m) \in Nat /\ pool[m] + Refs(m) = 1 /\ app[m] = 0 /\ InRings(m) = 0
             /\ Cardinality(GivenBack(m)) = 0
  <2>1. app[m] = 0 /\ ((pool[m] = 1 /\ Absent(Out, m)) \/ (pool[m] = 0 /\ Once(Out, m)))
    BY DEF IInv, OneSw
  <2>2. /\ Absent(rh, m) /\ Absent(rl, m) /\ Absent(nicrx[0], m) /\ Absent(nicrx[1], m)
        /\ AllFreeAbsent(m)
    BY <1>0, SMTT(30) DEF Absent, AllFreeAbsent
  <2>3. InRings(m) = 0
    BY <2>2, SMTT(30) DEF InRings, OccursExactly
  <2>4. /\ Absent(Out, m) => Occurs(nic, m) + Occurs(txburst, m) + Occurs(th, m) = 0
        /\ Once(Out, m) => Occurs(nic, m) + Occurs(txburst, m) + Occurs(th, m) = 1
    BY <1>0, CountsJoined, SMTT(30) DEF Out
  <2>5. {Occurs(nic, m), Occurs(txburst, m), Occurs(th, m)} \subseteq Nat
    BY <1>0, <2>1, CountsJoined, SMTT(30) DEF Out
  <2> QED BY <2>1, <2>2, <2>3, <2>4, <2>5, SMTT(30) DEF Refs, FreesExactly
<1>2. ASSUME NEW m \in Rx
      PROVE  /\ snd[m] = 0 /\ Refs(m) = 0 /\ InRings(m) \in Nat
             /\ pool[m] + app[m] + InRings(m) + Cardinality(GivenBack(m)) = 1
             /\ Cardinality(GivenBack(m)) = 0 \/ InQueues(m)
             /\ Cardinality(GivenBack(m)) \in Nat
  <2>1. snd[m] = 0 /\ RxPlace(m)
    BY DEF IInv, OneRx
  <2>2. Absent(nic, m) /\ Absent(txburst, m) /\ Absent(th, m)
    BY <1>0, SMTT(30) DEF Absent
  <2>3. Refs(m) = 0
    BY <2>2, SMTT(30) DEF Refs, OccursExactly
  <2>4. /\ Absent(Low, m) => Occurs(rl, m) + Occurs(nicrx[0], m) = 0
        /\ Once(Low, m) => Occurs(rl, m) + Occurs(nicrx[0], m) = 1
        /\ {Occurs(rl, m), Occurs(nicrx[0], m)} \subseteq Nat
    <3>1. Absent(Low, m) \/ Once(Low, m)
      BY <2>1 DEF RxPlace
    <3> QED BY <1>0, <3>1, CountsJoined, SMTT(30) DEF Low
  <2>5. /\ Absent(High, m) => Occurs(rh, m) + Occurs(nicrx[1], m) = 0
        /\ Once(High, m) => Occurs(rh, m) + Occurs(nicrx[1], m) = 1
        /\ {Occurs(rh, m), Occurs(nicrx[1], m)} \subseteq Nat
    <3>1. Absent(High, m) \/ Once(High, m)
      BY <2>1 DEF RxPlace
    <3> QED BY <1>0, <3>1, CountsJoined, SMTT(30) DEF High
  <2>6. FreedOnce(m) => InQueues(m)
    BY DEF FreedOnce, Once, InQueues, Range
  <2>7. InRings(m) = (Occurs(rl, m) + Occurs(nicrx[0], m)) + (Occurs(rh, m) + Occurs(nicrx[1], m))
    BY <2>4, <2>5, SMTT(30) DEF InRings
  <2>8. /\ AllFreeAbsent(m) => Cardinality(GivenBack(m)) = 0
        /\ FreedOnce(m) => Cardinality(GivenBack(m)) = 1
    BY DEF FreesExactly
  <2>9. pool[m] \in Nat /\ app[m] \in Nat
    BY <1>0
  <2>10. PICK l \in Nat, h \in Nat : /\ l = Occurs(rl, m) + Occurs(nicrx[0], m)
                                     /\ h = Occurs(rh, m) + Occurs(nicrx[1], m)
    BY <2>4, <2>5, SMTT(30)
  <2>11. /\ Absent(Low, m) => l = 0
         /\ Once(Low, m) => l = 1
         /\ Absent(High, m) => h = 0
         /\ Once(High, m) => h = 1
         /\ InRings(m) = l + h
    BY <2>4, <2>5, <2>7, <2>10
  <2> QED BY <2>1, <2>3, <2>6, <2>8, <2>9, <2>11, SMTT(30) DEF RxPlace
<1>3. ASSUME NEW m \in UwAll, halted = "no"
      PROVE  pool[m] + app[m] + snd[m] > 0 \/ InQueues(m) \/ relm = m
  <2>1. InNofree(m) => InQueues(m)
    BY DEF InNofree, InQueues, Range
  <2> QED BY <1>3, <2>1 DEF IInv, Reached, Total
<1>4. ASSUME NEW m \in Rx \cup Sw
      PROVE  pool[m] + app[m] + Refs(m) + InRings(m) + Cardinality(GivenBack(m)) = 1
  BY <1>0, <1>1, <1>2, SMTT(30)
<1>5. ASSUME NEW m \in Rx \cup Sw
      PROVE  pool[m] + app[m] + snd[m] > 0 \/ Refs(m) > 0 \/ InQueues(m) \/ InRings(m) > 0
  <2>1. pool[m] \in Nat /\ app[m] \in Nat /\ snd[m] \in Nat
    BY <1>0
  <2>2. CASE m \in Sw
    <3>1. Refs(m) \in Nat /\ pool[m] + Refs(m) = 1 /\ app[m] = 0
      BY <1>1, <2>2
    <3> QED BY <2>1, <3>1, SMTT(30)
  <2>3. CASE m \in Rx
    <3>1. /\ InRings(m) \in Nat /\ Cardinality(GivenBack(m)) \in Nat
          /\ pool[m] + app[m] + InRings(m) + Cardinality(GivenBack(m)) = 1
          /\ Cardinality(GivenBack(m)) = 0 \/ InQueues(m)
      BY <1>2, <2>3
    <3> QED BY <2>1, <3>1, SMTT(30)
  <2> QED BY <2>2, <2>3
<1>6. \A m \in Mbufs : m \in UwAll \/ m \in Rx \cup Sw
  BY DEF Mbufs
<1> QED BY <1>3, <1>4, <1>5, <1>6 DEF MbufsAccounted

-----------------------------------------------------------------------------
(* What the operators on counts and sequences do. *)
LEMMA Ups ==
    ASSUME NEW f \in [Mbufs -> Nat], NEW m \in Mbufs
    PROVE  /\ Plus(f, m, 1) \in [Mbufs -> Nat]
           /\ Plus(f, m, 1)[m] = f[m] + 1
           /\ \A n \in Mbufs : n # m => Plus(f, m, 1)[n] = f[n]
BY SMTT(30) DEF Plus

LEMMA Downs ==
    ASSUME NEW f \in [Mbufs -> Nat], NEW m \in Mbufs, f[m] > 0
    PROVE  /\ Plus(f, m, -1) \in [Mbufs -> Nat]
           /\ Plus(f, m, -1)[m] = f[m] - 1
           /\ \A n \in Mbufs : n # m => Plus(f, m, -1)[n] = f[n]
<1>1. f[m] - 1 \in Nat /\ f[m] + (-1) = f[m] - 1
  BY SMTT(30)
<1> QED BY <1>1 DEF Plus

LEMMA Tails ==
    ASSUME NEW S, NEW q \in Seq(S), q # <<>>
    PROVE  /\ Head(q) \in S /\ Tail(q) \in Seq(S)
           /\ Len(Tail(q)) = Len(q) - 1 /\ Len(q) \in Nat \ {0}
           /\ Head(q) = q[1] /\ 1 \in DOMAIN q
           /\ \A i \in DOMAIN Tail(q) : /\ i \in Nat /\ i + 1 # 1
                                        /\ i + 1 \in DOMAIN q /\ Tail(q)[i] = q[i + 1]
           /\ \A i \in DOMAIN q : i = 1 \/ (i - 1 \in DOMAIN Tail(q) /\ Tail(q)[i - 1] = q[i])
BY SMTT(30)

LEMMA Appends ==
    ASSUME NEW S, NEW q \in Seq(S), NEW x \in S
    PROVE  /\ Append(q, x) \in Seq(S) /\ Len(Append(q, x)) = Len(q) + 1
           /\ DOMAIN q \subseteq DOMAIN Append(q, x)
           /\ \A i \in DOMAIN q : Append(q, x)[i] = q[i] /\ i # Len(q) + 1
           /\ Len(q) + 1 \in DOMAIN Append(q, x) /\ Append(q, x)[Len(q) + 1] = x
           /\ \A i \in DOMAIN Append(q, x) : i \in DOMAIN q \/ i = Len(q) + 1
BY SMTT(30)

LEMMA Joins ==
    ASSUME NEW S, NEW a \in Seq(S), NEW b \in Seq(S)
    PROVE  /\ Then(a, b) \in Seq(S)
           /\ \A x \in S : Then(a, Append(b, x)) = Append(Then(a, b), x)
           /\ Then(Then(a, b), <<>>) = Then(a, b)
BY SMTT(30) DEF Then

(* What the parts of the actions do. *)
LEMMA Frees ==
    ASSUME NEW m, rte_pktmbuf_free(m)
    PROVE  /\ pool' = pool \/ pool' = Plus(pool, m, 1)
           /\ m \notin UwAll => pool' = Plus(pool, m, 1)
BY DEF rte_pktmbuf_free

LEMMA Replies ==
    ASSUME NEW answer, process_arp_packet(answer)
    PROVE  \/ pool' = pool /\ th' = th
           \/ \E m \in Sw : pool[m] > 0 /\ pool' = Plus(pool, m, -1) /\ th' = Append(th, m)
BY DEF process_arp_packet, process_arp_request, arp_output, SwSend, io_get_swmbuf, dpdk_tx_send

LEMMA Receives ==
    LET r == dpdk_rx_receive_one
    IN  \/ rh # <<>> /\ r.got = Head(rh) /\ r.rh = Tail(rh) /\ r.rl = rl
        \/ rh = <<>> /\ rl # <<>> /\ r.got = Head(rl) /\ r.rh = rh /\ r.rl = Tail(rl)
        \/ rh = <<>> /\ rl = <<>> /\ r.got = None /\ r.rh = rh /\ r.rl = rl
BY DEF dpdk_rx_receive_one

LEMMA ReceivesTyped ==
    ASSUME Types
    PROVE  LET r == dpdk_rx_receive_one
           IN  r.got \in Rx \cup {None} /\ r.rh \in Seq(Rx) /\ r.rl \in Seq(Rx)
<1>1. rh \in Seq(Rx) /\ rl \in Seq(Rx)
  BY DEF Types
<1>2. /\ rh # <<>> => Head(rh) \in Rx /\ Tail(rh) \in Seq(Rx)
      /\ rl # <<>> => Head(rl) \in Rx /\ Tail(rl) \in Seq(Rx)
  BY <1>1, Tails
<1> QED BY <1>1, <1>2, Receives

(* What each step does to the counts of the mbufs, the only part of the    *)
(* type invariant that takes an argument.                                  *)
LEMMA CheckFrees ==
    ASSUME FreesExactly, Types, OneRx, dpdk_check_rx_ring
    PROVE  /\ pool' \in [Mbufs -> Nat]
           /\ \A m \in Mbufs : m \notin Rx => pool'[m] = pool[m]
           /\ \A m \in Rx : /\ AllFreeAbsent(m) => pool'[m] = pool[m]
                            /\ FreedOnce(m) => pool'[m] = pool[m] + 1
<1>1. pool \in [Mbufs -> Nat] /\ rxfree \in [Cores -> Seq(Rx)]
  BY DEF Types
<1>2. \A m \in Mbufs : pool'[m] = pool[m] + Cardinality(GivenBack(m))
  BY DEF dpdk_check_rx_ring
<1>3. ASSUME NEW m \in Mbufs, m \notin Rx
      PROVE  Cardinality(GivenBack(m)) = 0
  <2>1. AllFreeAbsent(m)
    BY <1>1, <1>3, SMTT(30) DEF AllFreeAbsent, Absent
  <2> QED BY <2>1 DEF FreesExactly
<1>4. \A m \in Rx : AllFreeAbsent(m) \/ FreedOnce(m)
  BY DEF OneRx, RxPlace
<1>5. \A m \in Mbufs : Cardinality(GivenBack(m)) \in Nat
  BY <1>3, <1>4, SMTT(30) DEF FreesExactly
<1>6. pool' \in [Mbufs -> Nat]
  BY <1>1, <1>5, SMTT(30) DEF dpdk_check_rx_ring
<1>7. \A m \in Mbufs : pool[m] \in Nat
  BY <1>1
<1> QED BY <1>2, <1>3, <1>6, <1>7, Basics, SMTT(30) DEF FreesExactly

(* Moving packets on to the device moves them within one sequence. *)
LEMMA Cuts ==
    ASSUME NEW S, NEW b \in Seq(S), NEW k \in 0 .. Len(b), NEW u \in Seq(S), NEW v \in Seq(S),
           Len(u) = k, Len(v) = Len(b) - k,
           \A i \in 1 .. k : u[i] = b[i], \A i \in 1 .. (Len(b) - k) : v[i] = b[k + i]
    PROVE  u \o v = b
<1>0. u \o v \in Seq(S) /\ Len(u \o v) = Len(b)
  BY SMTT(30)
<1>1. PICK c \in Seq(S) : c = u \o v
  BY <1>0
<1>2. Len(c) = Len(b)
  BY <1>0, <1>1
<1>3. ASSUME NEW i \in 1 .. Len(b)
      PROVE  c[i] = b[i]
  <2>1. CASE i <= k
    BY <1>1, <2>1, SMTT(30)
  <2>2. CASE i > k
    <3>1. (u \o v)[i] = v[i - k] /\ i - k \in 1 .. (Len(b) - k) /\ k + (i - k) = i
      BY <2>2, SMTT(30)
    <3> QED BY <1>1, <3>1
  <2> QED BY <2>1, <2>2, SMTT(30)
<1>4. c = b
  BY <1>2, <1>3, SMTT(30)
<1> QED BY <1>1, <1>4

LEMMA Moves ==
    ASSUME NEW S, NEW a \in Seq(S), NEW b \in Seq(S), NEW t \in Seq(S),
           NEW k \in 0 .. Len(b)
    PROVE  /\ WithFirst(a, b, k) \in Seq(S) /\ Rest(b, k) \in Seq(S)
           /\ Len(Rest(b, k)) = Len(b) - k
           /\ Joined(WithFirst(a, b, k), Rest(b, k), t) = Joined(a, b, t)
<1>0. SubSeq(b, 1, k) \in Seq(S) /\ SubSeq(b, k + 1, Len(b)) \in Seq(S)
  BY SMTT(30)
<1>1. PICK u \in Seq(S), w \in Seq(S) :
          u = SubSeq(b, 1, k) /\ w = SubSeq(b, k + 1, Len(b))
  BY <1>0
<1>2. /\ Len(u) = k /\ Len(w) = Len(b) - k
      /\ \A i \in 1 .. k : u[i] = b[i]
      /\ \A i \in 1 .. (Len(b) - k) : w[i] = b[k + i]
  BY <1>1, SMTT(30)
<1>3. u \o w = b
  BY <1>2, Cuts
<1>j. w \o t \in Seq(S)
  BY SMTT(30)
<1>4. PICK x \in Seq(S) : x = w \o t
  BY <1>j
<1>5. u \o (w \o t) = (u \o w) \o t
  BY SMTT(60)
<1>6. (a \o u) \o x = a \o (u \o x)
  BY SMTT(60)
<1>7. Joined(WithFirst(a, b, k), Rest(b, k), t) = Joined(a, b, t)
  BY <1>1, <1>3, <1>4, <1>5, <1>6 DEF Joined, WithFirst, Rest
<1>8. WithFirst(a, b, k) \in Seq(S)
  BY <1>1, SMTT(30) DEF WithFirst
<1> QED BY <1>1, <1>2, <1>7, <1>8 DEF Rest

LEMMA Taken ==
    ASSUME Types, NEW k \in 0 .. Descriptors, Takes(k)
    PROVE  /\ nic' \in Seq(Tx) /\ txburst' \in Seq(Tx) /\ sent' \in Nat
           /\ k <= Len(txburst) /\ Len(txburst') = Len(txburst) - k
           /\ Joined(nic', txburst', th) = Out
<1>1. nic \in Seq(Tx) /\ txburst \in Seq(Tx) /\ th \in Seq(Tx) /\ sent \in Nat
  BY DEF Types
<1>2. k \in 0 .. Len(txburst) /\ k \in Nat
  BY <1>1, DeviceAssumption, SMTT(30) DEF Takes
<1>3. nic' = WithFirst(nic, txburst, k) /\ txburst' = Rest(txburst, k) /\ sent' = sent + k
  BY DEF Takes, WithFirst, Rest
<1>4. /\ WithFirst(nic, txburst, k) \in Seq(Tx) /\ Rest(txburst, k) \in Seq(Tx)
      /\ Len(Rest(txburst, k)) = Len(txburst) - k
      /\ Joined(WithFirst(nic, txburst, k), Rest(txburst, k), th) = Joined(nic, txburst, th)
  BY <1>1, <1>2, Moves, SMTT(30)
<1> QED BY <1>1, <1>2, <1>3, <1>4, SMTT(30) DEF Out

-----------------------------------------------------------------------------
LEMMA TypesStep ==
    ASSUME FreesExactly, Types, OneRx, Counted, Next
    PROVE  Types'
<1>b. ASSUME NEW f \in [Cores -> [Cores -> Seq(UwAll)]], NEW c \in Cores, NEW p \in Cores,
             NEW x \in Seq(UwAll)
      PROVE  /\ [f EXCEPT ![c][p] = x] \in [Cores -> [Cores -> Seq(UwAll)]]
             /\ [f EXCEPT ![c][p] = x][c][p] = x
             /\ \A d, q \in Cores : d # c \/ q # p => [f EXCEPT ![c][p] = x][d][q] = f[d][q]
  OBVIOUS
<1>a. ASSUME Types, Counted, pc = "recv", NextReceive
      PROVE  left \in Nat \ {0} /\ left' = left - 1 /\ left' \in Nat /\ pc' \in {"loop", "recv"}
  <2>1. left \in Nat /\ left >= 1
    BY <1>a, SMTT(30) DEF Types, Counted
  <2> QED BY <1>a, <2>1, SMTT(30) DEF NextReceive
<1> USE Basics
<1>0. /\ pool \in [Mbufs -> Nat] /\ app \in [Mbufs -> Nat] /\ snd \in [Mbufs -> Nat]
      /\ nicrx \in [{0, 1} -> Seq(Rx)] /\ rh \in Seq(Rx) /\ rl \in Seq(Rx)
      /\ rxfree \in [Cores -> Seq(Rx)] /\ th \in Seq(Tx) /\ txburst \in Seq(Tx)
      /\ nic \in Seq(Tx) /\ left \in Nat
  BY DEF Types
<1>1. ASSUME NEW m \in Rx, NEW level \in {0, 1}, Arrive(m, level)
      PROVE  Types'
  <2>1. pool' \in [Mbufs -> Nat]
    BY <1>0, <1>1, Ups, Downs DEF Arrive
  <2>a. nicrx[level] \in Seq(Rx)
    BY <1>0
  <2>2. Append(nicrx[level], m) \in Seq(Rx)
    BY <2>a, Appends
  <2>3. nicrx' \in [{0, 1} -> Seq(Rx)]
    BY <1>0, <1>1, <2>2 DEF Arrive
  <2> QED BY <1>1, <2>1, <2>3 DEF Arrive, Types, txv
<1>2. CASE io_recv_check
  <2>1. pool' \in [Mbufs -> Nat]
    BY <1>2, CheckFrees DEF io_recv_check
  <2>2. /\ rl' = Then(rl, nicrx[0]) /\ rh' = Then(rh, nicrx[1])
        /\ rxfree' = [p \in Cores |-> <<>>] /\ nicrx' = [level \in {0, 1} |-> <<>>]
    BY <1>2 DEF io_recv_check, dpdk_check_rx_ring, OfLevel, Then
  <2>3. rl' \in Seq(Rx) /\ rh' \in Seq(Rx)
    BY <1>0, <2>2, Joins
  <2>4. rxfree' \in [Cores -> Seq(Rx)] /\ nicrx' \in [{0, 1} -> Seq(Rx)]
    BY <2>2, SMTT(30)
  <2>5. Len(rl') \in Nat /\ Len(rh') \in Nat
    BY <2>3, SMTT(30)
  <2>6. left' \in Nat /\ pc' \in Places
    BY <1>2, <2>5, SMTT(30) DEF io_recv_check, Places
  <2>7. pc' # "release"
    BY <1>2 DEF io_recv_check
  <2> QED BY <1>2, <2>1, <2>3, <2>4, <2>6, <2>7 DEF io_recv_check, Types, txv
<1>3. ASSUME NEW answer \in BOOLEAN, RecvDropped(answer)
      PROVE  Types'
  <2> DEFINE r == dpdk_rx_receive_one
  <2>1. r.got \in Rx /\ rh' \in Seq(Rx) /\ rl' \in Seq(Rx)
    BY <1>3, ReceivesTyped DEF RecvDropped
  <2>2. pool' \in [Mbufs -> Nat] /\ th' \in Seq(Tx)
    <3>1. process_arp_packet(answer)
      BY <1>3 DEF RecvDropped
    <3>2. CASE pool' = pool /\ th' = th
      BY <1>0, <3>2
    <3>3. ASSUME NEW m \in Sw, pool[m] > 0, pool' = Plus(pool, m, -1), th' = Append(th, m)
          PROVE  pool' \in [Mbufs -> Nat] /\ th' \in Seq(Tx)
      <4>1. m \in Tx
        BY DEF Tx
      <4> QED BY <1>0, <3>3, <4>1, Ups, Downs, Appends
    <3> QED BY <3>1, <3>2, <3>3, Replies
  <2>3. rxfree' = [rxfree EXCEPT ![0] = Append(@, r.got)]
    BY <1>3 DEF RecvDropped
  <2>4. Append(rxfree[0], r.got) \in Seq(Rx)
    BY <1>0, <2>1, Appends, SMTT(30)
  <2>5. rxfree' \in [Cores -> Seq(Rx)]
    BY <1>0, <2>3, <2>4
  <2>6. left' \in Nat /\ pc' \in Places /\ pc' # "release"
    BY <1>3, <1>a DEF RecvDropped, Places
  <2> HIDE DEF r
  <2> QED BY <1>3, <2>1, <2>2, <2>5, <2>6 DEF RecvDropped, Types
<1>4. CASE RecvKept
  <2> DEFINE r == dpdk_rx_receive_one
  <2>1. r.got \in Rx \cup {None} /\ rh' \in Seq(Rx) /\ rl' \in Seq(Rx)
    BY <1>4, ReceivesTyped DEF RecvKept
  <2>2. app' = IF r.got = None THEN app ELSE Plus(app, r.got, 1)
    BY <1>4 DEF RecvKept
  <2>3. app' \in [Mbufs -> Nat]
    BY <1>0, <2>1, <2>2, Ups, Downs
  <2>4. left' \in Nat /\ pc' \in Places /\ pc' # "release"
    BY <1>4, <1>a DEF RecvKept, Places
  <2> HIDE DEF r
  <2> QED BY <1>4, <2>1, <2>3, <2>4 DEF RecvKept, Types, mem, txv
<1>5. ASSUME NEW m \in UwAll, SendData(m)
      PROVE  Types'
  <2>1. m \in Tx /\ th' = Append(th, m)
    BY <1>5 DEF SendData, dpdk_tx_send, Tx
  <2>2. th' \in Seq(Tx)
    BY <1>0, <2>1, Appends
  <2> QED BY <1>5, <2>2 DEF SendData, Types, rxv
<1>6. CASE io_send_check
  BY <1>6 DEF io_send_check, Types, Places, mem, rxv
<1>7. CASE TxMove
  <2>1. th' = Tail(th) /\ txburst' = Append(txburst, Head(th)) /\ th # <<>>
    BY <1>7 DEF TxMove
  <2>2. th' \in Seq(Tx) /\ Head(th) \in Tx
    BY <1>0, <2>1, Tails
  <2>3. txburst' \in Seq(Tx)
    BY <1>0, <2>1, <2>2, Appends
  <2>4. pc' \in Places /\ pc' # "release"
    BY <1>7 DEF TxMove, Places
  <2> QED BY <1>7, <2>2, <2>3, <2>4 DEF TxMove, Types, mem, rxv
<1>8. CASE TxMoved
  BY <1>8 DEF TxMoved, Types, Places, mem, rxv, txv
<1>9. ASSUME NEW k \in 0 .. Descriptors, TxBurst(k) \/ TxLast(k)
      PROVE  Types'
  <2>1. Takes(k)
    BY <1>9 DEF TxBurst, TxLast
  <2>2. nic' \in Seq(Tx) /\ txburst' \in Seq(Tx) /\ sent' \in Nat
    BY <2>1, Taken
  <2>3. stalled' \in Nat /\ pc' \in Places /\ pc' # "release"
    BY <1>9, SMTT(30) DEF TxBurst, TxLast, Returns, Types, Places
  <2>4. UNCHANGED <<mem, app, snd, rxv, th, nofree>>
    BY <1>9 DEF TxBurst, TxLast
  <2> QED BY <2>2, <2>3, <2>4 DEF Types, mem, rxv
<1>10. CASE Reap
  <2>1. Head(nic) \in Tx /\ nic' \in Seq(Tx)
    BY <1>0, <1>10, Tails DEF Reap
  <2>2. pool' = pool \/ pool' = Plus(pool, Head(nic), 1)
    BY <1>10, Frees DEF Reap
  <2>3. pool' \in [Mbufs -> Nat]
    <3>1. Head(nic) \in Mbufs
      BY <2>1
    <3>2. Plus(pool, Head(nic), 1) \in [Mbufs -> Nat]
      BY <1>0, <3>1, Ups
    <3> QED BY <1>0, <2>2, <3>2
  <2> QED BY <1>10, <2>1, <2>3 DEF Reap, Types, rxv
<1>11. ASSUME NEW c \in Cores, io_get_uwmbuf(c)
       PROVE  Types'
  <2>1. ASSUME NEW m \in UwAll, Granted(m, c)
        PROVE  udata64' \in [UwAll -> {0, 2}] /\ app' \in [Mbufs -> Nat]
    <3>1. app' = app \/ app' = Plus(app, m, 1)
      BY <2>1 DEF Granted
    <3>2. Plus(app, m, 1) \in [Mbufs -> Nat]
      BY <1>0, Ups
    <3>3. udata64' \in [UwAll -> {0, 2}]
      BY <2>1 DEF Granted, Types
    <3> QED BY <1>0, <3>1, <3>2, <3>3
  <2>2. UNCHANGED <<snd, rxv, txv, pc, relm, halted>>
    BY <1>11 DEF io_get_uwmbuf
  <2>3. ASSUME NEW p \in Cores, AllocUwQueue(c, p)
        PROVE  Types'
    <3>1. nofree[c][p] \in Seq(UwAll) /\ nofree[c][p] # <<>>
      BY <2>3, SMTT(30) DEF AllocUwQueue, Types
    <3>2. Head(nofree[c][p]) \in UwAll /\ Tail(nofree[c][p]) \in Seq(UwAll)
      BY <3>1, Tails
    <3>3. nofree' \in [Cores -> [Cores -> Seq(UwAll)]]
      BY <2>3, <3>2 DEF AllocUwQueue, Types
    <3>4. udata64' \in [UwAll -> {0, 2}] /\ app' \in [Mbufs -> Nat]
      BY <2>1, <2>3, <3>2 DEF AllocUwQueue
    <3> QED BY <2>2, <2>3, <3>3, <3>4 DEF AllocUwQueue, Types, rxv, txv
  <2>4. ASSUME NEW m \in Uw[c], AllocUwPool(c, m)
        PROVE  Types'
    <3>1. m \in UwAll /\ pool[m] > 0 /\ pool' = Plus(pool, m, -1)
      BY <2>4 DEF AllocUwPool
    <3>2. pool' \in [Mbufs -> Nat]
      BY <1>0, <3>1, Ups, Downs
    <3>3. udata64' \in [UwAll -> {0, 2}] /\ app' \in [Mbufs -> Nat]
      BY <2>1, <2>4, <3>1 DEF AllocUwPool
    <3> QED BY <2>2, <2>4, <3>2, <3>3 DEF AllocUwPool, Types, rxv, txv
  <2> QED BY <1>11, <2>3, <2>4 DEF io_get_uwmbuf
<1>12. ASSUME NEW c \in Cores, NEW m \in Uw[c], AppFreesUw(c, m)
       PROVE  Types'
  <2>1. m \in UwAll /\ app[m] > 0
    BY <1>12 DEF AppFreesUw
  <2>2. pool' \in [Mbufs -> Nat] /\ app' \in [Mbufs -> Nat]
    BY <1>0, <1>12, <2>1, Ups, Downs DEF AppFreesUw, ReleaseOwn
  <2>3. udata64' \in [UwAll -> {0, 2}]
    BY <1>12, <2>1 DEF AppFreesUw, ReleaseOwn, Types
  <2> QED BY <1>12, <2>2, <2>3 DEF AppFreesUw, Types, rxv, txv
<1>13. ASSUME NEW c \in Cores, NEW m \in Uw[c], AppSends(c, m)
       PROVE  Types'
  <2>1. m \in UwAll /\ app[m] > 0
    BY <1>13 DEF AppSends
  <2>2. app' \in [Mbufs -> Nat] /\ snd' \in [Mbufs -> Nat]
    BY <1>0, <1>13, <2>1, Ups, Downs DEF AppSends
  <2> QED BY <1>13, <2>2 DEF AppSends, Types, mem, rxv, txv
<1>14. ASSUME NEW c \in Cores, NEW m \in Rx, AppFreesRx(c, m)
       PROVE  Types'
  <2>1. app' \in [Mbufs -> Nat]
    <3>1. m \in Mbufs /\ app[m] > 0 /\ app' = Plus(app, m, -1)
      BY <1>14 DEF AppFreesRx
    <3> QED BY <1>0, <3>1, Downs
  <2>2. Append(rxfree[c], m) \in Seq(Rx)
    BY <1>0, Appends
  <2>3. rxfree' \in [Cores -> Seq(Rx)]
    BY <1>0, <1>14, <2>2 DEF AppFreesRx
  <2> QED BY <1>14, <2>1, <2>3 DEF AppFreesRx, Types, mem, txv
<1>15. ASSUME NEW m \in UwAll, StackReleases(m)
       PROVE  Types'
  <2>1. snd' \in [Mbufs -> Nat]
    BY <1>0, <1>15, Ups, Downs DEF StackReleases
  <2>2. udata64' \in [UwAll -> {0, 2}]
    BY <1>15 DEF StackReleases, ReleaseOwn, Types
  <2>3. pool' = pool \/ pool' = Plus(pool, m, 1)
    BY <1>15 DEF StackReleases, ReleaseOwn
  <2>4. pool' \in [Mbufs -> Nat]
    <3>1. Plus(pool, m, 1) \in [Mbufs -> Nat]
      BY <1>0, Ups
    <3> QED BY <1>0, <2>3, <3>1
  <2>5. pc' \in Places /\ (pc' = "release" => relm' \in UwAll)
    BY <1>15 DEF StackReleases, Types, Places
  <2> QED BY <1>15, <2>1, <2>2, <2>4, <2>5 DEF StackReleases, Types, rxv, txv
<1>16. CASE ReleaseEnqueue
  <2>1. relm \in UwAll /\ Owner(relm) \in Cores
    BY <1>16, Owned DEF ReleaseEnqueue, Types
  <2>2. nofree[Owner(relm)][0] \in Seq(UwAll)
    BY <2>1, SMTT(30) DEF Types
  <2>3. Append(nofree[Owner(relm)][0], relm) \in Seq(UwAll)
    BY <2>1, <2>2, Appends
  <2>4. \/ nofree' = nofree
        \/ nofree' = [nofree EXCEPT ![Owner(relm)][0] = Append(@, relm)]
    BY <1>16 DEF ReleaseEnqueue
  <2>5. nofree \in [Cores -> [Cores -> Seq(UwAll)]]
    BY DEF Types
  <2>6. nofree' \in [Cores -> [Cores -> Seq(UwAll)]]
    <3>1. [nofree EXCEPT ![Owner(relm)][0] = Append(nofree[Owner(relm)][0], relm)]
             \in [Cores -> [Cores -> Seq(UwAll)]]
      BY <2>1, <2>3, <2>5, <1>b
    <3> QED BY <2>4, <2>5, <3>1
  <2> QED BY <1>16, <2>6 DEF ReleaseEnqueue, Types, Places, rxv, txv
<1> QED BY <1>1, <1>2, <1>3, <1>4, <1>5, <1>6, <1>7, <1>8, <1>9, <1>10, <1>11, <1>12,
           <1>13, <1>14, <1>15, <1>16 DEF Next, Receive, Send, Hold

-----------------------------------------------------------------------------
LEMMA CountedStep ==
    ASSUME Types, Types', Counted, Next
    PROVE  Counted'
<1>a. rh \in Seq(Rx) /\ rl \in Seq(Rx) /\ txburst \in Seq(Tx)
  BY DEF Types
<1>b. rh' \in Seq(Rx) /\ rl' \in Seq(Rx) /\ txburst' \in Seq(Tx)
  BY DEF Types
<1>c. left \in Nat /\ sent \in Nat /\ stalled \in Nat
  BY DEF Types
<1>d. left' \in Nat /\ sent' \in Nat /\ stalled' \in Nat
  BY DEF Types
<1>0. /\ rh \in Seq(Rx) /\ rl \in Seq(Rx) /\ Len(rh) \in Nat /\ Len(rl) \in Nat
      /\ Len(rh') \in Nat /\ Len(rl') \in Nat
      /\ Len(txburst) \in Nat /\ Len(txburst') \in Nat
      /\ left \in Nat /\ sent \in Nat /\ stalled \in Nat
      /\ left' \in Nat /\ sent' \in Nat /\ stalled' \in Nat
  BY <1>a, <1>b, <1>c, <1>d, SMTT(30)
<1> USE Sizes
<1>1. ASSUME UNCHANGED <<rh, rl, left, txburst, sent, stalled, pc>>, halted' # "no_packet"
      PROVE  Counted'
  BY <1>1 DEF Counted
<1>2. ASSUME \/ \E m \in Rx, level \in {0, 1} : Arrive(m, level)
             \/ \E m \in UwAll : SendData(m)
             \/ Reap
             \/ \E c \in Cores :
                   \/ io_get_uwmbuf(c)
                   \/ \E m \in Uw[c] : AppFreesUw(c, m) \/ AppSends(c, m)
                   \/ \E m \in Rx : AppFreesRx(c, m)
      PROVE  Counted'
  <2>1. UNCHANGED <<rh, rl, left, txburst, sent, stalled, pc, halted>>
    BY <1>2 DEF Arrive, SendData, Reap, io_get_uwmbuf, AppFreesUw, AppSends, AppFreesRx, rxv, txv
  <2> QED BY <1>1, <2>1 DEF Counted
<1>3. ASSUME NEW m \in UwAll, StackReleases(m)
      PROVE  Counted'
  <2>1. /\ UNCHANGED <<rh, rl, left, txburst, sent, stalled, halted>>
        /\ pc = "loop" /\ pc' \in {"loop", "release"}
    BY <1>3 DEF StackReleases, rxv, txv
  <2> QED BY <2>1 DEF Counted
<1>4. ASSUME ReleaseEnqueue
      PROVE  Counted'
  <2>1. /\ UNCHANGED <<rh, rl, left, txburst, sent, stalled>>
        /\ pc = "release" /\ pc' = "loop" /\ halted' # "no_packet"
    BY <1>4 DEF ReleaseEnqueue, rxv, txv
  <2> QED BY <2>1 DEF Counted
<1>5. ASSUME io_recv_check
      PROVE  Counted'
  <2>1. /\ UNCHANGED <<txburst, sent, stalled, halted>>
        /\ pc = "loop" /\ pc' = IF left' > 0 THEN "recv" ELSE "loop"
        /\ left' = IF Len(rh') + Len(rl') < MAX_RECV_BATCH THEN Len(rh') + Len(rl')
                   ELSE MAX_RECV_BATCH
    BY <1>5 DEF io_recv_check, txv
  <2> QED BY <1>0, <2>1, SMTT(30) DEF Counted
<1>6. ASSUME pc = "recv", rh' = dpdk_rx_receive_one.rh, rl' = dpdk_rx_receive_one.rl,
             NextReceive
      PROVE  /\ dpdk_rx_receive_one.got # None
             /\ pc' \in {"loop", "recv"}
             /\ pc' = "recv" => left' >= 1 /\ left' <= Len(rh') + Len(rl')
  <2>1. left >= 1 /\ left <= Len(rh) + Len(rl)
    BY <1>6 DEF Counted
  <2>2. left' = left - 1 /\ pc' = IF left = 1 THEN "loop" ELSE "recv"
    BY <1>6 DEF NextReceive
  <2>3. CASE rh # <<>>
    <3>1. Head(rh) \in Rx /\ Len(Tail(rh)) = Len(rh) - 1
      BY <1>0, <2>3, Tails
    <3>2. dpdk_rx_receive_one.got = Head(rh) /\ rh' = Tail(rh) /\ rl' = rl
      BY <1>6, <2>3, Receives
    <3> QED BY <1>0, <2>1, <2>2, <3>1, <3>2, Basics, SMTT(30)
  <2>4. CASE rh = <<>> /\ rl # <<>>
    <3>1. Head(rl) \in Rx /\ Len(Tail(rl)) = Len(rl) - 1
      BY <1>0, <2>4, Tails
    <3>2. dpdk_rx_receive_one.got = Head(rl) /\ rh' = rh /\ rl' = Tail(rl)
      BY <1>6, <2>4, Receives
    <3> QED BY <1>0, <2>1, <2>2, <3>1, <3>2, Basics, SMTT(30)
  <2>5. CASE rh = <<>> /\ rl = <<>>
    BY <1>0, <2>1, <2>5, SMTT(30)
  <2> QED BY <2>3, <2>4, <2>5
<1>7. ASSUME NEW answer \in BOOLEAN, RecvDropped(answer)
      PROVE  Counted'
  <2>1. /\ pc = "recv" /\ rh' = dpdk_rx_receive_one.rh /\ rl' = dpdk_rx_receive_one.rl
        /\ NextReceive /\ UNCHANGED <<txburst, sent, stalled, halted>>
    BY <1>7 DEF RecvDropped
  <2> QED BY <1>6, <2>1 DEF Counted
<1>8. ASSUME RecvKept
      PROVE  Counted'
  <2>1. /\ pc = "recv" /\ rh' = dpdk_rx_receive_one.rh /\ rl' = dpdk_rx_receive_one.rl
        /\ NextReceive /\ UNCHANGED <<txburst, sent, stalled>>
        /\ halted' = IF dpdk_rx_receive_one.got = None THEN "no_packet" ELSE "no"
    BY <1>8 DEF RecvKept, txv
  <2> QED BY <1>6, <2>1 DEF Counted
<1>9. ASSUME io_send_check
      PROVE  Counted'
  <2>1. /\ pc = "loop" /\ pc' = "high" /\ sent' = 0
        /\ UNCHANGED <<txburst, stalled, halted>>
    BY <1>9 DEF io_send_check
  <2> QED BY <2>1 DEF Counted
<1>10. ASSUME TxMove
       PROVE  Counted'
  <2>1. /\ pc = "high" /\ th # <<>> /\ txburst' = Append(txburst, Head(th))
        /\ pc' = IF Len(txburst') >= MAX_PKT_TX_BURST THEN "burst" ELSE "high"
        /\ UNCHANGED <<sent, stalled, halted>>
    BY <1>10 DEF TxMove, BurstIsFull
  <2>2. Head(th) \in Tx
    BY <2>1, Tails DEF Types
  <2>3. Len(txburst') = Len(txburst) + 1
    BY <2>1, <2>2, Appends DEF Types
  <2> QED BY <1>0, <2>1, <2>3, SMTT(30) DEF Counted
<1>11. ASSUME TxMoved
       PROVE  Counted'
  <2>1. pc = "high" /\ pc' = "last" /\ UNCHANGED <<txburst, sent, stalled, halted>>
    BY <1>11 DEF TxMoved, txv
  <2> QED BY <2>1 DEF Counted
<1>12. ASSUME NEW k \in 0 .. Descriptors, TxBurst(k) \/ TxLast(k)
       PROVE  Counted'
  <2>1. Takes(k) /\ halted' = halted
    BY <1>12 DEF TxBurst, TxLast
  <2>2. /\ k \in Nat /\ k <= Len(txburst) /\ Len(txburst') = Len(txburst) - k /\ sent' = sent + k
    BY <2>1, Taken, DeviceAssumption, SMTT(30) DEF Takes
  <2>3. /\ pc = "burst" \/ pc = "last"
        /\ \/ /\ pc' = "loop"
              /\ stalled' = IF ~ (Len(txburst') >= MAX_PKT_TX_BURST) THEN 0
                            ELSE IF sent' = 0 THEN stalled + 1 ELSE stalled
           \/ /\ pc = "burst" /\ pc' = "high" /\ txburst' = <<>> /\ stalled' = stalled
           \/ /\ pc = "burst" /\ pc' = "burst" /\ stalled' = stalled
    BY <1>12 DEF TxBurst, TxLast, Returns, BurstIsFull
  <2>4. /\ halted' # "no_packet"
        /\ pc = "burst" /\ sent = 0 => Len(txburst) <= MAX_PKT_TX_BURST + stalled + 1
        /\ pc = "burst" /\ sent # 0 => Len(txburst) <= MAX_PKT_TX_BURST + stalled
        /\ pc = "last" /\ sent = 0 => Len(txburst) <= MAX_PKT_TX_BURST + stalled
        /\ pc = "last" /\ sent # 0 => Len(txburst) < MAX_PKT_TX_BURST
    BY <2>1 DEF Counted
  <2>5. CASE pc' = "loop"
    <3>1. stalled' = IF ~ (Len(txburst') >= MAX_PKT_TX_BURST) THEN 0
                     ELSE IF sent' = 0 THEN stalled + 1 ELSE stalled
      BY <2>3, <2>5
    <3>2. /\ sent = 0 => Len(txburst) <= MAX_PKT_TX_BURST + stalled + 1
          /\ sent # 0 => Len(txburst) <= MAX_PKT_TX_BURST + stalled
      <4>1. CASE pc = "burst"
        BY <2>4, <4>1
      <4>2. CASE pc = "last"
        BY <1>0, <2>4, <4>2, SMTT(30)
      <4> QED BY <2>3, <4>1, <4>2
    <3>3. Len(txburst') <= MAX_PKT_TX_BURST + stalled'
      BY <1>0, <2>2, <3>1, <3>2, SMTT(30)
    <3> QED BY <2>4, <2>5, <3>3 DEF Counted
  <2>6. CASE pc' = "high"
    BY <1>0, <2>2, <2>3, <2>4, <2>6, SMTT(30) DEF Counted
  <2>7. CASE pc' = "burst"
    BY <1>0, <2>2, <2>3, <2>4, <2>7, SMTT(30) DEF Counted
  <2> QED BY <2>3, <2>5, <2>6, <2>7
<1>13. CASE Receive
  BY <1>2, <1>5, <1>7, <1>8, <1>13 DEF Receive
<1>14. CASE Send
  BY <1>2, <1>9, <1>10, <1>11, <1>12, <1>14 DEF Send
<1>15. CASE Hold
  BY <1>2, <1>3, <1>4, <1>15 DEF Hold
<1> QED BY <1>13, <1>14, <1>15 DEF Next

-----------------------------------------------------------------------------
(* The steps that leave the holders of the applications' mbufs alone. *)
LEMMA Untouched ==
    ASSUME FreesExactly, Types, OneRx, Counted,
           \/ Receive \/ Send
           \/ \E c \in Cores, m \in Rx : AppFreesRx(c, m)
    PROVE  /\ udata64' = udata64 /\ nofree' = nofree /\ relm' = relm
           /\ pc # "release" => pc' # "release"
           /\ pc' # "release" => pc # "release"
           /\ halted = "no"
           /\ \A m \in UwAll : app'[m] = app[m] /\ snd'[m] = snd[m] /\ pool'[m] >= pool[m]
<1> USE Basics
<1>0. /\ pool \in [Mbufs -> Nat] /\ app \in [Mbufs -> Nat]
      /\ \A m \in Mbufs : pool[m] \in Nat
      /\ nic \in Seq(Tx)
  BY DEF Types
<1>1. ASSUME NEW m \in Rx, NEW level \in {0, 1}, Arrive(m, level)
      PROVE  \A n \in UwAll : pool'[n] >= pool[n]
  <2>1. pool' = Plus(pool, m, -1) /\ pool[m] > 0 /\ m \in Mbufs
    BY <1>1 DEF Arrive
  <2>2. \A n \in Mbufs : n # m => pool'[n] = pool[n]
    BY <1>0, <2>1 DEF Plus
  <2>3. \A n \in UwAll : pool'[n] = pool[n]
    BY <2>2
  <2> QED BY <1>0, <2>3, SMTT(30)
<1>2. ASSUME io_recv_check
      PROVE  \A n \in UwAll : pool'[n] >= pool[n]
  <2>1. \A n \in Mbufs : n \notin Rx => pool'[n] = pool[n]
    BY <1>2, CheckFrees DEF io_recv_check
  <2>2. \A n \in UwAll : pool'[n] = pool[n]
    BY <2>1
  <2> QED BY <1>0, <2>2, SMTT(30)
<1>3. ASSUME NEW answer \in BOOLEAN, RecvDropped(answer)
      PROVE  \A n \in UwAll : pool'[n] >= pool[n]
  <2>1. CASE pool' = pool
    BY <1>0, <2>1, SMTT(30)
  <2>2. ASSUME NEW m \in Sw, pool[m] > 0, pool' = Plus(pool, m, -1)
        PROVE  \A n \in UwAll : pool'[n] = pool[n]
    <3>1. m \in Mbufs /\ \A n \in UwAll : n \in Mbufs /\ n # m
      OBVIOUS
    <3> QED BY <1>0, <2>2, <3>1 DEF Plus
  <2>3. process_arp_packet(answer)
    BY <1>3 DEF RecvDropped
  <2> QED BY <1>0, <2>1, <2>2, <2>3, Replies, SMTT(30)
<1>4. ASSUME RecvKept
      PROVE  \A n \in UwAll : app'[n] = app[n]
  <2> DEFINE g == dpdk_rx_receive_one.got
  <2>1. g \in Rx \cup {None} /\ app' = IF g = None THEN app ELSE Plus(app, g, 1)
    BY <1>4, ReceivesTyped DEF RecvKept
  <2> HIDE DEF g
  <2>2. g # None => g \in Mbufs
    BY <2>1
  <2>3. \A n \in Mbufs : n # g => app'[n] = app[n]
    BY <1>0, <2>1, <2>2 DEF Plus
  <2> QED BY <2>1, <2>3
<1>5. ASSUME Reap
      PROVE  \A n \in UwAll : pool'[n] >= pool[n]
  <2>1. Head(nic) \in Tx
    BY <1>0, <1>5, Tails DEF Reap
  <2>2. pool' = pool \/ pool' = Plus(pool, Head(nic), 1)
    BY <1>5, Frees DEF Reap
  <2>3. ASSUME NEW n \in UwAll
        PROVE  pool'[n] = pool[n] \/ pool'[n] = pool[n] + 1
    <3>1. Head(nic) \in Mbufs /\ n \in Mbufs
      BY <2>1
    <3>2. /\ Plus(pool, Head(nic), 1)[Head(nic)] = pool[Head(nic)] + 1
          /\ n # Head(nic) => Plus(pool, Head(nic), 1)[n] = pool[n]
      BY <1>0, <3>1 DEF Plus
    <3> QED BY <2>2, <3>2
  <2>4. ASSUME NEW n \in UwAll
        PROVE  pool'[n] >= pool[n]
    <3>1. pool[n] \in Nat /\ (pool'[n] = pool[n] \/ pool'[n] = pool[n] + 1)
      BY <1>0, <2>3
    <3> QED BY <3>1, SMTT(30)
  <2> QED BY <2>4
<1>6. ASSUME NEW c \in Cores, NEW m \in Rx, AppFreesRx(c, m)
      PROVE  \A n \in UwAll : app'[n] = app[n]
  <2>1. app' = Plus(app, m, -1) /\ app[m] > 0
    BY <1>6 DEF AppFreesRx
  <2>2. \A n \in Mbufs : n # m => app'[n] = app[n]
    BY <1>0, <2>1 DEF Plus
  <2> QED BY <2>2
<1>7. ASSUME NEW m \in Rx, NEW level \in {0, 1}, Arrive(m, level)
      PROVE  UNCHANGED <<udata64, nofree, relm, pc, app, snd>> /\ halted = "no"
  BY <1>7 DEF Arrive
<1>8. ASSUME io_recv_check
      PROVE  /\ UNCHANGED <<udata64, nofree, relm, app, snd>> /\ halted = "no"
             /\ pc # "release" /\ pc' # "release"
  BY <1>8 DEF io_recv_check
<1>9. ASSUME NEW answer \in BOOLEAN, RecvDropped(answer)
      PROVE  /\ UNCHANGED <<udata64, nofree, relm, app, snd>> /\ halted = "no"
             /\ pc # "release" /\ pc' # "release"
  BY <1>9 DEF RecvDropped, NextReceive
<1>10. ASSUME RecvKept
       PROVE  /\ UNCHANGED <<udata64, nofree, relm, pool, snd>> /\ halted = "no"
              /\ pc # "release" /\ pc' # "release"
  BY <1>10 DEF RecvKept, NextReceive, mem
<1>11. ASSUME NEW m \in UwAll, SendData(m)
       PROVE  UNCHANGED <<udata64, nofree, relm, pc, pool, app, snd>> /\ halted = "no"
  BY <1>11 DEF SendData
<1>12. ASSUME io_send_check \/ TxMove \/ TxMoved
       PROVE  /\ UNCHANGED <<udata64, nofree, relm, pool, app, snd>> /\ halted = "no"
              /\ pc # "release" /\ pc' # "release"
  BY <1>12 DEF io_send_check, TxMove, TxMoved, mem
<1>13. ASSUME NEW k \in 0 .. Descriptors, TxBurst(k) \/ TxLast(k)
       PROVE  /\ UNCHANGED <<udata64, nofree, relm, pool, app, snd>> /\ halted = "no"
              /\ pc # "release" /\ pc' # "release"
  BY <1>13 DEF TxBurst, TxLast, Returns, mem
<1>14. ASSUME Reap
       PROVE  UNCHANGED <<udata64, nofree, relm, pc, app, snd>> /\ halted = "no"
  BY <1>14 DEF Reap
<1>15. ASSUME NEW c \in Cores, NEW m \in Rx, AppFreesRx(c, m)
       PROVE  UNCHANGED <<udata64, nofree, relm, pc, pool, snd>> /\ halted = "no"
  BY <1>15 DEF AppFreesRx, Runs, mem
<1>16. CASE Receive
  BY <1>0, <1>1, <1>2, <1>3, <1>4, <1>7, <1>8, <1>9, <1>10, <1>16, SMTT(30) DEF Receive
<1>17. CASE Send
  BY <1>0, <1>5, <1>11, <1>12, <1>13, <1>14, <1>17, SMTT(30) DEF Send
<1>18. CASE \E c \in Cores, m \in Rx : AppFreesRx(c, m)
  BY <1>0, <1>6, <1>15, <1>18, SMTT(30)
<1> QED BY <1>16, <1>17, <1>18

LEMMA UsersStep ==
    ASSUME FreesExactly, Types, Users, OneRx, Counted, Next
    PROVE  Users'
<1> USE Basics
<1>0. /\ app \in [Mbufs -> Nat] /\ snd \in [Mbufs -> Nat] /\ udata64 \in [UwAll -> {0, 2}]
      /\ \A n \in UwAll : app[n] \in Nat /\ snd[n] \in Nat
  BY DEF Types
<1>1. CASE Receive \/ Send \/ \E c \in Cores, m \in Rx : AppFreesRx(c, m)
  BY <1>1, Untouched DEF Users
<1>2. ASSUME NEW c \in Cores, io_get_uwmbuf(c)
      PROVE  Users'
  <2>1. snd' = snd
    BY <1>2 DEF io_get_uwmbuf
  <2>2. ASSUME NEW m \in UwAll, Granted(m, c)
        PROVE  Users'
    <3>1. CASE udata64[m] = 2
      <4>1. app' = app /\ udata64' = udata64
        BY <2>2, <3>1 DEF Granted, AllocKeeps
      <4> QED BY <2>1, <4>1 DEF Users
    <3>2. CASE udata64[m] # 2
      <4>1. app' = Plus(app, m, 1) /\ udata64' = [udata64 EXCEPT ![m] = 2]
        BY <2>2, <3>2 DEF Granted, AllocKeeps
      <4>2. app'[m] = app[m] + 1 /\ \A n \in UwAll : n # m => app'[n] = app[n]
        BY <1>0, <4>1 DEF Plus
      <4>3. app[m] + snd[m] = 0
        BY <1>0, <3>2, SMTT(30) DEF Users
      <4> QED BY <1>0, <2>1, <4>1, <4>2, <4>3, SMTT(30) DEF Users
    <3> QED BY <3>1, <3>2
  <2>3. ASSUME NEW p \in Cores, AllocUwQueue(c, p)
        PROVE  Users'
    <3>1. nofree[c][p] \in Seq(UwAll) /\ nofree[c][p] # <<>>
      BY <2>3, SMTT(30) DEF AllocUwQueue, Types
    <3>2. Head(nofree[c][p]) \in UwAll
      BY <3>1, Tails
    <3> QED BY <2>2, <2>3, <3>2 DEF AllocUwQueue
  <2>4. ASSUME NEW m \in Uw[c], AllocUwPool(c, m)
        PROVE  Users'
    BY <2>2, <2>4 DEF AllocUwPool
  <2> QED BY <1>2, <2>3, <2>4 DEF io_get_uwmbuf
<1>3. ASSUME NEW c \in Cores, NEW m \in Uw[c], AppFreesUw(c, m)
      PROVE  Users'
  <2>1. /\ m \in UwAll /\ app[m] > 0 /\ app' = Plus(app, m, -1) /\ snd' = snd
        /\ udata64' = [udata64 EXCEPT ![m] = 0]
    BY <1>3 DEF AppFreesUw, ReleaseOwn
  <2>2. app'[m] = app[m] - 1 /\ \A n \in UwAll : n # m => app'[n] = app[n]
    BY <1>0, <2>1 DEF Plus
  <2> QED BY <1>0, <2>1, <2>2, SMTT(30) DEF Users
<1>4. ASSUME NEW c \in Cores, NEW m \in Uw[c], AppSends(c, m)
      PROVE  Users'
  <2>1. /\ m \in UwAll /\ app[m] > 0 /\ app' = Plus(app, m, -1) /\ snd' = Plus(snd, m, 1)
        /\ udata64' = udata64
    BY <1>4 DEF AppSends, mem
  <2>2. app'[m] = app[m] - 1 /\ \A n \in UwAll : n # m => app'[n] = app[n]
    BY <1>0, <2>1 DEF Plus
  <2>3. snd'[m] = snd[m] + 1 /\ \A n \in UwAll : n # m => snd'[n] = snd[n]
    BY <1>0, <2>1 DEF Plus
  <2>4. app'[m] + snd'[m] = app[m] + snd[m]
    BY <1>0, <2>1, <2>2, <2>3, SMTT(30)
  <2> QED BY <1>0, <2>1, <2>2, <2>3, <2>4, SMTT(30) DEF Users
<1>5. ASSUME NEW m \in UwAll, StackReleases(m)
      PROVE  Users'
  <2>1. /\ snd[m] > 0 /\ snd' = Plus(snd, m, -1) /\ app' = app
        /\ udata64' = [udata64 EXCEPT ![m] = 0]
    BY <1>5 DEF StackReleases, ReleaseOwn
  <2>2. snd'[m] = snd[m] - 1 /\ \A n \in UwAll : n # m => snd'[n] = snd[n]
    BY <1>0, <2>1 DEF Plus
  <2> QED BY <1>0, <2>1, <2>2, SMTT(30) DEF Users
<1>6. CASE ReleaseEnqueue
  BY <1>6 DEF ReleaseEnqueue, Users
<1> QED BY <1>1, <1>2, <1>3, <1>4, <1>5, <1>6 DEF Next, Hold

LEMMA ReachedStep ==
    ASSUME FreesExactly, Types, Types', Users, Reached, OneRx, Counted, Next
    PROVE  Reached'
<1>a. ASSUME Types, Types', Reached, halted = "no", nofree' = nofree, relm' = relm,
             pc' # "release" => pc # "release",
             \A m \in UwAll : Total(m)' >= Total(m) \/ Total(m)' > 0
      PROVE  Reached'
  <2>0. /\ \A m \in UwAll : pool[m] \in Nat /\ app[m] \in Nat /\ snd[m] \in Nat
        /\ \A m \in UwAll : pool'[m] \in Nat /\ app'[m] \in Nat /\ snd'[m] \in Nat
    BY Basics DEF Types
  <2>1. \A m \in UwAll : Total(m) \in Nat /\ Total(m)' \in Nat
    BY <2>0, SMTT(30) DEF Total
  <2>2. \A m \in UwAll : InNofree(m)' = InNofree(m)
    BY <1>a DEF InNofree
  <2> QED BY <1>a, <2>1, <2>2, SMTT(30) DEF Reached
<1> USE Basics
<1>0. /\ pool \in [Mbufs -> Nat] /\ app \in [Mbufs -> Nat] /\ snd \in [Mbufs -> Nat]
      /\ \A n \in UwAll : pool[n] \in Nat /\ app[n] \in Nat /\ snd[n] \in Nat
      /\ \A n \in UwAll : pool'[n] \in Nat /\ app'[n] \in Nat /\ snd'[n] \in Nat
  BY DEF Types
<1>1. CASE Receive \/ Send \/ \E c \in Cores, m \in Rx : AppFreesRx(c, m)
  <2>1. /\ nofree' = nofree /\ relm' = relm /\ halted = "no" /\ (pc' # "release" => pc # "release")
        /\ \A m \in UwAll : app'[m] = app[m] /\ snd'[m] = snd[m] /\ pool'[m] >= pool[m]
    BY <1>1, Untouched
  <2>2. \A m \in UwAll : Total(m)' >= Total(m)
    BY <1>0, <2>1, SMTT(30) DEF Total
  <2> QED BY <2>1, <2>2, <1>a
<1>2. ASSUME NEW c \in Cores, io_get_uwmbuf(c)
      PROVE  Reached'
  <2>1. snd' = snd /\ relm' = relm /\ pc' = pc /\ halted = "no" /\ halted' = "no"
    BY <1>2 DEF io_get_uwmbuf, Runs
  <2>2. ASSUME NEW m \in UwAll, Granted(m, c)
        PROVE  /\ app'[m] + snd'[m] > 0
               /\ \A n \in UwAll : n # m => app'[n] = app[n]
    <3>1. CASE udata64[m] = 2
      <4>1. app' = app
        BY <2>2, <3>1 DEF Granted, AllocKeeps
      <4> QED BY <2>1, <3>1, <4>1, SMTT(30) DEF Users
    <3>2. CASE udata64[m] # 2
      <4>1. app' = Plus(app, m, 1)
        BY <2>2, <3>2 DEF Granted, AllocKeeps
      <4>2. app'[m] = app[m] + 1 /\ \A n \in UwAll : n # m => app'[n] = app[n]
        BY <1>0, <4>1 DEF Plus
      <4> QED BY <1>0, <2>1, <4>2, SMTT(30)
    <3> QED BY <3>1, <3>2
  <2>3. ASSUME NEW p \in Cores, AllocUwQueue(c, p)
        PROVE  Reached'
    <3> DEFINE q == nofree[c][p]
    <3>1. nofree \in [Cores -> [Cores -> Seq(UwAll)]]
      BY DEF Types
    <3>b. q \in Seq(UwAll) /\ q # <<>>
      BY <2>3, <3>1 DEF AllocUwQueue
    <3>a. /\ Head(q) \in UwAll /\ Head(q) = q[1]
          /\ \A i \in DOMAIN q : i = 1 \/ (i - 1 \in DOMAIN Tail(q) /\ Tail(q)[i - 1] = q[i])
      <4> HIDE DEF q
      <4> QED BY <3>b, Tails, SMTT(30)
    <3>2. PICK m \in UwAll :
          /\ m = Head(q) /\ m = q[1]
          /\ \A i \in DOMAIN q : i = 1 \/ (i - 1 \in DOMAIN Tail(q) /\ Tail(q)[i - 1] = q[i])
      <4> HIDE DEF q
      <4> QED BY <3>a
    <3>3. Granted(m, c) /\ pool' = pool /\ nofree' = [nofree EXCEPT ![c][p] = Tail(q)]
      BY <2>3, <3>2 DEF AllocUwQueue
    <3>4. nofree'[c][p] = Tail(q) /\ \A d, r \in Cores : d # c \/ r # p => nofree'[d][r] = nofree[d][r]
      <4> HIDE DEF q
      <4> QED BY <3>1, <3>3
    <3>5. ASSUME NEW n \in UwAll, n # m
          PROVE  Total(n)' = Total(n) /\ (InNofree(n) => InNofree(n)')
      <4>1. Total(n)' = Total(n)
        BY <2>1, <2>2, <3>2, <3>3, <3>5 DEF Total
      <4>2. ASSUME NEW d \in Cores, NEW r \in Cores, NEW i \in DOMAIN nofree[d][r], nofree[d][r][i] = n
            PROVE  InNofree(n)'
        <5>1. CASE d = c /\ r = p
          <6>1. i - 1 \in DOMAIN nofree'[d][r] /\ nofree'[d][r][i - 1] = n
            BY <3>2, <3>4, <3>5, <4>2, <5>1
          <6> QED BY <6>1 DEF InNofree
        <5>2. CASE d # c \/ r # p
          <6>1. nofree'[d][r] = nofree[d][r]
            BY <3>4, <5>2
          <6> QED BY <4>2, <6>1 DEF InNofree
        <5> QED BY <5>1, <5>2
      <4>3. InNofree(n) => InNofree(n)'
        BY <4>2 DEF InNofree
      <4> QED BY <4>1, <4>3
    <3>6. Total(m)' > 0
      <4>1. app'[m] + snd'[m] > 0
        BY <2>2, <3>2, <3>3
      <4>2. pool'[m] \in Nat /\ app'[m] \in Nat /\ snd'[m] \in Nat
        BY <1>0
      <4> QED BY <4>1, <4>2, SMTT(30) DEF Total
    <3> QED BY <2>1, <3>5, <3>6 DEF Reached
  <2>4. ASSUME NEW m \in Uw[c], AllocUwPool(c, m)
        PROVE  Reached'
    <3>1. m \in UwAll /\ pool[m] > 0 /\ pool' = Plus(pool, m, -1) /\ nofree' = nofree /\ Granted(m, c)
      BY <2>4 DEF AllocUwPool
    <3>2. \A n \in UwAll : n # m => pool'[n] = pool[n]
      BY <1>0, <3>1 DEF Plus
    <3>3. Total(m)' > 0
      BY <1>0, <2>2, <3>1, SMTT(30) DEF Total
    <3>4. \A n \in UwAll : n # m => Total(n)' = Total(n)
      BY <2>1, <2>2, <3>1, <3>2 DEF Total
    <3>5. \A n \in UwAll : Total(n) \in Nat
      BY <1>0, SMTT(30) DEF Total
    <3>6. \A n \in UwAll : Total(n)' >= Total(n) \/ Total(n)' > 0
      BY <3>3, <3>4, <3>5, SMTT(30)
    <3> QED BY <2>1, <3>1, <3>6, <1>a
  <2> QED BY <1>2, <2>3, <2>4 DEF io_get_uwmbuf
<1>3. ASSUME NEW c \in Cores, NEW m \in Uw[c], AppFreesUw(c, m)
      PROVE  Reached'
  <2>1. /\ m \in UwAll /\ app[m] > 0 /\ app' = Plus(app, m, -1) /\ pool' = Plus(pool, m, 1)
        /\ snd' = snd /\ nofree' = nofree /\ relm' = relm /\ pc' = pc /\ halted = "no"
    BY <1>3 DEF AppFreesUw, ReleaseOwn, Runs
  <2>2. app'[m] = app[m] - 1 /\ \A n \in UwAll : n # m => app'[n] = app[n]
    BY <1>0, <2>1 DEF Plus
  <2>3. pool'[m] = pool[m] + 1 /\ \A n \in UwAll : n # m => pool'[n] = pool[n]
    BY <1>0, <2>1 DEF Plus
  <2>4. \A n \in UwAll : Total(n)' >= Total(n)
    BY <1>0, <2>1, <2>2, <2>3, SMTT(30) DEF Total
  <2> QED BY <2>1, <2>4, <1>a
<1>4. ASSUME NEW c \in Cores, NEW m \in Uw[c], AppSends(c, m)
      PROVE  Reached'
  <2>1. /\ m \in UwAll /\ app[m] > 0 /\ app' = Plus(app, m, -1) /\ snd' = Plus(snd, m, 1)
        /\ pool' = pool /\ nofree' = nofree /\ relm' = relm /\ pc' = pc /\ halted = "no"
    BY <1>4 DEF AppSends, mem, Runs
  <2>2. app'[m] = app[m] - 1 /\ \A n \in UwAll : n # m => app'[n] = app[n]
    BY <1>0, <2>1 DEF Plus
  <2>3. snd'[m] = snd[m] + 1 /\ \A n \in UwAll : n # m => snd'[n] = snd[n]
    BY <1>0, <2>1 DEF Plus
  <2>4. \A n \in UwAll : Total(n)' >= Total(n)
    BY <1>0, <2>1, <2>2, <2>3, SMTT(30) DEF Total
  <2> QED BY <2>1, <2>4, <1>a
<1>5. ASSUME NEW m \in UwAll, StackReleases(m)
      PROVE  Reached'
  <2>1. /\ snd[m] > 0 /\ snd' = Plus(snd, m, -1) /\ app' = app /\ nofree' = nofree
        /\ pc = "loop" /\ halted = "no" /\ halted' = "no"
    BY <1>5 DEF StackReleases
  <2>2. snd'[m] = snd[m] - 1 /\ \A n \in UwAll : n # m => snd'[n] = snd[n]
    BY <1>0, <2>1 DEF Plus
  <2>3. relm = None
    BY <2>1 DEF Reached
  <2>4. CASE m \in Uw[0]
    <3>1. pool' = Plus(pool, m, 1) /\ relm' = relm /\ pc' = pc
      BY <1>5, <2>4 DEF StackReleases, ReleaseOwn
    <3>2. pool'[m] = pool[m] + 1 /\ \A n \in UwAll : n # m => pool'[n] = pool[n]
      BY <1>0, <3>1 DEF Plus
    <3>3. \A n \in UwAll : Total(n)' >= Total(n)
      BY <1>0, <2>1, <2>2, <3>2, SMTT(30) DEF Total
    <3> QED BY <2>1, <3>1, <3>3, <1>a
  <2>5. CASE m \notin Uw[0]
    <3>1. pool' = pool /\ relm' = m /\ pc' = "release"
      BY <1>5, <2>5 DEF StackReleases
    <3>2. \A n \in UwAll : n # m => Total(n)' = Total(n) /\ InNofree(n)' = InNofree(n)
      BY <2>1, <2>2, <3>1, SMTT(30) DEF Total, InNofree
    <3>3. \A n \in UwAll : n # m => Total(n) > 0 \/ InNofree(n)
      BY <2>1, <2>3 DEF Reached
    <3> QED BY <3>1, <3>2, <3>3 DEF Reached
  <2> QED BY <2>4, <2>5
<1>6. CASE ReleaseEnqueue
  <2> DEFINE c == Owner(relm)
             q == nofree[c][0]
  <2>0. /\ pc = "release" /\ halted = "no" /\ pool' = pool /\ app' = app /\ snd' = snd
        /\ relm' = None
    BY <1>6 DEF ReleaseEnqueue
  <2>a. relm \in UwAll /\ nofree \in [Cores -> [Cores -> Seq(UwAll)]]
    BY <2>0 DEF Types
  <2>b. c \in Cores
    BY <2>a, Owned
  <2>1. /\ relm \in UwAll /\ c \in Cores /\ q \in Seq(UwAll)
        /\ nofree \in [Cores -> [Cores -> Seq(UwAll)]]
    <3> HIDE DEF c
    <3> QED BY <2>a, <2>b
  <2>2. CASE Len(q) < FreeSize
    <3>1. nofree' = [nofree EXCEPT ![c][0] = Append(q, relm)]
      BY <1>6, <2>2 DEF ReleaseEnqueue
    <3>2. /\ DOMAIN q \subseteq DOMAIN Append(q, relm)
          /\ \A i \in DOMAIN q : Append(q, relm)[i] = q[i]
          /\ Len(q) + 1 \in DOMAIN Append(q, relm) /\ Append(q, relm)[Len(q) + 1] = relm
      BY <2>1, Appends, SMTT(30)
    <3>3. /\ nofree'[c][0] = Append(q, relm)
          /\ \A d, p \in Cores : d # c \/ p # 0 => nofree'[d][p] = nofree[d][p]
      <4> HIDE DEF c, q
      <4> QED BY <2>1, <3>1
    <3>4. ASSUME NEW n \in UwAll, n = relm
          PROVE  InNofree(n)'
      <4>1. PICK d \in Cores : d = c
        BY <2>1
      <4>2. Len(q) + 1 \in DOMAIN nofree'[d][0] /\ nofree'[d][0][Len(q) + 1] = n
        BY <3>2, <3>3, <3>4, <4>1
      <4> QED BY <4>2 DEF InNofree
    <3>5. ASSUME NEW n \in UwAll, InNofree(n)
          PROVE  InNofree(n)'
      <4>1. PICK d \in Cores, p \in Cores : \E i \in DOMAIN nofree[d][p] : nofree[d][p][i] = n
        BY <3>5 DEF InNofree
      <4>2. PICK i \in DOMAIN nofree[d][p] : nofree[d][p][i] = n
        BY <4>1
      <4>3. i \in DOMAIN nofree'[d][p] /\ nofree'[d][p][i] = n
        BY <3>2, <3>3, <4>2
      <4> QED BY <4>3 DEF InNofree
    <3>6. \A n \in UwAll : Total(n)' = Total(n)
      BY <2>0 DEF Total
    <3>7. \A n \in UwAll : Total(n)' > 0 \/ InNofree(n)'
      BY <2>0, <3>4, <3>5, <3>6 DEF Reached
    <3> QED BY <2>0, <3>7 DEF Reached
  <2>3. CASE ~ (Len(q) < FreeSize)
    BY <1>6, <2>0, <2>3 DEF ReleaseEnqueue, Reached
  <2> QED BY <2>2, <2>3
<1> QED BY <1>1, <1>2, <1>3, <1>4, <1>5, <1>6 DEF Next, Hold

-----------------------------------------------------------------------------
(* Applications hold their own mbufs and received packets, send buffers    *)
(* only mbufs of applications.                                             *)
LEMMA HeldByOthers ==
    ASSUME Types, Next
    PROVE  /\ \A n \in Sw : app'[n] = app[n] /\ snd'[n] = snd[n]
           /\ \A n \in Rx : snd'[n] = snd[n]
<1> USE Basics
<1>0. app \in [Mbufs -> Nat] /\ snd \in [Mbufs -> Nat]
  BY DEF Types
<1>1. ASSUME NEW m \in Mbufs, m \notin Sw, app' = Plus(app, m, 1) \/ app' = Plus(app, m, -1)
      PROVE  \A n \in Sw : app'[n] = app[n]
  BY <1>0, <1>1 DEF Plus
<1>2. ASSUME NEW m \in UwAll, snd' = Plus(snd, m, 1) \/ snd' = Plus(snd, m, -1)
      PROVE  \A n \in Sw \cup Rx : snd'[n] = snd[n]
  BY <1>0, <1>2 DEF Plus
<1>3. ASSUME \/ \E m \in Rx, level \in {0, 1} : Arrive(m, level)
             \/ io_recv_check \/ \E answer \in BOOLEAN : RecvDropped(answer)
             \/ Send \/ ReleaseEnqueue
      PROVE  app' = app /\ snd' = snd
  BY <1>3 DEF Arrive, io_recv_check, RecvDropped, Send, SendData, io_send_check, TxMove, TxMoved,
              TxBurst, TxLast, Reap, ReleaseEnqueue
<1>4. ASSUME RecvKept
      PROVE  snd' = snd /\ \A n \in Sw : app'[n] = app[n]
  <2>1. PICK g \in Rx \cup {None} : app' = IF g = None THEN app ELSE Plus(app, g, 1)
    BY <1>4, ReceivesTyped DEF RecvKept
  <2>2. snd' = snd
    BY <1>4 DEF RecvKept
  <2>3. CASE g = None
    BY <2>1, <2>2, <2>3
  <2>4. CASE g \in Rx
    BY <1>1, <2>1, <2>2, <2>4
  <2> QED BY <2>3, <2>4
<1>5. ASSUME NEW c \in Cores, io_get_uwmbuf(c)
      PROVE  snd' = snd /\ \A n \in Sw : app'[n] = app[n]
  <2>1. snd' = snd
    BY <1>5 DEF io_get_uwmbuf
  <2>2. ASSUME NEW m \in UwAll, Granted(m, c)
        PROVE  \A n \in Sw : app'[n] = app[n]
    <3>1. app' = app \/ app' = Plus(app, m, 1)
      BY <2>2 DEF Granted
    <3>2. m \in Mbufs /\ m \notin Sw
      OBVIOUS
    <3> QED BY <1>1, <3>1, <3>2
  <2>3. ASSUME NEW p \in Cores, AllocUwQueue(c, p)
        PROVE  \A n \in Sw : app'[n] = app[n]
    <3>1. nofree[c][p] \in Seq(UwAll) /\ nofree[c][p] # <<>>
      BY <2>3, SMTT(30) DEF AllocUwQueue, Types
    <3>2. Head(nofree[c][p]) \in UwAll
      BY <3>1, Tails
    <3> QED BY <2>2, <2>3, <3>2 DEF AllocUwQueue
  <2>4. ASSUME NEW m \in Uw[c], AllocUwPool(c, m)
        PROVE  \A n \in Sw : app'[n] = app[n]
    BY <2>2, <2>4 DEF AllocUwPool
  <2> QED BY <1>5, <2>1, <2>3, <2>4 DEF io_get_uwmbuf
<1>6. ASSUME NEW c \in Cores, NEW m \in Uw[c], AppFreesUw(c, m) \/ AppSends(c, m)
      PROVE  /\ \A n \in Sw : app'[n] = app[n]
             /\ \A n \in Sw \cup Rx : snd'[n] = snd[n]
  <2>1. m \in UwAll /\ m \in Mbufs /\ m \notin Sw
    BY m \in UwAll
  <2>2. app' = Plus(app, m, -1) /\ (snd' = snd \/ snd' = Plus(snd, m, 1))
    BY <1>6 DEF AppFreesUw, AppSends
  <2> QED BY <1>1, <1>2, <2>1, <2>2
<1>7. ASSUME NEW c \in Cores, NEW m \in Rx, AppFreesRx(c, m)
      PROVE  snd' = snd /\ \A n \in Sw : app'[n] = app[n]
  BY <1>1, <1>7 DEF AppFreesRx
<1>8. ASSUME NEW m \in UwAll, StackReleases(m)
      PROVE  app' = app /\ \A n \in Sw \cup Rx : snd'[n] = snd[n]
  BY <1>2, <1>8 DEF StackReleases
<1>9. CASE Receive
  BY <1>3, <1>4, <1>9 DEF Receive
<1>10. CASE Hold
  BY <1>3, <1>5, <1>6, <1>7, <1>8, <1>10 DEF Hold
<1> QED BY <1>3, <1>9, <1>10 DEF Next

LEMMA AppendPlaces ==
    ASSUME NEW S, NEW q \in Seq(S), NEW x \in S, NEW m
    PROVE  /\ Absent(q, m) /\ x # m => Absent(Append(q, x), m)
           /\ Absent(q, m) /\ x = m => Once(Append(q, x), m)
           /\ Once(q, m) /\ x # m => Once(Append(q, x), m)
<1> DEFINE a == Append(q, x)
<1>1. /\ DOMAIN q \subseteq DOMAIN a
      /\ \A i \in DOMAIN q : a[i] = q[i] /\ i # Len(q) + 1
      /\ Len(q) + 1 \in DOMAIN a /\ a[Len(q) + 1] = x
      /\ \A i \in DOMAIN a : i \in DOMAIN q \/ i = Len(q) + 1
  BY Appends
<1> HIDE DEF a
<1>2. Absent(q, m) /\ x # m => Absent(a, m)
  BY <1>1 DEF Absent
<1>3. Absent(q, m) /\ x = m => Once(a, m)
  BY <1>1 DEF Absent, Once
<1>4. Once(q, m) /\ x # m => Once(a, m)
  BY <1>1, SMTT(30) DEF Once
<1> QED BY <1>2, <1>3, <1>4 DEF a

LEMMA TailPlaces ==
    ASSUME NEW S, NEW q \in Seq(S), q # <<>>, NEW m
    PROVE  /\ Absent(q, m) => Absent(Tail(q), m) /\ Head(q) # m
           /\ Once(q, m) /\ Head(q) # m => Once(Tail(q), m)
           /\ Once(q, m) /\ Head(q) = m => Absent(Tail(q), m)
<1> DEFINE t == Tail(q)
           h == Head(q)
<1>1. /\ h = q[1] /\ 1 \in DOMAIN q
      /\ \A i \in DOMAIN t : i \in Nat /\ i + 1 # 1 /\ i + 1 \in DOMAIN q /\ t[i] = q[i + 1]
      /\ \A i \in DOMAIN q : i = 1 \/ (i - 1 \in DOMAIN t /\ t[i - 1] = q[i])
      /\ \A i \in DOMAIN q : i \in Nat
  BY Tails, SMTT(30)
<1> HIDE DEF t, h
<1>2. Absent(q, m) => Absent(t, m) /\ h # m
  BY <1>1 DEF Absent
<1>3. ASSUME Once(q, m), h # m
      PROVE  Once(t, m)
  <2>1. PICK i \in DOMAIN q : \A j \in DOMAIN q : q[j] = m <=> j = i
    BY <1>3 DEF Once
  <2>2. i - 1 \in DOMAIN t
    BY <1>1, <1>3, <2>1
  <2>3. ASSUME NEW j \in DOMAIN t
        PROVE  t[j] = m <=> j = i - 1
    <3>1. j + 1 \in DOMAIN q /\ t[j] = q[j + 1] /\ j \in Nat /\ i \in Nat
      BY <1>1, <2>1
    <3>2. q[j + 1] = m <=> j + 1 = i
      BY <2>1, <3>1
    <3> QED BY <3>1, <3>2, SMTT(30)
  <2> QED BY <2>2, <2>3 DEF Once
<1>4. Once(q, m) /\ h = m => Absent(t, m)
  BY <1>1 DEF Absent, Once
<1> QED BY <1>2, <1>3, <1>4 DEF t, h

LEMMA RingsTyped ==
    ASSUME Types
    PROVE  /\ Low \in Seq(Rx) /\ High \in Seq(Rx)
           /\ \A p \in Cores : rxfree[p] \in Seq(Rx)
<1>1. /\ nicrx[0] \in Seq(Rx) /\ nicrx[1] \in Seq(Rx) /\ rl \in Seq(Rx) /\ rh \in Seq(Rx)
      /\ rxfree \in [Cores -> Seq(Rx)]
  BY DEF Types
<1>2. Then(rl, nicrx[0]) \in Seq(Rx) /\ Then(rh, nicrx[1]) \in Seq(Rx)
  BY <1>1, Joins
<1> QED BY <1>1, <1>2 DEF Low, High

(* A step that moves other packets leaves this one where it is. *)
LEMMA SamePlace ==
    ASSUME NEW n \in Rx, RxPlace(n), pool'[n] = pool[n], app'[n] = app[n],
           Absent(Low, n) => Absent(Low', n), Once(Low, n) => Once(Low', n),
           Absent(High, n) => Absent(High', n), Once(High, n) => Once(High', n),
           \A p \in Cores : /\ Absent(rxfree[p], n) => Absent(rxfree'[p], n)
                            /\ Once(rxfree[p], n) => Once(rxfree'[p], n)
    PROVE  RxPlace(n)'
<1>1. AllFreeAbsent(n) => AllFreeAbsent(n)'
  BY DEF AllFreeAbsent
<1>2. FreedOnce(n) => FreedOnce(n)'
  BY DEF FreedOnce
<1> QED BY <1>1, <1>2 DEF RxPlace

(* The packet received leaves its ring, and the others stay. *)
LEMMA LeavesRing ==
    ASSUME Types, OneRx, NEW g \in Rx, g = dpdk_rx_receive_one.got,
           rh' = dpdk_rx_receive_one.rh, rl' = dpdk_rx_receive_one.rl, nicrx' = nicrx
    PROVE  /\ pool[g] = 0 /\ app[g] = 0 /\ AllFreeAbsent(g)
           /\ Absent(Low', g) /\ Absent(High', g)
           /\ \A n \in Rx : n # g =>
                 /\ Absent(Low, n) => Absent(Low', n)
                 /\ Once(Low, n) => Once(Low', n)
                 /\ Absent(High, n) => Absent(High', n)
                 /\ Once(High, n) => Once(High', n)
(* What receiving one packet does to the rings. *)
<1>0. ASSUME Types, rh' = dpdk_rx_receive_one.rh, rl' = dpdk_rx_receive_one.rl, nicrx' = nicrx,
             dpdk_rx_receive_one.got # None
      PROVE  \/ /\ High # <<>> /\ dpdk_rx_receive_one.got = Head(High)
                /\ High' = Tail(High) /\ Low' = Low
             \/ /\ Low # <<>> /\ dpdk_rx_receive_one.got = Head(Low)
                /\ Low' = Tail(Low) /\ High' = High
  <2>0. ASSUME NEW S, NEW a \in Seq(S), NEW b \in Seq(S), a # <<>>
        PROVE  /\ Then(a, b) # <<>> /\ Head(Then(a, b)) = Head(a)
               /\ Tail(Then(a, b)) = Then(Tail(a), b)
    BY <2>0, SMTT(30) DEF Then
  <2>1. /\ nicrx[0] \in Seq(Rx) /\ nicrx[1] \in Seq(Rx) /\ rl \in Seq(Rx) /\ rh \in Seq(Rx)
    BY DEF Types
  <2>2. rl # <<>> => /\ Then(rl, nicrx[0]) # <<>> /\ Head(Then(rl, nicrx[0])) = Head(rl)
                     /\ Tail(Then(rl, nicrx[0])) = Then(Tail(rl), nicrx[0])
    BY <2>1, <2>0
  <2>3. rh # <<>> => /\ Then(rh, nicrx[1]) # <<>> /\ Head(Then(rh, nicrx[1])) = Head(rh)
                     /\ Tail(Then(rh, nicrx[1])) = Then(Tail(rh), nicrx[1])
    BY <2>1, <2>0
  <2> QED BY <1>0, <2>2, <2>3, Receives DEF Low, High
<1>1. Low \in Seq(Rx) /\ High \in Seq(Rx) /\ g # None
  BY RingsTyped, Basics
<1>2. RxPlace(g)
  BY DEF OneRx
<1>3. CASE High # <<>> /\ g = Head(High) /\ High' = Tail(High) /\ Low' = Low
  <2>1. \A n \in Rx : /\ Absent(High, n) => Absent(High', n) /\ g # n
                      /\ Once(High, n) /\ g # n => Once(High', n)
                      /\ Once(High, n) /\ g = n => Absent(High', n)
    BY <1>1, <1>3, TailPlaces
  <2>2. pool[g] = 0 /\ app[g] = 0 /\ AllFreeAbsent(g) /\ Once(High, g) /\ Absent(Low, g)
    BY <1>2, <2>1 DEF RxPlace
  <2> QED BY <1>3, <2>1, <2>2
<1>4. CASE Low # <<>> /\ g = Head(Low) /\ Low' = Tail(Low) /\ High' = High
  <2>1. \A n \in Rx : /\ Absent(Low, n) => Absent(Low', n) /\ g # n
                      /\ Once(Low, n) /\ g # n => Once(Low', n)
                      /\ Once(Low, n) /\ g = n => Absent(Low', n)
    BY <1>1, <1>4, TailPlaces
  <2>2. pool[g] = 0 /\ app[g] = 0 /\ AllFreeAbsent(g) /\ Once(Low, g) /\ Absent(High, g)
    BY <1>2, <2>1 DEF RxPlace
  <2> QED BY <1>4, <2>1, <2>2
<1> QED BY <1>1, <1>3, <1>4, <1>0

(* A packet put into an rxfree_queue is in that queue only. *)
LEMMA JoinsFree ==
    ASSUME Types, NEW c \in Cores, NEW m \in Rx, rxfree' = [rxfree EXCEPT ![c] = Append(@, m)]
    PROVE  /\ AllFreeAbsent(m) => FreedOnce(m)'
           /\ \A n \in Rx : n # m => \A p \in Cores :
                 /\ Absent(rxfree[p], n) => Absent(rxfree'[p], n)
                 /\ Once(rxfree[p], n) => Once(rxfree'[p], n)
<1>1. rxfree \in [Cores -> Seq(Rx)] /\ rxfree[c] \in Seq(Rx)
  BY DEF Types
<1>2. rxfree'[c] = Append(rxfree[c], m) /\ \A p \in Cores : p # c => rxfree'[p] = rxfree[p]
  BY <1>1
<1>3. /\ Absent(rxfree[c], m) => Once(rxfree'[c], m)
      /\ \A n \in Rx : n # m => /\ Absent(rxfree[c], n) => Absent(rxfree'[c], n)
                                /\ Once(rxfree[c], n) => Once(rxfree'[c], n)
  <2>1. ASSUME NEW n
        PROVE  /\ Absent(rxfree[c], n) /\ m # n => Absent(Append(rxfree[c], m), n)
               /\ Absent(rxfree[c], n) /\ m = n => Once(Append(rxfree[c], m), n)
               /\ Once(rxfree[c], n) /\ m # n => Once(Append(rxfree[c], m), n)
    BY <1>1, AppendPlaces
  <2> QED BY <1>2, <2>1
<1> QED BY <1>2, <1>3 DEF AllFreeAbsent, FreedOnce

LEMMA HeldOnce ==
    ASSUME NEW m, RxPlace(m), pool[m] \in Nat, app[m] \in Nat
    PROVE  /\ pool[m] > 0 \/ app[m] > 0 =>
                 Absent(Low, m) /\ Absent(High, m) /\ AllFreeAbsent(m)
           /\ pool[m] > 0 => pool[m] = 1 /\ app[m] = 0
           /\ app[m] > 0 => pool[m] = 0 /\ app[m] = 1
<1>1. \/ /\ pool[m] + app[m] = 1
         /\ Absent(Low, m) /\ Absent(High, m) /\ AllFreeAbsent(m)
      \/ pool[m] = 0 /\ app[m] = 0
  BY DEF RxPlace
<1> QED BY <1>1, SMTT(30)

LEMMA OneRxStep ==
    ASSUME FreesExactly, Types, OneRx, Next
    PROVE  OneRx'
<1> USE Basics
<1>0. /\ pool \in [Mbufs -> Nat] /\ app \in [Mbufs -> Nat]
      /\ \A n \in Rx : snd'[n] = 0 /\ RxPlace(n) /\ pool[n] \in Nat /\ app[n] \in Nat
  BY HeldByOthers DEF Types, OneRx
<1>1. ASSUME UNCHANGED <<nicrx, rh, rl, rxfree>>,
             \A n \in Rx : pool'[n] = pool[n] /\ app'[n] = app[n]
      PROVE  OneRx'
  <2>1. Low' = Low /\ High' = High
    BY <1>1 DEF Low, High
  <2> QED BY <1>0, <1>1, <2>1, SamePlace DEF OneRx
<1>2. ASSUME NEW m \in Mbufs, m \notin Rx, pool' = Plus(pool, m, 1) \/ pool' = Plus(pool, m, -1)
      PROVE  \A n \in Rx : pool'[n] = pool[n]
  BY <1>0, <1>2 DEF Plus
<1>3. ASSUME NEW m \in Mbufs, m \notin Rx, app' = Plus(app, m, 1) \/ app' = Plus(app, m, -1)
      PROVE  \A n \in Rx : app'[n] = app[n]
  BY <1>0, <1>3 DEF Plus
<1>4. ASSUME NEW m \in Rx, NEW level \in {0, 1}, Arrive(m, level)
      PROVE  OneRx'
  <2>1. /\ pool[m] > 0 /\ pool' = Plus(pool, m, -1) /\ app' = app
        /\ nicrx' = [nicrx EXCEPT ![level] = Append(@, m)] /\ rh' = rh /\ rl' = rl /\ rxfree' = rxfree
    BY <1>4 DEF Arrive
  <2>2. pool'[m] = pool[m] - 1 /\ \A n \in Rx : n # m => pool'[n] = pool[n]
    BY <1>0, <2>1 DEF Plus
  <2>3. /\ pool[m] = 1 /\ app[m] = 0
        /\ Absent(Low, m) /\ Absent(High, m) /\ AllFreeAbsent(m)
    BY <1>0, <2>1, HeldOnce
  <2>4. Low \in Seq(Rx) /\ High \in Seq(Rx)
    BY RingsTyped
  <2>5. /\ level = 0 => Low' = Append(Low, m) /\ High' = High
        /\ level = 1 => High' = Append(High, m) /\ Low' = Low
    <3>1. /\ nicrx[0] \in Seq(Rx) /\ nicrx[1] \in Seq(Rx) /\ rl \in Seq(Rx) /\ rh \in Seq(Rx)
          /\ nicrx \in [{0, 1} -> Seq(Rx)]
      BY DEF Types
    <3>2. Then(rl, Append(nicrx[0], m)) = Append(Then(rl, nicrx[0]), m)
      BY <3>1, Joins, SMTT(30)
    <3>3. Then(rh, Append(nicrx[1], m)) = Append(Then(rh, nicrx[1]), m)
      BY <3>1, Joins, SMTT(30)
    <3>4. /\ level = 0 => nicrx'[0] = Append(nicrx[0], m) /\ nicrx'[1] = nicrx[1]
          /\ level = 1 => nicrx'[1] = Append(nicrx[1], m) /\ nicrx'[0] = nicrx[0]
      BY <2>1, <3>1, SMTT(30)
    <3> QED BY <2>1, <3>2, <3>3, <3>4 DEF Low, High
  <2>6. ASSUME NEW q \in Seq(Rx)
        PROVE  /\ Absent(q, m) => Once(Append(q, m), m)
               /\ \A n \in Rx : n # m => /\ Absent(q, n) => Absent(Append(q, m), n)
                                         /\ Once(q, n) => Once(Append(q, m), n)
    BY AppendPlaces
  <2>7. /\ \A n \in Rx : n # m => /\ Absent(Low, n) => Absent(Low', n)
                                  /\ Once(Low, n) => Once(Low', n)
                                  /\ Absent(High, n) => Absent(High', n)
                                  /\ Once(High, n) => Once(High', n)
        /\ \/ Once(Low', m) /\ Absent(High', m)
           \/ Absent(Low', m) /\ Once(High', m)
    <3>1. CASE level = 0
      BY <2>3, <2>4, <2>5, <2>6, <3>1
    <3>2. CASE level = 1
      BY <2>3, <2>4, <2>5, <2>6, <3>2
    <3> QED BY <3>1, <3>2
  <2>8. AllFreeAbsent(m)'
    BY <2>1, <2>3 DEF AllFreeAbsent
  <2>9. RxPlace(m)'
    <3>1. pool'[m] = 0
      BY <2>2, <2>3, SMTT(30)
    <3>2. app'[m] = 0
      BY <2>1, <2>3
    <3> QED BY <2>7, <2>8, <3>1, <3>2 DEF RxPlace
  <2>10. \A n \in Rx : n # m => RxPlace(n)'
    BY <1>0, <2>1, <2>2, <2>7, SamePlace
  <2> QED BY <1>0, <2>9, <2>10 DEF OneRx
<1>5. ASSUME io_recv_check
      PROVE  OneRx'
  <2>1. /\ dpdk_check_rx_ring /\ app' = app
        /\ rl' = Then(rl, nicrx[0]) /\ rh' = Then(rh, nicrx[1])
        /\ rxfree' = [p \in Cores |-> <<>>] /\ nicrx' = [level \in {0, 1} |-> <<>>]
    BY <1>5 DEF io_recv_check, dpdk_check_rx_ring, OfLevel, Then
  <2>2. Low' = Low /\ High' = High
    <3>1. /\ nicrx[0] \in Seq(Rx) /\ nicrx[1] \in Seq(Rx) /\ rl \in Seq(Rx) /\ rh \in Seq(Rx)
      BY DEF Types
    <3>2. Then(Then(rl, nicrx[0]), <<>>) = Then(rl, nicrx[0])
      BY <3>1, Joins, SMTT(30)
    <3>3. Then(Then(rh, nicrx[1]), <<>>) = Then(rh, nicrx[1])
      BY <3>1, Joins, SMTT(30)
    <3>4. nicrx'[0] = <<>> /\ nicrx'[1] = <<>>
      BY <2>1
    <3> QED BY <2>1, <3>2, <3>3, <3>4 DEF Low, High
  <2>3. \A n \in Rx : AllFreeAbsent(n)'
    BY <2>1, SMTT(30) DEF AllFreeAbsent, Absent
  <2>4. \A n \in Rx : /\ AllFreeAbsent(n) => pool'[n] = pool[n]
                      /\ FreedOnce(n) => pool'[n] = pool[n] + 1
    BY <2>1, CheckFrees
  <2>5. ASSUME NEW n \in Rx
        PROVE  RxPlace(n)'
    <3>1. RxPlace(n) /\ pool[n] \in Nat /\ app[n] \in Nat /\ app'[n] = app[n]
      BY <1>0, <2>1
    <3> QED BY <2>2, <2>3, <2>4, <3>1, SMTT(30) DEF RxPlace
  <2> QED BY <1>0, <2>5 DEF OneRx
<1>6. ASSUME NEW answer \in BOOLEAN, RecvDropped(answer)
      PROVE  OneRx'
  <2>1. PICK g \in Rx : g = dpdk_rx_receive_one.got
    BY <1>6, ReceivesTyped DEF RecvDropped
  <2>2. /\ rh' = dpdk_rx_receive_one.rh /\ rl' = dpdk_rx_receive_one.rl /\ nicrx' = nicrx
        /\ rxfree' = [rxfree EXCEPT ![0] = Append(@, g)] /\ app' = app
        /\ process_arp_packet(answer)
    BY <1>6, <2>1 DEF RecvDropped
  <2>3. /\ pool[g] = 0 /\ app[g] = 0 /\ AllFreeAbsent(g)
        /\ Absent(Low', g) /\ Absent(High', g)
        /\ \A n \in Rx : n # g =>
              /\ Absent(Low, n) => Absent(Low', n)
              /\ Once(Low, n) => Once(Low', n)
              /\ Absent(High, n) => Absent(High', n)
              /\ Once(High, n) => Once(High', n)
    BY <2>1, <2>2, LeavesRing
  <2>4. /\ FreedOnce(g)'
        /\ \A n \in Rx : n # g => \A p \in Cores :
              /\ Absent(rxfree[p], n) => Absent(rxfree'[p], n)
              /\ Once(rxfree[p], n) => Once(rxfree'[p], n)
    BY <2>2, <2>3, JoinsFree
  <2>5. \A n \in Rx : pool'[n] = pool[n]
    BY <1>2, <2>2, Replies
  <2>6. RxPlace(g)'
    BY <2>2, <2>3, <2>4, <2>5 DEF RxPlace
  <2>7. \A n \in Rx : n # g => RxPlace(n)'
    BY <1>0, <2>2, <2>3, <2>4, <2>5, SamePlace
  <2> QED BY <1>0, <2>6, <2>7 DEF OneRx
<1>7. ASSUME RecvKept
      PROVE  OneRx'
  <2>1. /\ rh' = dpdk_rx_receive_one.rh /\ rl' = dpdk_rx_receive_one.rl /\ nicrx' = nicrx
        /\ rxfree' = rxfree /\ pool' = pool
        /\ app' = IF dpdk_rx_receive_one.got = None THEN app ELSE Plus(app, dpdk_rx_receive_one.got, 1)
    BY <1>7 DEF RecvKept, mem
  <2>2. CASE dpdk_rx_receive_one.got = None
    <3>1. rh' = rh /\ rl' = rl /\ app' = app
      <4>1. \/ dpdk_rx_receive_one.got \in Rx
            \/ dpdk_rx_receive_one.rh = rh /\ dpdk_rx_receive_one.rl = rl
        <5>1. /\ rh # <<>> => Head(rh) \in Rx
              /\ rl # <<>> => Head(rl) \in Rx
          BY Tails DEF Types
        <5> QED BY <5>1, Receives
      <4> QED BY <2>1, <2>2, <4>1
    <3> QED BY <1>1, <2>1, <3>1
  <2>3. CASE dpdk_rx_receive_one.got # None
    <3>1. PICK g \in Rx : g = dpdk_rx_receive_one.got
      BY <2>3, ReceivesTyped
    <3>2. /\ pool[g] = 0 /\ app[g] = 0 /\ AllFreeAbsent(g)
          /\ Absent(Low', g) /\ Absent(High', g)
          /\ \A n \in Rx : n # g =>
                /\ Absent(Low, n) => Absent(Low', n)
                /\ Once(Low, n) => Once(Low', n)
                /\ Absent(High, n) => Absent(High', n)
                /\ Once(High, n) => Once(High', n)
      BY <2>1, <3>1, LeavesRing
    <3>3. app' = Plus(app, g, 1)
      BY <2>1, <2>3, <3>1
    <3>4. app'[g] = 1 /\ \A n \in Rx : n # g => app'[n] = app[n]
      BY <1>0, <3>2, <3>3, SMTT(30) DEF Plus
    <3>5. AllFreeAbsent(g)'
      BY <2>1, <3>2 DEF AllFreeAbsent
    <3>a. pool'[g] + app'[g] = 1
      <4>1. pool'[g] = 0 /\ app'[g] = 1
        BY <2>1, <3>2, <3>4
      <4> QED BY <4>1, SMTT(30)
    <3>6. RxPlace(g)'
      BY <2>1, <3>2, <3>5, <3>a DEF RxPlace
    <3>7. \A n \in Rx : n # g => RxPlace(n)'
      BY <1>0, <2>1, <3>2, <3>4, SamePlace
    <3> QED BY <1>0, <3>6, <3>7 DEF OneRx
  <2> QED BY <2>2, <2>3
<1>8. ASSUME NEW c \in Cores, NEW m \in Rx, AppFreesRx(c, m)
      PROVE  OneRx'
  <2>1. /\ app[m] > 0 /\ app' = Plus(app, m, -1) /\ pool' = pool /\ UNCHANGED <<nicrx, rh, rl>>
        /\ rxfree' = [rxfree EXCEPT ![c] = Append(@, m)]
    BY <1>8 DEF AppFreesRx, mem
  <2>2. Low' = Low /\ High' = High
    BY <2>1 DEF Low, High
  <2>3. /\ pool[m] = 0 /\ app[m] = 1
        /\ Absent(Low, m) /\ Absent(High, m) /\ AllFreeAbsent(m)
    BY <1>0, <2>1, HeldOnce
  <2>4. /\ FreedOnce(m)'
        /\ \A n \in Rx : n # m => \A p \in Cores :
              /\ Absent(rxfree[p], n) => Absent(rxfree'[p], n)
              /\ Once(rxfree[p], n) => Once(rxfree'[p], n)
    BY <2>1, <2>3, JoinsFree
  <2>5. app'[m] = 0 /\ \A n \in Rx : n # m => app'[n] = app[n]
    BY <1>0, <2>1, <2>3, SMTT(30) DEF Plus
  <2>6. RxPlace(m)'
    BY <2>1, <2>2, <2>3, <2>4, <2>5 DEF RxPlace
  <2>7. \A n \in Rx : n # m => RxPlace(n)'
    BY <1>0, <2>1, <2>2, <2>4, <2>5, SamePlace
  <2> QED BY <1>0, <2>6, <2>7 DEF OneRx
<1>9. ASSUME Send
      PROVE  OneRx'
  <2>1. app' = app /\ UNCHANGED <<nicrx, rh, rl, rxfree>>
    BY <1>9 DEF Send, SendData, io_send_check, TxMove, TxMoved, TxBurst, TxLast, Reap, rxv
  <2>2. ASSUME Reap
        PROVE  \A n \in Rx : pool'[n] = pool[n]
    <3>1. nic \in Seq(Tx) /\ nic # <<>> /\ rte_pktmbuf_free(Head(nic))
      BY <2>2 DEF Reap, Types
    <3>2. Head(nic) \in Tx
      BY <3>1, Tails
    <3>3. Head(nic) \in Mbufs /\ Head(nic) \notin Rx
      BY <3>2
    <3>4. pool' = pool \/ pool' = Plus(pool, Head(nic), 1)
      BY <3>1, Frees
    <3> QED BY <1>2, <3>3, <3>4
  <2>3. Reap \/ pool' = pool
    BY <1>9 DEF Send, SendData, io_send_check, TxMove, TxMoved, TxBurst, TxLast, mem
  <2> QED BY <1>1, <2>1, <2>2, <2>3
<1>10. ASSUME NEW c \in Cores, io_get_uwmbuf(c)
       PROVE  OneRx'
  <2>1. UNCHANGED <<nicrx, rh, rl, rxfree>>
    BY <1>10 DEF io_get_uwmbuf, rxv
  <2>2. ASSUME NEW m \in UwAll, Granted(m, c)
        PROVE  \A n \in Rx : app'[n] = app[n]
    <3>1. app' = app \/ app' = Plus(app, m, 1)
      BY <2>2 DEF Granted
    <3>2. m \in Mbufs /\ m \notin Rx
      OBVIOUS
    <3> QED BY <1>3, <3>1, <3>2
  <2>3. ASSUME NEW p \in Cores, AllocUwQueue(c, p)
        PROVE  OneRx'
    <3>1. nofree[c][p] \in Seq(UwAll) /\ nofree[c][p] # <<>>
      BY <2>3, SMTT(30) DEF AllocUwQueue, Types
    <3>2. Head(nofree[c][p]) \in UwAll
      BY <3>1, Tails
    <3>3. pool' = pool /\ \A n \in Rx : app'[n] = app[n]
      BY <2>2, <2>3, <3>2 DEF AllocUwQueue
    <3> QED BY <1>1, <2>1, <3>3
  <2>4. ASSUME NEW m \in Uw[c], AllocUwPool(c, m)
        PROVE  OneRx'
    <3>1. m \in UwAll /\ m \in Mbufs /\ m \notin Rx
      BY m \in UwAll
    <3>2. pool' = Plus(pool, m, -1) /\ Granted(m, c)
      BY <2>4 DEF AllocUwPool
    <3>3. \A n \in Rx : pool'[n] = pool[n] /\ app'[n] = app[n]
      BY <1>2, <2>2, <3>1, <3>2
    <3> QED BY <1>1, <2>1, <3>3
  <2> QED BY <1>10, <2>3, <2>4 DEF io_get_uwmbuf
<1>11. ASSUME NEW c \in Cores, NEW m \in Uw[c], AppFreesUw(c, m) \/ AppSends(c, m)
       PROVE  OneRx'
  <2>1. m \in UwAll /\ m \in Mbufs /\ m \notin Rx
    BY m \in UwAll
  <2>2. UNCHANGED <<nicrx, rh, rl, rxfree>>
    BY <1>11 DEF AppFreesUw, AppSends, rxv
  <2>3. app' = Plus(app, m, -1) /\ (pool' = pool \/ pool' = Plus(pool, m, 1))
    BY <1>11 DEF AppFreesUw, AppSends, ReleaseOwn, mem
  <2>4. \A n \in Rx : pool'[n] = pool[n] /\ app'[n] = app[n]
    BY <1>2, <1>3, <2>1, <2>3
  <2> QED BY <1>1, <2>2, <2>4
<1>12. ASSUME NEW m \in UwAll, StackReleases(m)
       PROVE  OneRx'
  <2>1. m \in Mbufs /\ m \notin Rx
    OBVIOUS
  <2>2. app' = app /\ UNCHANGED <<nicrx, rh, rl, rxfree>>
    BY <1>12 DEF StackReleases, rxv
  <2>3. pool' = pool \/ pool' = Plus(pool, m, 1)
    BY <1>12 DEF StackReleases, ReleaseOwn
  <2> QED BY <1>1, <1>2, <2>1, <2>2, <2>3
<1>13. ASSUME ReleaseEnqueue
       PROVE  OneRx'
  BY <1>1, <1>13 DEF ReleaseEnqueue, rxv
<1>14. CASE Receive
  BY <1>4, <1>5, <1>6, <1>7, <1>14 DEF Receive
<1>15. CASE Hold
  BY <1>8, <1>10, <1>11, <1>12, <1>13, <1>15 DEF Hold
<1> QED BY <1>9, <1>14, <1>15 DEF Next

-----------------------------------------------------------------------------
LEMMA Ends ==
    ASSUME NEW S, NEW a \in Seq(S), NEW b \in Seq(S), NEW t \in Seq(S)
    PROVE  /\ Joined(a, b, t) \in Seq(S)
           /\ \A x \in S : Joined(a, b, Append(t, x)) = Append(Joined(a, b, t), x)
           /\ a # <<>> => /\ Joined(a, b, t) # <<>> /\ Head(Joined(a, b, t)) = Head(a)
                          /\ Tail(Joined(a, b, t)) = Joined(Tail(a), b, t)
<1>0. b \o t \in Seq(S)
  BY SMTT(30)
<1>1. PICK c \in Seq(S) : c = b \o t
  BY <1>0
<1>2. ASSUME NEW x \in S
      PROVE  a \o (b \o Append(t, x)) = Append(a \o c, x)
  <2>0. Append(c, x) \in Seq(S)
    BY SMTT(30)
  <2>1. PICK d \in Seq(S) : d = Append(c, x)
    BY <2>0
  <2>2. b \o Append(t, x) = d
    BY <1>1, <2>1, SMTT(30)
  <2>3. a \o d = Append(a \o c, x)
    BY <2>1, SMTT(30)
  <2> QED BY <2>2, <2>3
<1>3. a # <<>> => a \o c # <<>> /\ Head(a \o c) = Head(a) /\ Tail(a \o c) = Tail(a) \o c
  BY SMTT(30)
<1>4. Joined(a, b, t) = a \o c /\ Joined(Tail(a), b, t) = Tail(a) \o c
  BY <1>1 DEF Joined
<1>5. a \o c \in Seq(S)
  BY SMTT(30)
<1>6. \A x \in S : Joined(a, b, Append(t, x)) = Append(Joined(a, b, t), x)
  BY <1>2, <1>4 DEF Joined
<1> QED BY <1>3, <1>4, <1>5, <1>6

LEMMA OutTyped ==
    ASSUME Types
    PROVE  Out \in Seq(Tx)
<1>1. nic \in Seq(Tx) /\ txburst \in Seq(Tx) /\ th \in Seq(Tx)
  BY DEF Types
<1> QED BY <1>1, Ends DEF Out

LEMMA OutMoves ==
    ASSUME Types
    PROVE  /\ th # <<>> => Joined(nic, Append(txburst, Head(th)), Tail(th)) = Joined(nic, txburst, th)
           /\ nic # <<>> => /\ Joined(nic, txburst, th) # <<>>
                            /\ Head(Joined(nic, txburst, th)) = Head(nic)
                            /\ Tail(Joined(nic, txburst, th)) = Joined(Tail(nic), txburst, th)
<1>0. ASSUME NEW S, NEW a \in Seq(S), NEW b \in Seq(S), NEW t \in Seq(S), t # <<>>
      PROVE  Joined(a, Append(b, Head(t)), Tail(t)) = Joined(a, b, t)
  <2>1. Append(b, Head(t)) \o Tail(t) = b \o t
    BY <1>0, SMTT(30)
  <2> QED BY <2>1 DEF Joined
<1>1. nic \in Seq(Tx) /\ txburst \in Seq(Tx) /\ th \in Seq(Tx)
  BY DEF Types
<1>2. th # <<>> => Joined(nic, Append(txburst, Head(th)), Tail(th)) = Joined(nic, txburst, th)
  BY <1>1, <1>0
<1>3. nic # <<>> => /\ Joined(nic, txburst, th) # <<>>
                    /\ Head(Joined(nic, txburst, th)) = Head(nic)
                    /\ Tail(Joined(nic, txburst, th)) = Joined(Tail(nic), txburst, th)
  BY <1>1, Ends, SMTT(30)
<1> QED BY <1>2, <1>3

(* What each step does to the queue of the packets to send. *)
LEMMA OutSteps ==
    ASSUME FreesExactly, Types, OneRx, Next
    PROVE  \/ Out' = Out /\ \A n \in Sw : pool'[n] = pool[n]
           \/ \E m \in UwAll : Out' = Append(Out, m) /\ \A n \in Sw : pool'[n] = pool[n]
           \/ \E m \in Sw : /\ pool[m] > 0 /\ pool' = Plus(pool, m, -1)
                            /\ Out' = Append(Out, m)
           \/ /\ Out # <<>> /\ Out' = Tail(Out)
              /\ Head(Out) \in Sw => pool' = Plus(pool, Head(Out), 1)
              /\ \A n \in Sw : n # Head(Out) => pool'[n] = pool[n]
<1> USE Basics
<1>0. /\ pool \in [Mbufs -> Nat] /\ nic \in Seq(Tx) /\ txburst \in Seq(Tx) /\ th \in Seq(Tx)
  BY DEF Types
<1>1. ASSUME NEW m \in Tx, th' = Append(th, m), nic' = nic, txburst' = txburst
      PROVE  Out' = Append(Out, m)
  <2>1. Joined(nic, txburst, Append(th, m)) = Append(Joined(nic, txburst, th), m)
    BY <1>0, Ends, SMTT(30)
  <2> QED BY <1>1, <2>1 DEF Out
<1>2. ASSUME UNCHANGED <<th, txburst, nic>>
      PROVE  Out' = Out
  BY <1>2 DEF Out
<1>3. ASSUME NEW m \in Mbufs, m \notin Sw, pool' = Plus(pool, m, 1) \/ pool' = Plus(pool, m, -1)
      PROVE  \A n \in Sw : pool'[n] = pool[n]
  BY <1>0, <1>3 DEF Plus
<1>4. ASSUME NEW m \in Rx, NEW level \in {0, 1}, Arrive(m, level)
      PROVE  Out' = Out /\ \A n \in Sw : pool'[n] = pool[n]
  <2>1. pool' = Plus(pool, m, -1) /\ UNCHANGED <<th, txburst, nic>>
    BY <1>4 DEF Arrive, txv
  <2>2. m \in Mbufs /\ m \notin Sw
    OBVIOUS
  <2> QED BY <1>2, <1>3, <2>1, <2>2
<1>5. ASSUME io_recv_check
      PROVE  Out' = Out /\ \A n \in Sw : pool'[n] = pool[n]
  <2>1. UNCHANGED <<th, txburst, nic>>
    BY <1>5 DEF io_recv_check, txv
  <2>2. \A n \in Mbufs : n \notin Rx => pool'[n] = pool[n]
    BY <1>5, CheckFrees DEF io_recv_check
  <2> QED BY <1>2, <2>1, <2>2
<1>6. ASSUME NEW answer \in BOOLEAN, RecvDropped(answer)
      PROVE  \/ Out' = Out /\ pool' = pool
             \/ \E m \in Sw : /\ pool[m] > 0 /\ pool' = Plus(pool, m, -1)
                              /\ Out' = Append(Out, m)
  <2>1. process_arp_packet(answer) /\ nic' = nic /\ txburst' = txburst
    BY <1>6 DEF RecvDropped
  <2>2. \A m \in Sw : m \in Tx
    BY DEF Tx
  <2> QED BY <1>1, <1>2, <2>1, <2>2, Replies
<1>7. ASSUME RecvKept \/ io_send_check \/ TxMoved
      PROVE  Out' = Out /\ pool' = pool
  <2>1. UNCHANGED <<th, txburst, nic, pool>>
    BY <1>7 DEF RecvKept, io_send_check, TxMoved, mem, txv
  <2> QED BY <1>2, <2>1
<1>8. ASSUME NEW m \in UwAll, SendData(m)
      PROVE  Out' = Append(Out, m) /\ pool' = pool
  <2>1. th' = Append(th, m) /\ nic' = nic /\ txburst' = txburst /\ pool' = pool
    BY <1>8 DEF SendData, dpdk_tx_send
  <2>2. m \in Tx
    BY DEF Tx
  <2> QED BY <1>1, <2>1, <2>2
<1>9. ASSUME TxMove
      PROVE  Out' = Out /\ pool' = pool
  <2>1. /\ th # <<>> /\ txburst' = Append(txburst, Head(th)) /\ th' = Tail(th)
        /\ nic' = nic /\ pool' = pool
    BY <1>9 DEF TxMove, mem
  <2>2. Joined(nic, Append(txburst, Head(th)), Tail(th)) = Joined(nic, txburst, th)
    BY <2>1, OutMoves
  <2> QED BY <2>1, <2>2 DEF Out
<1>10. ASSUME NEW k \in 0 .. Descriptors, TxBurst(k) \/ TxLast(k)
       PROVE  Out' = Out /\ pool' = pool
  <2>1. Takes(k) /\ th' = th /\ pool' = pool
    BY <1>10 DEF TxBurst, TxLast, mem
  <2>2. Joined(nic', txburst', th) = Out
    BY <2>1, Taken
  <2> QED BY <2>1, <2>2 DEF Out
<1>11. ASSUME Reap
       PROVE  /\ Out # <<>> /\ Out' = Tail(Out)
              /\ Head(Out) \in Sw => pool' = Plus(pool, Head(Out), 1)
              /\ \A n \in Sw : n # Head(Out) => pool'[n] = pool[n]
  <2>1. nic # <<>> /\ nic' = Tail(nic) /\ th' = th /\ txburst' = txburst /\ rte_pktmbuf_free(Head(nic))
    BY <1>11 DEF Reap
  <2>2. /\ Joined(nic, txburst, th) # <<>> /\ Head(Joined(nic, txburst, th)) = Head(nic)
        /\ Tail(Joined(nic, txburst, th)) = Joined(Tail(nic), txburst, th)
    BY <2>1, OutMoves
  <2>3. Out # <<>> /\ Head(Out) = Head(nic) /\ Out' = Tail(Out)
    BY <2>1, <2>2 DEF Out
  <2>4. Head(nic) \in Tx
    BY <1>0, <2>1, Tails
  <2>5. PICK m \in Tx : m = Head(nic)
    BY <2>4
  <2>6. /\ pool' = pool \/ pool' = Plus(pool, m, 1)
        /\ m \in Sw => pool' = Plus(pool, m, 1)
    BY <2>1, <2>5, Frees
  <2>7. \A n \in Sw : n # m => pool'[n] = pool[n]
    BY <1>0, <2>6 DEF Plus
  <2> QED BY <2>3, <2>5, <2>6, <2>7
<1>12. ASSUME NEW c \in Cores, io_get_uwmbuf(c)
       PROVE  Out' = Out /\ \A n \in Sw : pool'[n] = pool[n]
  <2>1. Out' = Out
    BY <1>2, <1>12 DEF io_get_uwmbuf, txv
  <2>2. ASSUME NEW m \in Uw[c], AllocUwPool(c, m)
        PROVE  \A n \in Sw : pool'[n] = pool[n]
    <3>1. m \in UwAll /\ pool' = Plus(pool, m, -1)
      BY <2>2 DEF AllocUwPool
    <3>2. m \in Mbufs /\ m \notin Sw
      BY <3>1
    <3> QED BY <1>3, <3>1, <3>2
  <2>3. ASSUME NEW p \in Cores, AllocUwQueue(c, p)
        PROVE  pool' = pool
    BY <2>3 DEF AllocUwQueue
  <2> QED BY <1>12, <2>1, <2>2, <2>3 DEF io_get_uwmbuf
<1>13. ASSUME NEW c \in Cores, NEW m \in Uw[c], AppFreesUw(c, m) \/ AppSends(c, m)
       PROVE  Out' = Out /\ \A n \in Sw : pool'[n] = pool[n]
  <2>1. Out' = Out
    BY <1>2, <1>13 DEF AppFreesUw, AppSends, txv
  <2>2. pool' = pool \/ pool' = Plus(pool, m, 1)
    BY <1>13 DEF AppFreesUw, AppSends, ReleaseOwn, mem
  <2>3. m \in Mbufs /\ m \notin Sw
    BY m \in UwAll
  <2> QED BY <1>3, <2>1, <2>2, <2>3
<1>14. ASSUME NEW c \in Cores, NEW m \in Rx, AppFreesRx(c, m)
       PROVE  Out' = Out /\ pool' = pool
  BY <1>2, <1>14 DEF AppFreesRx, txv, mem
<1>15. ASSUME NEW m \in UwAll, StackReleases(m)
       PROVE  Out' = Out /\ \A n \in Sw : pool'[n] = pool[n]
  <2>1. Out' = Out
    BY <1>2, <1>15 DEF StackReleases, txv
  <2>2. pool' = pool \/ pool' = Plus(pool, m, 1)
    BY <1>15 DEF StackReleases, ReleaseOwn
  <2>3. m \in Mbufs /\ m \notin Sw
    OBVIOUS
  <2> QED BY <1>3, <2>1, <2>2, <2>3
<1>16. ASSUME ReleaseEnqueue
       PROVE  Out' = Out /\ pool' = pool
  BY <1>2, <1>16 DEF ReleaseEnqueue, txv
<1>17. CASE Receive
  BY <1>4, <1>5, <1>6, <1>7, <1>17 DEF Receive
<1>18. CASE Send
  BY <1>7, <1>8, <1>9, <1>10, <1>11, <1>18 DEF Send
<1>19. CASE Hold
  BY <1>12, <1>13, <1>14, <1>15, <1>16, <1>19 DEF Hold
<1> QED BY <1>17, <1>18, <1>19 DEF Next

LEMMA OneSwStep ==
    ASSUME FreesExactly, Types, OneSw, OneRx, Next
    PROVE  OneSw'
<1> USE Basics
<1>1. pool \in [Mbufs -> Nat] /\ Out \in Seq(Tx)
  BY OutTyped DEF Types
<1>2. \A n \in Sw : app'[n] = app[n] /\ snd'[n] = snd[n]
  BY HeldByOthers
<1>3. CASE Out' = Out /\ \A n \in Sw : pool'[n] = pool[n]
  BY <1>2, <1>3 DEF OneSw
<1>4. ASSUME NEW m \in UwAll, Out' = Append(Out, m), \A n \in Sw : pool'[n] = pool[n]
      PROVE  OneSw'
  <2>1. m \in Tx
    BY DEF Tx
  <2>2. \A n \in Sw : /\ Absent(Out, n) => Absent(Out', n)
                      /\ Once(Out, n) => Once(Out', n)
    <3>1. ASSUME NEW n
          PROVE  /\ Absent(Out, n) /\ m # n => Absent(Append(Out, m), n)
                 /\ Once(Out, n) /\ m # n => Once(Append(Out, m), n)
      BY <1>1, <2>1, AppendPlaces
    <3>2. m \notin Sw
      BY Basics
    <3> QED BY <1>4, <3>1, <3>2
  <2> QED BY <1>2, <1>4, <2>2 DEF OneSw
<1>5. ASSUME NEW m \in Sw, pool[m] > 0, pool' = Plus(pool, m, -1), Out' = Append(Out, m)
      PROVE  OneSw'
  <2>1. m \in Tx /\ m \in Mbufs
    BY DEF Tx
  <2>2. \A n \in Sw : n # m => /\ Absent(Out, n) => Absent(Out', n)
                               /\ Once(Out, n) => Once(Out', n)
    <3>1. ASSUME NEW n
          PROVE  /\ Absent(Out, n) /\ m # n => Absent(Append(Out, m), n)
                 /\ Once(Out, n) /\ m # n => Once(Append(Out, m), n)
      BY <1>1, <2>1, AppendPlaces
    <3> QED BY <1>5, <3>1
  <2>3. pool[m] = 1 /\ Absent(Out, m)
    BY <1>5, SMTT(30) DEF OneSw
  <2>4. Once(Out', m)
    BY <1>1, <1>5, <2>1, <2>3, AppendPlaces
  <2>5. pool'[m] = 0 /\ \A n \in Sw : n # m => pool'[n] = pool[n]
    BY <1>1, <1>5, <2>1, <2>3, SMTT(30) DEF Plus
  <2> QED BY <1>2, <2>2, <2>4, <2>5 DEF OneSw
<1>6. ASSUME Out # <<>>, Out' = Tail(Out),
             Head(Out) \in Sw => pool' = Plus(pool, Head(Out), 1),
             \A n \in Sw : n # Head(Out) => pool'[n] = pool[n]
      PROVE  OneSw'
  <2> DEFINE m == Head(Out)
  <2>1. \A n \in Sw : /\ Absent(Out, n) => Absent(Out', n) /\ m # n
                      /\ Once(Out, n) /\ m # n => Once(Out', n)
                      /\ Once(Out, n) /\ m = n => Absent(Out', n)
    BY <1>1, <1>6, TailPlaces
  <2>2. ASSUME m \in Sw
        PROVE  pool'[m] = 1 /\ Absent(Out', m) /\ app'[m] = 0 /\ snd'[m] = 0
    <3>1. pool[m] = 0 /\ Once(Out, m) /\ app[m] = 0 /\ snd[m] = 0
      BY <2>1, <2>2 DEF OneSw
    <3>2. pool' = Plus(pool, m, 1)
      BY <1>6, <2>2
    <3> HIDE DEF m
    <3>3. pool'[m] = 1
      BY <1>1, <2>2, <3>1, <3>2, SMTT(30) DEF Plus
    <3> QED BY <1>2, <2>1, <2>2, <3>1, <3>3
  <2>3. ASSUME NEW n \in Sw, n # m
        PROVE  /\ app'[n] = 0 /\ snd'[n] = 0
               /\ (pool'[n] = 1 /\ Absent(Out', n)) \/ (pool'[n] = 0 /\ Once(Out', n))
    BY <1>2, <1>6, <2>1, <2>3 DEF OneSw
  <2> HIDE DEF m
  <2> QED BY <2>2, <2>3 DEF OneSw
<1> QED BY <1>3, <1>4, <1>5, <1>6, OutSteps

-----------------------------------------------------------------------------
LEMMA IInvStep ==
    ASSUME FreesExactly, IInv, [Next]_vars
    PROVE  IInv'
<1>1. CASE UNCHANGED vars
  <2>1. Types'
    BY <1>1 DEF IInv, Types, vars
  <2>2. Users' /\ Reached' /\ Counted'
    BY <1>1, SMTT(30) DEF IInv, Users, Reached, Total, InNofree, Counted, vars
  <2>3. OneSw'
    BY <1>1 DEF IInv, OneSw, Out, vars
  <2>4. OneRx'
    BY <1>1 DEF IInv, OneRx, RxPlace, AllFreeAbsent, FreedOnce, Low, High, vars
  <2> QED BY <2>1, <2>2, <2>3, <2>4 DEF IInv
<1>2. CASE Next
  <2>1. Types'
    BY <1>2, TypesStep DEF IInv
  <2> QED BY <1>2, <2>1, UsersStep, ReachedStep, OneSwStep, OneRxStep, CountedStep DEF IInv
<1> QED BY <1>1, <1>2

INSTANCE FiniteSetTheorems

LEMMA Counts ==
    ASSUME NEW s, NEW m
    PROVE  /\ Absent(s, m) => Occurs(s, m) = 0
           /\ Once(s, m) => Occurs(s, m) = 1
<1>1. ASSUME Absent(s, m)
      PROVE  Occurs(s, m) = 0
  <2>1. {i \in DOMAIN s : s[i] = m} = {}
    BY <1>1 DEF Absent
  <2> QED BY <2>1, FS_EmptySet DEF Occurs
<1>2. ASSUME Once(s, m)
      PROVE  Occurs(s, m) = 1
  <2>1. PICK i \in DOMAIN s : \A j \in DOMAIN s : s[j] = m <=> j = i
    BY <1>2 DEF Once
  <2>2. {j \in DOMAIN s : s[j] = m} = {i}
    BY <2>1
  <2> QED BY <2>2, FS_Singleton DEF Occurs
<1> QED BY <1>1, <1>2

(* What dpdk_check_rx_ring frees of one mbuf. *)
LEMMA CountsGivenBack ==
    ASSUME NEW m
    PROVE  /\ AllFreeAbsent(m) => Cardinality(GivenBack(m)) = 0
           /\ FreedOnce(m) => Cardinality(GivenBack(m)) = 1
<1>1. ASSUME AllFreeAbsent(m)
      PROVE  Cardinality(GivenBack(m)) = 0
  <2>1. GivenBack(m) = {}
    BY <1>1, SMTT(30) DEF AllFreeAbsent, Absent, GivenBack
  <2> QED BY <2>1, FS_EmptySet
<1>2. ASSUME FreedOnce(m)
      PROVE  Cardinality(GivenBack(m)) = 1
  <2>1. PICK p \in Cores : Once(rxfree[p], m) /\ \A q \in Cores \ {p} : Absent(rxfree[q], m)
    BY <1>2 DEF FreedOnce
  <2>2. PICK i \in DOMAIN rxfree[p] : \A j \in DOMAIN rxfree[p] : rxfree[p][j] = m <=> j = i
    BY <2>1 DEF Once
  <2>3. {j \in DOMAIN rxfree[p] : rxfree[p][j] = m} = {i}
    BY <2>2
  <2>4. \A q \in Cores \ {p} : {j \in DOMAIN rxfree[q] : rxfree[q][j] = m} = {}
    BY <2>1 DEF Absent
  <2>5. GivenBack(m) = {<<p, i>>}
    BY <2>3, <2>4, SMTT(30) DEF GivenBack
  <2> QED BY <2>5, FS_Singleton
<1> QED BY <1>1, <1>2

LEMMA Counting == FreesExactly /\ OccursExactly
BY Counts, CountsGivenBack DEF FreesExactly, OccursExactly

LEMMA Always == Spec => []IInv
<1>1. IInv /\ [Next]_vars => IInv'
  BY Counting, IInvStep
<1> QED BY <1>1, InitIInv, PTL DEF Spec

(* An application's mbuf has one user at a time: see OneUser. *)
THEOREM MbufHasOneUser == Spec => []OneUser
<1>1. IInv => OneUser
  BY DEF IInv, Users, OneUser
<1> QED BY <1>1, Always, PTL

(* No mbuf is lost, and those of the stack and of the device are in one    *)
(* place at a time: see MbufsAccounted.                                    *)
THEOREM MbufsAreAccounted == Spec => []MbufsAccounted
<1>1. IInv => MbufsAccounted
  BY Counting, IInvAccounts
<1> QED BY <1>1, Always, PTL

(* What was counted can be received, and the burst fits: see BurstsExact.  *)
THEOREM BurstsAreExact == Spec => []BurstsExact
<1>1. IInv => BurstsExact
  <2>1. Types /\ Counted => BurstsExact
    <3>1. Types => /\ Len(txburst) \in Nat /\ stalled \in Nat /\ sent \in Nat /\ pc \in Places
                   /\ Len(rh) \in Nat /\ Len(rl) \in Nat /\ left \in Nat
      BY SMTT(30) DEF Types
    <3> QED BY <3>1, Sizes, SMTT(30) DEF Counted, BurstsExact, Places
  <2> QED BY <2>1 DEF IInv
<1> QED BY <1>1, Always, PTL
=============================================================================
