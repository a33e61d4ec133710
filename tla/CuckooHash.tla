----------------------------- MODULE CuckooHash -----------------------------
(***************************************************************************)
(* The cuckoo hash table of qing_hash.c: one writer, which adds and        *)
(* removes keys, and one thread that looks keys up at the same time        *)
(* (qing_hash.h calls the lookup multi-thread safe).                       *)
(*                                                                         *)
(* A key may be in the bucket of its hash value or in the bucket of the    *)
(* secondary one.  A full bucket gets room by pushing entries to their     *)
(* other buckets: with make_space_bucket, a store at a time, or, with      *)
(* transactional memory, along a path found by breadth-first search.       *)
(*                                                                         *)
(* A step is what the other thread can see at once.  The three stores of   *)
(* an entry are one step: an entry of which only some are done matches no  *)
(* key, and the entry it replaces has been copied or removed before.       *)
(* Abstractions: hash values are given by the constants, a key and its     *)
(* data are single values, and the writer stays on one core (one local     *)
(* cache).  With one writer the lock of ADD_KEY_MULTIWRITER makes no       *)
(* difference to SINGLEWRITER.                                             *)
(***************************************************************************)
EXTENDS Naturals, Sequences, FiniteSets, FiniteSetsExt, SequencesExt

CONSTANTS
    Keys, Data, None,
    DataOf,         \* the data the application stores under every key
    Sought,         \* the keys that are looked up
    Hash,           \* rte_hash_crc: the hash value of every key
    Secondary,      \* the secondary hash value of every hash value
    Entries,        \* params->entries
    BucketEntries,  \* RTE_HASH_BUCKET_ENTRIES
    MaxPushes,      \* RTE_HASH_MAX_PUSHES
    BfsMax,         \* RTE_HASH_BFS_QUEUE_MAX_LEN
    CacheSize,      \* LCORE_CACHE_SIZE
    MaxLcores,      \* RTE_MAX_LCORE
    AddKeyCases,    \* the values of add_key the tables are created with
    MaxAborts,      \* bound: transactions of one add that fail for good
    MaxCalls        \* bound: calls of the writer in the life of a table

ASSUME CuckooHashAssumption ==
    /\ BucketEntries > 0 /\ Entries >= BucketEntries /\ CacheSize > 0 /\ MaxLcores > 0
    /\ Hash \in [Keys -> Nat] /\ DataOf \in [Keys -> SUBSET Data]
    /\ Sought \subseteq Keys
    /\ AddKeyCases \subseteq {"SINGLEWRITER", "SINGLEWRITER_TM", "MULTIWRITER_TM"}

VARIABLES
    table,      \* "none", "used", or given up but not freed, "leaked"
    add_key,    \* with _TM: hw_trans_mem_support
    bkt,        \* the entries of every bucket
    keys,       \* key_store, with the dummy entry 0
    free_slots, cache,
    w,          \* the writer
    rd          \* the reader

vars == <<table, add_key, bkt, keys, free_slots, cache, w, rd>>

Align32Pow2(n) == CHOOSE p \in {2 ^ e : e \in 0 .. n} : p >= n /\ p < 2 * n

NumBuckets == Align32Pow2(Entries) \div BucketEntries
Buckets == 0 .. NumBuckets - 1
Slots == 1 .. Entries
Places == 1 .. BucketEntries

EMPTY_SLOT == 0
NULL_SIGNATURE == 0
Entry(sig, alt, idx) == [sig_current |-> sig, sig_alt |-> alt, key_idx |-> idx]
EmptyEntry == Entry(NULL_SIGNATURE, NULL_SIGNATURE, EMPTY_SLOT)

(* The hash value of the other bucket: any function will do. *)
rte_hash_secondary_hash(primary_hash) == Secondary[primary_hash]

(* The functions of qcmp_jump_table compare all bytes of two keys. *)
KeysEqual(key1, key2) == key1 = key2

BucketOf(sig) == sig % NumBuckets
Prim(k) == BucketOf(Hash[k])
Sec(k) == BucketOf(rte_hash_secondary_hash(Hash[k]))

(***************************************************************************)
(* Lookup, as one step; the reader below takes one step per entry.         *)
(***************************************************************************)
PrimaryMatch(e, k, ks) ==
    /\ e.sig_current = Hash[k] /\ e.key_idx # EMPTY_SLOT
    /\ KeysEqual(ks[e.key_idx].key, k)

SecondaryMatch(e, k, ks) ==
    /\ e.sig_current = rte_hash_secondary_hash(Hash[k]) /\ e.sig_alt = Hash[k]
    /\ KeysEqual(ks[e.key_idx].key, k)

Lookup(bs, ks, k) ==
    LET p == {i \in Places : PrimaryMatch(bs[Prim(k)][i], k, ks)}
        q == {i \in Places : SecondaryMatch(bs[Sec(k)][i], k, ks)}
    IN  IF p # {} THEN ks[bs[Prim(k)][Min(p)].key_idx].pdata
        ELSE IF q # {} THEN ks[bs[Sec(k)][Min(q)].key_idx].pdata
        ELSE None

(***************************************************************************)
(* Creation and destruction.                                               *)
(***************************************************************************)
EmptyBuckets == [b \in Buckets |-> [i \in Places |-> EmptyEntry]]
EmptyKeys == [j \in Slots \cup {0} |-> [key |-> None, pdata |-> None]]

(* With transactional memory slots pass through the cache of the core. *)
TransMem(case) == case # "SINGLEWRITER"

(* The ring has a cell for every slot, and for those the caches of the     *)
(* other cores may hold, rounded up to a power of 2, and keeps one cell    *)
(* free: if that is no more than Entries the last cirq_add fails.          *)
KeySlots(case) == Entries + (IF TransMem(case) THEN (MaxLcores - 1) * CacheSize ELSE 0)
RingCapacity(case) == Align32Pow2(KeySlots(case)) - 1
FilledRing(case) == [j \in 1 .. Min({Entries, RingCapacity(case)}) |-> j]

Idle == [pc |-> "idle", call |-> None, ret |-> "ok", slot |-> 0,
         moves |-> <<>>, place |-> <<0, 1>>, hidden |-> {}, calls |-> 0]
NotReading == [pc |-> "idle", key |-> None, bucket |-> "prim", i |-> 1, idx |-> 0,
               seen |-> {}, moved |-> FALSE, removed |-> FALSE, res |-> None]

Init ==
    /\ table = "none" /\ add_key \in AddKeyCases
    /\ bkt = EmptyBuckets /\ keys = EmptyKeys
    /\ free_slots = <<>> /\ cache = <<>>
    /\ w = Idle /\ rd = NotReading

qing_hash_create ==
    /\ table # "used"
    /\ table' = "used" /\ add_key' \in AddKeyCases
    /\ bkt' = EmptyBuckets /\ keys' = EmptyKeys
    /\ free_slots' = FilledRing(add_key') /\ cache' = <<>>
    /\ UNCHANGED <<w, rd>>

(* qing_hash_create begins with TAILQ_INIT of the list of all tables: if   *)
(* another table has been created since, this one is no longer found and   *)
(* is not freed.                                                           *)
qing_hash_free ==
    /\ table = "used" /\ w.pc = "idle" /\ rd.pc = "idle"
    /\ table' \in {"none", "leaked"}
    /\ bkt' = EmptyBuckets /\ keys' = EmptyKeys
    /\ free_slots' = <<>> /\ cache' = <<>> /\ w' = Idle
    /\ UNCHANGED <<add_key, rd>>

(***************************************************************************)
(* Slots of the key table.                                                 *)
(***************************************************************************)
(* The cache is refilled with a burst from the ring and used from its end. *)
Refilled ==
    LET n == Min({CacheSize, Len(free_slots)})
    IN  IF ~ TransMem(add_key) \/ cache # <<>> THEN <<cache, free_slots>>
        ELSE <<SubSeq(free_slots, 1, n), SubSeq(free_slots, n + 1, Len(free_slots))>>

NoSlot == free_slots = <<>> /\ cache = <<>>

TakenSlot ==
    LET r == Refilled
    IN  IF TransMem(add_key)
        THEN [slot |-> Last(r[1]), cache |-> Front(r[1]), free |-> r[2]]
        ELSE [slot |-> Head(free_slots), cache |-> cache, free |-> Tail(free_slots)]

(* enqueue_slot_back, for caches and rings as given *)
SlotBack(c, f, slot) ==
    IF TransMem(add_key) THEN <<Append(c, slot), f>> ELSE <<c, Append(f, slot)>>

(* The slot of a removed entry; a full cache is emptied into the ring. *)
SlotFreed(slot) ==
    IF TransMem(add_key) /\ Len(cache) = CacheSize
    THEN <<<<slot>>, free_slots \o cache>>
    ELSE SlotBack(cache, free_slots, slot)

(***************************************************************************)
(* Making room.                                                            *)
(***************************************************************************)
EmptyPlaces(bs, b) == {i \in Places : bs[b][i].key_idx = EMPTY_SLOT}
NextBucket(bs, b, i) == BucketOf(bs[b][i].sig_alt)
\* Slip for ImplementsMap: a pushed entry keeps its signatures as they are.
SwappedNot(e) == e
Swapped(e) == Entry(e.sig_alt, e.sig_current, e.key_idx)
MoveTo(b, i, b2, j) == [from |-> <<b, i>>, to |-> <<b2, j>>]

(* The pushes that empty a place of bucket b, in the order of the stores,  *)
(* and that place.  Flagged entries are on their way already.              *)
RECURSIVE make_space_bucket(_, _, _)
make_space_bucket(b, flags, nr_pushes) ==
    LET next(i) == NextBucket(bkt, b, i)
        spare == {i \in Places : EmptyPlaces(bkt, next(i)) # {}}
        unpushed == {i \in Places : <<b, i>> \notin flags}
    IN  IF spare # {}
        THEN LET i == Min(spare)
             IN  [ok |-> TRUE, place |-> i,
                  moves |-> <<MoveTo(b, i, next(i), Min(EmptyPlaces(bkt, next(i))))>>]
        ELSE IF unpushed = {} \/ nr_pushes + 1 > MaxPushes
        THEN [ok |-> FALSE, place |-> 0, moves |-> <<>>]
        ELSE LET i == Min(unpushed)
                 r == make_space_bucket(next(i), flags \cup {<<b, i>>}, nr_pushes + 1)
             IN  IF r.ok
                 THEN [ok |-> TRUE, place |-> i,
                       moves |-> Append(r.moves, MoveTo(b, i, next(i), r.place))]
                 ELSE r

(* The transaction of rte_hash_cuckoo_move_insert_mw_tm: the entries on    *)
(* the path from node n of the search to its root move on by one place,    *)
(* and the new entry takes the place at the root.  None: the path is no    *)
(* longer one, and the transaction is given up.                            *)
RECURSIVE ShiftPath(_, _, _, _, _)
ShiftPath(bs, queue, n, place, entry) ==
    LET node == queue[n]
        prev == queue[node.prev]
        e == bs[prev.b][node.prev_slot]
    IN  IF node.prev = 0 THEN [bs EXCEPT ![node.b][place] = entry]
        ELSE IF BucketOf(e.sig_alt) # node.b THEN None
        ELSE ShiftPath([bs EXCEPT ![node.b][place] = Swapped(e)],
                       queue, node.prev, node.prev_slot, entry)

(* The search from node tail and place i on; the first `aborts`            *)
(* transactions fail.                                                      *)
RECURSIVE BfsFrom(_, _, _, _, _)
BfsFrom(queue, tail, i, entry, aborts) ==
    LET b == queue[tail].b
        shifted == ShiftPath(bkt, queue, tail, i, entry)
        empty == bkt[b][i].key_idx = EMPTY_SLOT
        longer == Append(queue, [b |-> NextBucket(bkt, b, i), prev |-> tail, prev_slot |-> i])
        left == IF empty /\ aborts > 0 THEN aborts - 1 ELSE aborts
    IN  IF empty /\ aborts = 0 /\ shifted # None
        THEN [bs |-> shifted, aborts |-> 0]
        ELSE IF i < BucketEntries THEN BfsFrom(longer, tail, i + 1, entry, left)
        ELSE IF Len(longer) >= BfsMax - BucketEntries THEN [bs |-> None, aborts |-> left]
        ELSE BfsFrom(longer, tail + 1, 1, entry, left)

rte_hash_cuckoo_make_space_mw_tm(b, entry, aborts) ==
    BfsFrom(<<[b |-> b, prev |-> 0, prev_slot |-> 0]>>, 1, 1, entry, aborts)

(* rte_hash_cuckoo_insert_mw_tm and the two searches that follow it.  The  *)
(* second one puts the entry of the primary bucket into the secondary one, *)
(* where no lookup and no removal of the key finds it.                     *)
TmInsert(k, entry, aborts) ==
    LET room == EmptyPlaces(bkt, Prim(k))
        left == IF aborts > 0 THEN aborts - 1 ELSE 0
        first == rte_hash_cuckoo_make_space_mw_tm(Prim(k), entry, left)
        second == rte_hash_cuckoo_make_space_mw_tm(Sec(k), entry, first.aborts)
    IN  IF room # {} /\ aborts = 0
        THEN [bs |-> [bkt EXCEPT ![Prim(k)][Min(room)] = entry], hides |-> FALSE]
        ELSE IF first.bs # None THEN [bs |-> first.bs, hides |-> FALSE]
        ELSE [bs |-> second.bs, hides |-> Prim(k) # Sec(k)]

(***************************************************************************)
(* The writer.                                                             *)
(***************************************************************************)
(* The places of the entries under which key k is found. *)
At(bs, ks, k) ==
    {<<Prim(k), i>> : i \in {n \in Places : PrimaryMatch(bs[Prim(k)][n], k, ks)}}
    \cup {<<Sec(k), i>> : i \in {n \in Places : SecondaryMatch(bs[Sec(k)][n], k, ks)}}

(* History of a lookup, for the properties: what its key was worth, and    *)
(* whether the key got another place or lost its last one.                 *)
Watch ==
    LET before == At(bkt, keys, rd.key)
        after == At(bkt', keys', rd.key)
    IN  rd' = IF rd.pc \in {"idle", "done"} THEN rd
              ELSE [rd EXCEPT !.seen = @ \cup {Lookup(bkt', keys', rd.key)},
                              !.moved = @ \/ (before # {} /\ after \ before # {}),
                              !.removed = @ \/ (before # {} /\ after = {})]

Returned(r) == [Idle EXCEPT !.ret = r, !.hidden = w.hidden, !.calls = w.calls]

Call ==
    /\ table = "used" /\ w.pc = "idle" /\ w.calls < MaxCalls
    /\ \E k \in Keys :
          \/ \E d \in DataOf[k] :
                w' = [w EXCEPT !.pc = "add", !.calls = @ + 1,
                             !.call = [op |-> "add", key |-> k, data |-> d]]
          \/ w' = [w EXCEPT !.pc = "del", !.calls = @ + 1,
                             !.call = [op |-> "del", key |-> k]]
    /\ UNCHANGED <<table, add_key, bkt, keys, free_slots, cache, rd>>

AddMatch(k) ==
    LET e(b, i) == bkt[b][i]
        p == {i \in Places : /\ e(Prim(k), i).sig_current = Hash[k]
                             /\ e(Prim(k), i).sig_alt = rte_hash_secondary_hash(Hash[k])
                             /\ KeysEqual(keys[e(Prim(k), i).key_idx].key, k)}
        q == {i \in Places : SecondaryMatch(e(Sec(k), i), k, keys)}
    IN  IF p # {} THEN e(Prim(k), Min(p)).key_idx
        ELSE IF q # {} THEN e(Sec(k), Min(q)).key_idx
        ELSE EMPTY_SLOT

(* A slot is taken before the key is looked for, and given back if the key *)
(* is there: with no slot left even a change of data is refused.           *)
AddSlot ==
    LET k == w.call.key
        idx == AddMatch(k)
        t == TakenSlot
        back == SlotBack(t.cache, t.free, t.slot)
    IN  /\ w.pc = "add"
        /\ \/ /\ NoSlot
              /\ w' = Returned("ENOSPC")
              /\ UNCHANGED <<keys, free_slots, cache>>
           \/ /\ ~ NoSlot /\ idx # EMPTY_SLOT
              /\ keys' = [keys EXCEPT ![idx].pdata = w.call.data]
              /\ cache' = back[1] /\ free_slots' = back[2]
              /\ w' = Returned("ok")
           \/ /\ ~ NoSlot /\ idx = EMPTY_SLOT
              /\ keys' = [keys EXCEPT ![t.slot] = [key |-> k, pdata |-> w.call.data]]
              /\ cache' = t.cache /\ free_slots' = t.free
              /\ w' = [w EXCEPT !.pc = "place", !.slot = t.slot]
        /\ UNCHANGED <<table, add_key, bkt>>
        /\ Watch

NewEntry == Entry(Hash[w.call.key], rte_hash_secondary_hash(Hash[w.call.key]), w.slot)

\* Slip for SlotsExact: the slot of a key that found no room is forgotten.
AddFailedLeaks == w' = Returned("ENOSPC") /\ UNCHANGED <<free_slots, cache>>
AddFailed ==
    LET back == SlotBack(cache, free_slots, w.slot)
    IN  cache' = back[1] /\ free_slots' = back[2] /\ w' = Returned("ENOSPC")

AddPlace ==
    LET b == Prim(w.call.key)
        room == EmptyPlaces(bkt, b)
        r == make_space_bucket(b, {}, 0)
    IN  /\ w.pc = "place" /\ add_key # "MULTIWRITER_TM"
        /\ \/ /\ room # {}
              /\ bkt' = [bkt EXCEPT ![b][Min(room)] = NewEntry]
              /\ w' = Returned("ok")
              /\ UNCHANGED <<free_slots, cache>>
           \/ /\ room = {} /\ r.ok
              /\ w' = [w EXCEPT !.pc = "push", !.moves = r.moves, !.place = <<b, r.place>>]
              /\ UNCHANGED <<bkt, free_slots, cache>>
           \/ /\ room = {} /\ ~ r.ok
              /\ AddFailed
              /\ UNCHANGED bkt
        /\ UNCHANGED <<table, add_key, keys>>
        /\ Watch

(* The next store of make_space_bucket; it leaves the old copy in place. *)
Push ==
    LET m == Head(w.moves)
    IN  /\ w.pc = "push" /\ w.moves # <<>>
        /\ bkt' = [bkt EXCEPT ![m.to[1]][m.to[2]] = Swapped(bkt[m.from[1]][m.from[2]])]
        /\ w' = [w EXCEPT !.moves = Tail(@)]
        /\ UNCHANGED <<table, add_key, keys, free_slots, cache>>
        /\ Watch

AddPushed ==
    /\ w.pc = "push" /\ w.moves = <<>>
    /\ bkt' = [bkt EXCEPT ![w.place[1]][w.place[2]] = NewEntry]
    /\ w' = Returned("ok")
    /\ UNCHANGED <<table, add_key, keys, free_slots, cache>>
    /\ Watch

AddTm(aborts) ==
    LET r == TmInsert(w.call.key, NewEntry, aborts)
    IN  /\ w.pc = "place" /\ add_key = "MULTIWRITER_TM"
        /\ \/ /\ r.bs # None
              /\ bkt' = r.bs
              /\ w' = [Returned("ok") EXCEPT !.hidden = IF r.hides THEN @ \cup {w.call.key} ELSE @]
              /\ UNCHANGED <<free_slots, cache>>
           \/ /\ r.bs = None
              /\ AddFailed
              /\ UNCHANGED bkt
        /\ UNCHANGED <<table, add_key, keys>>
        /\ Watch

DelMatch(k) ==
    LET p == {i \in Places : PrimaryMatch(bkt[Prim(k)][i], k, keys)}
        q == {i \in Places : /\ bkt[Sec(k)][i].sig_current = rte_hash_secondary_hash(Hash[k])
                             /\ bkt[Sec(k)][i].key_idx # EMPTY_SLOT
                             /\ KeysEqual(keys[bkt[Sec(k)][i].key_idx].key, k)}
    IN  IF p # {} THEN <<Prim(k), Min(p)>>
        ELSE IF q # {} THEN <<Sec(k), Min(q)>>
        ELSE None

(* remove_entry: the slot is free before the entry is empty, and a key     *)
(* with hash value 0 is still found until DelClear.                        *)
Del ==
    LET at == DelMatch(w.call.key)
        e == bkt[at[1]][at[2]]
        freed == SlotFreed(e.key_idx)
    IN  /\ w.pc = "del"
        /\ \/ /\ at = None
              /\ w' = Returned("ENOENT")
              /\ UNCHANGED <<bkt, free_slots, cache>>
           \/ /\ at # None
              /\ bkt' = [bkt EXCEPT ![at[1]][at[2]] =
                            Entry(NULL_SIGNATURE, NULL_SIGNATURE, e.key_idx)]
              /\ cache' = freed[1] /\ free_slots' = freed[2]
              /\ w' = [w EXCEPT !.pc = "clear", !.place = at]
        /\ UNCHANGED <<table, add_key, keys>>
        /\ Watch

DelClear ==
    /\ w.pc = "clear"
    /\ bkt' = [bkt EXCEPT ![w.place[1]][w.place[2]].key_idx = EMPTY_SLOT]
    /\ w' = Returned("ok")
    /\ UNCHANGED <<table, add_key, keys, free_slots, cache>>
    /\ Watch

(***************************************************************************)
(* The reader.                                                             *)
(***************************************************************************)
LookupStart(k) ==
    /\ table = "used" /\ rd.pc = "idle"
    /\ rd' = [NotReading EXCEPT !.pc = "scan", !.key = k, !.seen = {Lookup(bkt, keys, k)}]
    /\ UNCHANGED <<table, add_key, bkt, keys, free_slots, cache, w>>

\* Slip for LookupIsHonest: equal signatures are taken for equal keys.
LookupTrustsSignature ==
    LET b == IF rd.bucket = "prim" THEN Prim(rd.key) ELSE Sec(rd.key)
        e == bkt[b][rd.i]
        hit == IF rd.bucket = "prim" THEN e.sig_current = Hash[rd.key] /\ e.key_idx # EMPTY_SLOT
               ELSE SecondaryMatch(e, rd.key, keys)
    IN  /\ rd.pc = "scan"
        /\ rd' = IF hit THEN [rd EXCEPT !.pc = "data", !.idx = e.key_idx]
                 ELSE IF rd.i < BucketEntries THEN [rd EXCEPT !.i = @ + 1]
                 ELSE IF rd.bucket = "prim" THEN [rd EXCEPT !.bucket = "sec", !.i = 1]
                 ELSE [rd EXCEPT !.pc = "done", !.res = None]
        /\ UNCHANGED <<table, add_key, bkt, keys, free_slots, cache, w>>

LookupEntry ==
    LET b == IF rd.bucket = "prim" THEN Prim(rd.key) ELSE Sec(rd.key)
        e == bkt[b][rd.i]
        hit == IF rd.bucket = "prim" THEN PrimaryMatch(e, rd.key, keys)
               ELSE SecondaryMatch(e, rd.key, keys)
    IN  /\ rd.pc = "scan"
        /\ rd' = IF hit THEN [rd EXCEPT !.pc = "data", !.idx = e.key_idx]
                 ELSE IF rd.i < BucketEntries THEN [rd EXCEPT !.i = @ + 1]
                 ELSE IF rd.bucket = "prim" THEN [rd EXCEPT !.bucket = "sec", !.i = 1]
                 ELSE [rd EXCEPT !.pc = "done", !.res = None]
        /\ UNCHANGED <<table, add_key, bkt, keys, free_slots, cache, w>>

LookupData ==
    /\ rd.pc = "data"
    /\ rd' = [rd EXCEPT !.pc = "done", !.res = keys[rd.idx].pdata]
    /\ UNCHANGED <<table, add_key, bkt, keys, free_slots, cache, w>>

LookupReturn ==
    /\ rd.pc = "done"
    /\ rd' = NotReading
    /\ UNCHANGED <<table, add_key, bkt, keys, free_slots, cache, w>>

Next ==
    \/ qing_hash_create \/ qing_hash_free
    \/ Call \/ AddSlot \/ AddPlace \/ Push \/ AddPushed \/ Del \/ DelClear
    \/ \E n \in 0 .. MaxAborts : AddTm(n)
    \/ \E k \in Sought : LookupStart(k)
    \/ LookupEntry \/ LookupData \/ LookupReturn

Spec == Init /\ [][Next]_vars

-----------------------------------------------------------------------------
(* Every slot of the key table is in one place: the ring, the local cache, *)
(* the hands of the writer or one entry of a bucket.  While entries are    *)
(* pushed the last copy is the one that counts, and a removed entry keeps  *)
(* its slot for a moment.                                                  *)
SlotsExact ==
    LET held == {<<b, i>> \in Buckets \X Places : bkt[b][i].key_idx # EMPTY_SLOT}
        idx(p) == bkt[p[1]][p[2]].key_idx
        out == free_slots \o cache
    IN  w.pc \in {"idle", "add", "del"} /\ table = "used" =>
          /\ IsInjective(out)
          /\ \A p, q \in held : idx(p) = idx(q) => p = q
          /\ {idx(p) : p \in held} \cap ToSet(out) = {}
          /\ {idx(p) : p \in held} \cup ToSet(out) = 1 .. Min({Entries, RingCapacity(add_key)})

(* The table is a map: no call, and no push on the way, changes what is    *)
(* found for any other key, and the result of a call is true.  The one     *)
(* exception are hidden keys: the add that puts an entry into the          *)
(* secondary bucket by the second search returns 0 ("added successfully"), *)
(* and neither a lookup nor a removal finds the key, until a push of the   *)
(* entry may bring it back.  Calls for a hidden key may have any result    *)
(* and still change nothing for the other keys.                            *)
Removed == w.pc = "clear" /\ Lookup(bkt, keys, w.call.key) = None
Map == INSTANCE KeyMap WITH
           m <- [k \in Keys |-> IF k \in w.hidden THEN None ELSE Lookup(bkt, keys, k)],
           call <- IF Removed THEN None ELSE w.call,
           ret <- IF Removed THEN "ok" ELSE w.ret
HiddenCall ==
    /\ w.call # None /\ w.call.key \in w'.hidden /\ w'.call \in {None, w.call}
    /\ \A k \in Keys \ w'.hidden : Lookup(bkt, keys, k)' = Lookup(bkt, keys, k)
ImplementsMap == Map!Init /\ [][Map!Next \/ HiddenCall]_Map!vars

(* A lookup misses a key only if the key was not in the table at some time *)
(* during the lookup, or the entry of that key was pushed to its other     *)
(* bucket meanwhile; and the data it finds are data the key had during the *)
(* lookup, unless that key was in the table and was removed meanwhile.     *)
LookupIsHonest ==
    rd.pc = "done" =>
        IF rd.res = None THEN None \in rd.seen \/ rd.moved
        ELSE rd.res \in rd.seen \/ rd.removed
=============================================================================
