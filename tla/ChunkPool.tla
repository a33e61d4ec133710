----------------------------- MODULE ChunkPool -----------------------------
(***************************************************************************)
(* The memory pool of fixed-size chunks (tools/mempool): one private ring  *)
(* per core, one public ring shared by all cores, and per core two linked  *)
(* lists between the core and the public ring: `l', chunks fetched in a    *)
(* batch and not yet handed out, and `s', public chunks freed and not yet  *)
(* put back.  A call touches the shared ring at most once and everything   *)
(* else is the calling core's own, so a call is one step.                  *)
(* Private chunks are freed on their own core, as tcp_stream.c does.       *)
(***************************************************************************)
EXTENDS Integers, Sequences, FiniteSets

CONSTANTS Cores,        \* the cores that use the pool
          Private,      \* core -> the chunks created in its private ring
          Public,       \* the chunks created in the public ring
          ALLOC_NUM,    \* chunks fetched from the public ring at once
          TEST_ARR,     \* chunks put back to the public ring at once
          NULL

Chunks == Public \cup (UNION {Private[c] : c \in Cores})

ASSUME PoolAssumption ==
    /\ Private \in [Cores -> SUBSET Chunks]
    /\ \A c \in Cores : /\ Private[c] \cap Public = {}
                        /\ \A d \in Cores \ {c} : Private[c] \cap Private[d] = {}
    /\ ALLOC_NUM \in Nat \ {0}
    /\ TEST_ARR \in Nat \ {0, 1}
    /\ NULL \notin Chunks

VARIABLES mempool_p,    \* core -> chunks in its private ring
          mempool_s,    \* chunks in the public ring
          l_list, l_len, s_list, s_len,
          used,         \* chunks handed out and not freed
          out           \* the last call: its core and the chunk it returned or took (NULL: none)

vars == <<mempool_p, mempool_s, l_list, l_len, s_list, s_len, used, out>>

Elems(s) == {s[i] : i \in 1..Len(s)}

\* n chunks of S in some order (external: the order a ring yields them in).
Arrangements(S, n) ==
    {b \in [1..n -> S] : \A i, j \in 1..n : b[i] = b[j] => i = j}

TypeOK ==
    /\ mempool_p \in [Cores -> SUBSET Chunks]
    /\ mempool_s \subseteq Public
    /\ l_list \in [Cores -> Seq(Public)]
    /\ s_list \in [Cores -> Seq(Public)]
    /\ l_len \in [Cores -> Int]
    /\ s_len \in [Cores -> Int]
    /\ used \subseteq Chunks
    /\ out \in [core : Cores, chunk : Chunks \cup {NULL}]
-----------------------------------------------------------------------------
\* mempool_create: every ring full, every list empty.
Init ==
    /\ mempool_p = Private
    /\ mempool_s = Public
    /\ l_list = [c \in Cores |-> <<>>]
    /\ l_len = [c \in Cores |-> 0]
    /\ s_list = [c \in Cores |-> <<>>]
    /\ s_len = [c \in Cores |-> 0]
    /\ used = {}
    /\ out \in [core : Cores, chunk : {NULL}]

HandOut(c, t) ==
    /\ used' = used \cup {t}
    /\ out' = [core |-> c, chunk |-> t]

\* The private ring answers.
get_private(c) ==
    \E t \in mempool_p[c] :
        /\ mempool_p' = [mempool_p EXCEPT ![c] = @ \ {t}]
        /\ HandOut(c, t)
        /\ UNCHANGED <<mempool_s, l_list, l_len, s_list, s_len>>

\* Slip for OnePlace: l_hpkt is not advanced past the last chunk.
LocalKeepsLast(c) ==
    /\ mempool_p[c] = {}
    /\ l_list[c] # <<>>
    /\ l_list' = [l_list EXCEPT ![c] = IF Len(@) = 1 THEN @ ELSE Tail(@)]
    /\ l_len' = [l_len EXCEPT ![c] = @ - 1]
    /\ HandOut(c, Head(l_list[c]))
    /\ UNCHANGED <<mempool_p, mempool_s, s_list, s_len>>

\* The private ring is empty: the head of the core's list of fetched chunks.
get_local(c) ==
    /\ mempool_p[c] = {}
    /\ l_list[c] # <<>>
    /\ l_list' = [l_list EXCEPT ![c] = Tail(@)]
    /\ l_len' = [l_len EXCEPT ![c] = @ - 1]
    /\ HandOut(c, Head(l_list[c]))
    /\ UNCHANGED <<mempool_p, mempool_s, s_list, s_len>>

\* Slip for CountersExact: the chunk that is handed out is counted as well.
PublicCountsAll(c) ==
    /\ mempool_p[c] = {}
    /\ l_list[c] = <<>>
    /\ \E b \in Arrangements(mempool_s, ALLOC_NUM) :
        /\ mempool_s' = mempool_s \ Elems(b)
        /\ l_list' = [l_list EXCEPT ![c] = SubSeq(b, 1, ALLOC_NUM - 1)]
        /\ l_len' = [l_len EXCEPT ![c] = @ + ALLOC_NUM]
        /\ HandOut(c, b[ALLOC_NUM])
    /\ UNCHANGED <<mempool_p, s_list, s_len>>

\* Both empty: a batch from the public ring.  Its last chunk is the answer, the
\* others are appended to the list, which starts afresh when its counter is 0.
get_public(c) ==
    /\ mempool_p[c] = {}
    /\ l_list[c] = <<>>
    /\ \E b \in Arrangements(mempool_s, ALLOC_NUM) :
        /\ mempool_s' = mempool_s \ Elems(b)
        /\ l_list' = [l_list EXCEPT ![c] =
                        IF l_len[c] = 0 THEN SubSeq(b, 1, ALLOC_NUM - 1)
                                        ELSE @ \o SubSeq(b, 1, ALLOC_NUM - 1)]
        /\ l_len' = [l_len EXCEPT ![c] = @ + (ALLOC_NUM - 1)]
        /\ HandOut(c, b[ALLOC_NUM])
    /\ UNCHANGED <<mempool_p, s_list, s_len>>

get_fails(c) ==
    /\ mempool_p[c] = {}
    /\ l_list[c] = <<>>
    /\ Arrangements(mempool_s, ALLOC_NUM) = {}
    /\ out' = [core |-> c, chunk |-> NULL]
    /\ UNCHANGED <<mempool_p, mempool_s, l_list, l_len, s_list, s_len, used>>

mempool_alloc_chunk(c) ==
    get_private(c) \/ get_local(c) \/ get_public(c) \/ get_fails(c)

\* A chunk of a private ring goes back to the ring it came from.
free_private(c, x) ==
    /\ x \in Private[c]
    /\ mempool_p' = [mempool_p EXCEPT ![c] = @ \cup {x}]
    /\ UNCHANGED <<mempool_s, s_list, s_len>>

\* The list of freed public chunks once x is on it; the list starts afresh when
\* its counter is 0.
Freed(c, x) == IF s_len[c] = 0 THEN <<x>> ELSE Append(s_list[c], x)

\* Slip for NullMeansScarce: the list goes back one chunk late.
FreePublicLate(c, x) ==
    /\ x \in Public
    /\ UNCHANGED mempool_p
    /\ IF s_len[c] = TEST_ARR
       THEN /\ mempool_s' = mempool_s \cup Elems(Freed(c, x))
            /\ s_list' = [s_list EXCEPT ![c] = <<>>]
            /\ s_len' = [s_len EXCEPT ![c] = 0]
       ELSE /\ s_list' = [s_list EXCEPT ![c] = Freed(c, x)]
            /\ s_len' = [s_len EXCEPT ![c] = @ + 1]
            /\ UNCHANGED mempool_s

\* A public chunk waits on the core's list; the chunk that fills a list that was
\* not empty sends the whole list back to the public ring.
free_public(c, x) ==
    /\ x \in Public
    /\ UNCHANGED mempool_p
    /\ IF s_len[c] # 0 /\ s_len[c] + 1 = TEST_ARR
       THEN /\ mempool_s' = mempool_s \cup Elems(SubSeq(Freed(c, x), 1, TEST_ARR))
            /\ s_list' = [s_list EXCEPT ![c] = <<>>]
            /\ s_len' = [s_len EXCEPT ![c] = 0]
       ELSE /\ s_list' = [s_list EXCEPT ![c] = Freed(c, x)]
            /\ s_len' = [s_len EXCEPT ![c] = @ + 1]
            /\ UNCHANGED mempool_s

mempool_free_chunk(c, x) ==
    /\ used' = used \ {x}
    /\ out' = [core |-> c, chunk |-> x]
    /\ free_private(c, x) \/ free_public(c, x)
    /\ UNCHANGED <<l_list, l_len>>

Next == \E c \in Cores : \/ mempool_alloc_chunk(c)
                         \/ \E x \in used : mempool_free_chunk(c, x)

Spec == Init /\ [][Next]_vars
-----------------------------------------------------------------------------
\* The places that claim a chunk.
Claims(x) ==
    {<<"used", 0, 0>> : u \in used \cap {x}}
      \cup {<<"public", 0, 0>> : u \in mempool_s \cap {x}}
      \cup {<<"private", c, 0>> : c \in {d \in Cores : x \in mempool_p[d]}}
      \cup (UNION {{<<"l", c, i>> : i \in {j \in 1..Len(l_list[c]) : l_list[c][j] = x}} : c \in Cores})
      \cup (UNION {{<<"s", c, i>> : i \in {j \in 1..Len(s_list[c]) : s_list[c][j] = x}} : c \in Cores})

\* mempool_alloc_chunk never hands out a chunk that is still in use and never
\* loses one: at all times exactly one owner, ring or list position claims it.
OnePlace ==
    \A x \in Chunks : /\ Claims(x) # {}
                      /\ \A p, q \in Claims(x) : p = q

\* chunk_alloc_notype and chunk_free_notype decide by l_len and s_len when a list
\* starts afresh and when it is full: they are the lengths of the lists, and a
\* list of freed chunks never reaches TEST_ARR.
CountersExact ==
    \A c \in Cores : /\ l_len[c] = Len(l_list[c])
                     /\ s_len[c] = Len(s_list[c])
                     /\ s_len[c] < TEST_ARR

\* An allocation fails only when public chunks are scarce: fewer than a batch
\* are free beyond what the batches and the freed lists of the cores can hold.
InUsePublic == Cardinality(used \cap Public)
Held == (Cardinality(Cores) - 1) * (ALLOC_NUM - 1) + Cardinality(Cores) * (TEST_ARR - 1)
NullMeansScarce ==
    [][out' # out /\ out'.chunk = NULL
        => /\ Private[out'.core] \subseteq used
           /\ Cardinality(Public) - InUsePublic < ALLOC_NUM + Held]_vars
=============================================================================
