------------------------ MODULE CircularQueueProofs ------------------------
(***************************************************************************)
(* For every ring size and every set of items: the indices stay in range,  *)
(* the two threads never race on a slot, and the ring implements the       *)
(* bounded first-in first-out queue.                                       *)
(***************************************************************************)
EXTENDS CircularQueue, TLAPS

(* What the threads rely on between their steps: a producer past its test  *)
(* still has room (the consumer only makes more), a consumer past its test *)
(* still has an item (the producer only adds more), and the slot each one  *)
(* works on is not touched by the other.                                   *)
Inv ==
    /\ TypeOK
    /\ ppc # "idle" => item \in Items /\ ~ cirq_full
    /\ ppc = "publish" => queue[head] = item
    /\ cpc # "idle" => ~ cirq_empty
    /\ cpc = "advance" => ret = queue[tail]

-----------------------------------------------------------------------------
(* Arithmetic of the ring. *)

(* cirq_succ steps to the next slot and wraps after the last one. *)
LEMMA SuccValue ==
    ASSUME NEW p \in Index
    PROVE  /\ cirq_succ(p) \in Index
           /\ cirq_succ(p) = IF p + 1 = Size THEN 0 ELSE p + 1
BY SizeAssumption DEF cirq_succ, Index

(* The slot k places after slot p. *)
LEMMA OffsetValue ==
    ASSUME NEW p \in Index, NEW k \in Index
    PROVE  /\ (p + k) % Size \in Index
           /\ (p + k) % Size = IF p + k < Size THEN p + k ELSE p + k - Size
BY SizeAssumption DEF Index

(* cirq_count is below Size, 0 exactly when the ring is empty, Size - 1    *)
(* exactly when it is full.                                                *)
LEMMA CountValue ==
    ASSUME head \in Index, tail \in Index
    PROVE  /\ cirq_count \in Index
           /\ cirq_count = 0 <=> cirq_empty
           /\ cirq_count = Size - 1 <=> cirq_full
BY SizeAssumption, SuccValue DEF cirq_count, cirq_empty, cirq_full, Index

-----------------------------------------------------------------------------
LEMMA InitInv == Init => Inv
BY SizeAssumption DEF Init, Inv, TypeOK, Index

LEMMA ProducerInv == Inv /\ Producer => Inv'
<1> SUFFICES ASSUME Inv, Producer PROVE Inv'
    OBVIOUS
<1> USE DEF Inv, TypeOK
<1>1. ASSUME NEW it \in Items, cirq_add_test(it) PROVE Inv'
    BY <1>1 DEF cirq_add_test, consVars, cirq_full, cirq_empty, cirq_succ
<1>2. CASE cirq_add_store
    <2>1. cpc = "advance" => queue'[tail] = queue[tail]
        BY <1>2 DEF cirq_add_store, cirq_empty
    <2>. QED
        BY <1>2, <2>1 DEF cirq_add_store, consVars, cirq_full, cirq_empty, cirq_succ
<1>3. CASE cirq_add_publish
    BY <1>3, SuccValue DEF cirq_add_publish, consVars, cirq_full, cirq_empty
<1>. QED
    BY <1>1, <1>2, <1>3 DEF Producer

LEMMA ConsumerInv == Inv /\ Consumer => Inv'
<1> SUFFICES ASSUME Inv, Consumer PROVE Inv'
    OBVIOUS
<1> USE DEF Inv, TypeOK
<1>1. CASE cirq_get_test
    BY <1>1 DEF cirq_get_test, prodVars, cirq_full, cirq_empty, cirq_succ
<1>2. CASE cirq_get_load
    BY <1>2 DEF cirq_get_load, prodVars, cirq_full, cirq_empty, cirq_succ
<1>3. CASE cirq_get_advance
    <2>1. ppc # "idle" => ~ cirq_full'
        (* succ(head) = succ(tail) would mean the ring was empty before. *)
        BY <1>3, SuccValue, SizeAssumption
           DEF cirq_get_advance, prodVars, cirq_full, cirq_empty, Index
    <2>. QED
        BY <1>3, <2>1, SuccValue DEF cirq_get_advance, prodVars, cirq_empty
<1>4. CASE cirq_prefetch_test
    BY <1>4 DEF cirq_prefetch_test, prodVars, cirq_full, cirq_empty, cirq_succ
<1>5. CASE cirq_prefetch_load
    BY <1>5 DEF cirq_prefetch_load, prodVars, cirq_full, cirq_empty, cirq_succ, Index
<1>. QED
    BY <1>1, <1>2, <1>3, <1>4, <1>5 DEF Consumer

THEOREM Invariance == Spec => []Inv
<1>1. Inv /\ UNCHANGED vars => Inv'
    BY DEF Inv, TypeOK, vars, cirq_full, cirq_empty, cirq_succ
<1>. QED
    BY <1>1, InitInv, ProducerInv, ConsumerInv, PTL DEF Spec, Next

(* Both indices stay inside the array whatever the interleaving. *)
THEOREM TypeCorrect == Spec => []TypeOK
<1>1. Inv => TypeOK
    BY DEF Inv
<1>. QED
    BY <1>1, Invariance, PTL

(* cirq_add and cirq_get never access the same slot at the same time. *)
THEOREM SlotRaceFreedom == Spec => []NoSlotRace
<1>1. Inv => NoSlotRace
    BY DEF Inv, NoSlotRace, cirq_empty
<1>. QED
    BY <1>1, Invariance, PTL

-----------------------------------------------------------------------------
(* Refinement. *)

(* The ring's contents form a sequence; entry i is the slot i - 1 places   *)
(* after tail.                                                             *)
ContentsOK ==
    /\ cirq_count \in Index
    /\ Contents \in Seq(Items \cup {NULL})
    /\ Len(Contents) = cirq_count
    /\ \A i \in 1 .. cirq_count :
          Contents[i] = queue[IF tail + i - 1 < Size
                                THEN tail + i - 1
                                ELSE tail + i - 1 - Size]

LEMMA ContentsSeq == TypeOK => ContentsOK
<1> SUFFICES ASSUME TypeOK PROVE ContentsOK
    OBVIOUS
<1>1. cirq_count \in Index /\ cirq_count \in Nat
    BY CountValue, SizeAssumption DEF TypeOK, Index
<1>2. ASSUME NEW i \in 1 .. cirq_count
      PROVE  /\ (tail + i - 1) % Size \in Index
             /\ (tail + i - 1) % Size = IF tail + i - 1 < Size
                                          THEN tail + i - 1
                                          ELSE tail + i - 1 - Size
    <2>1. i - 1 \in Index /\ tail + i - 1 = tail + (i - 1)
        BY CountValue, SizeAssumption DEF TypeOK, Index
    <2>. QED
        BY <2>1, OffsetValue DEF TypeOK
<1>3. ASSUME NEW i \in 1 .. cirq_count
      PROVE  queue[(tail + i - 1) % Size] \in Items \cup {NULL}
    BY <1>2 DEF TypeOK
<1>4. Contents \in Seq(Items \cup {NULL}) /\ Len(Contents) = cirq_count
    BY <1>1, <1>3 DEF Contents
<1>5. ASSUME NEW i \in 1 .. cirq_count
      PROVE  Contents[i] = queue[(tail + i - 1) % Size]
    BY DEF Contents
<1>. QED
    BY <1>1, <1>2, <1>4, <1>5 DEF ContentsOK

LEMMA ContentsSeqNext == TypeOK' => ContentsOK'
BY ContentsSeq, PTL

(* The oldest item of a ring that is not empty is the one at tail. *)
LEMMA ContentsHead ==
    ASSUME TypeOK, ~ cirq_empty
    PROVE  Contents # <<>> /\ Head(Contents) = queue[tail]
<1>1. cirq_count \in Nat \ {0}
    BY CountValue, SizeAssumption DEF TypeOK, Index
<1>2. Contents[1] = queue[tail]
    BY <1>1, ContentsSeq, SizeAssumption DEF ContentsOK, TypeOK, Index
<1>3. Contents \in Seq(Items \cup {NULL}) /\ Len(Contents) # 0
    BY <1>1, ContentsSeq DEF ContentsOK
<1>. QED
    BY <1>2, <1>3

(* The entries of an extended sequence. *)
LEMMA AppendEntries ==
    ASSUME NEW S, NEW s \in Seq(S), NEW e \in S
    PROVE  /\ Append(s, e)[Len(s) + 1] = e
           /\ \A i \in 1 .. Len(s) : Append(s, e)[i] = s[i]
OBVIOUS

(* Publishing head appends the stored item. *)
LEMMA PublishAppends ==
    ASSUME Inv, cirq_add_publish
    PROVE  Contents' = Append(Contents, item)
<1>1. /\ TypeOK /\ TypeOK' /\ ContentsOK /\ ContentsOK'
      /\ item \in Items \cup {NULL}
    BY ProducerInv, ContentsSeq, ContentsSeqNext DEF Inv, TypeOK, Producer
<1>2. /\ ~ cirq_full /\ queue[head] = item
      /\ head' = (IF head + 1 = Size THEN 0 ELSE head + 1)
      /\ tail' = tail /\ queue' = queue
    BY <1>1, SuccValue DEF Inv, TypeOK, cirq_add_publish
<1>3. (IF head + 1 = Size THEN 0 ELSE head + 1) # tail
    BY <1>1, <1>2, SuccValue DEF TypeOK, cirq_full
<1>4. cirq_count' = cirq_count + 1
    BY <1>1, <1>2, <1>3, SizeAssumption DEF TypeOK, cirq_count, Index
<1>5. head = (IF tail + cirq_count < Size THEN tail + cirq_count
                                          ELSE tail + cirq_count - Size)
    BY <1>1, SizeAssumption DEF TypeOK, cirq_count, Index
<1>6. cirq_count \in Nat
    BY <1>1, SizeAssumption DEF ContentsOK, Index
<1>7. /\ Append(Contents, item)[cirq_count + 1] = item
      /\ \A i \in 1 .. cirq_count : Append(Contents, item)[i] = Contents[i]
    BY <1>1, AppendEntries DEF ContentsOK
<1>8. ASSUME NEW i \in 1 .. cirq_count + 1
      PROVE  Contents'[i] = Append(Contents, item)[i]
    <2>1. CASE i = cirq_count + 1
        <3>1. (IF tail + i - 1 < Size THEN tail + i - 1 ELSE tail + i - 1 - Size) = head
            BY <1>1, <1>5, <1>6, <2>1, SizeAssumption DEF TypeOK, Index
        <3>2. i \in 1 .. cirq_count'
            BY <1>4
        <3>3. Contents'[i] = queue[IF tail + i - 1 < Size
                                     THEN tail + i - 1
                                     ELSE tail + i - 1 - Size]
            BY <1>1, <1>2, <3>2 DEF ContentsOK
        <3>4. Contents'[i] = queue[head]
            BY <3>1, <3>3
        <3>. QED
            BY <1>2, <1>7, <2>1, <3>4
    <2>2. CASE i \in 1 .. cirq_count
        <3>1. Contents'[i] = Contents[i]
            BY <1>1, <1>2, <1>4, <2>2 DEF ContentsOK
        <3>. QED
            BY <1>7, <2>2, <3>1
    <2>3. i = cirq_count + 1 \/ i \in 1 .. cirq_count
        BY <1>6
    <2>. QED
        BY <2>1, <2>2, <2>3
<1>9. /\ Contents' \in Seq(Items \cup {NULL})
      /\ Append(Contents, item) \in Seq(Items \cup {NULL})
      /\ Len(Contents') = cirq_count + 1
      /\ Len(Append(Contents, item)) = cirq_count + 1
    BY <1>1, <1>4 DEF ContentsOK
<1>. QED
    BY <1>8, <1>9

(* Advancing tail removes the oldest item. *)
LEMMA AdvanceRemoves ==
    ASSUME Inv, cirq_get_advance
    PROVE  Contents' = Tail(Contents)
<1>1. TypeOK /\ TypeOK' /\ ContentsOK /\ ContentsOK'
    BY ConsumerInv, ContentsSeq, ContentsSeqNext DEF Inv, Consumer
<1>2. /\ head # tail
      /\ tail' = (IF tail + 1 = Size THEN 0 ELSE tail + 1)
      /\ head' = head /\ queue' = queue
    BY <1>1, SuccValue DEF Inv, TypeOK, cirq_get_advance, cirq_empty
<1>3. cirq_count \in Nat \ {0} /\ cirq_count' = cirq_count - 1
    BY <1>1, <1>2, SizeAssumption DEF TypeOK, cirq_count, Index
<1>4. ASSUME NEW i \in 1 .. cirq_count - 1
      PROVE  Contents'[i] = Contents[i + 1]
    <2>1. (IF tail' + i - 1 < Size THEN tail' + i - 1 ELSE tail' + i - 1 - Size)
            = (IF tail + (i + 1) - 1 < Size THEN tail + (i + 1) - 1
                                            ELSE tail + (i + 1) - 1 - Size)
        BY <1>1, <1>2, <1>3, SizeAssumption DEF ContentsOK, TypeOK, Index
    <2>2. i + 1 \in 1 .. cirq_count /\ i \in 1 .. cirq_count'
        BY <1>3
    <2>. QED
        BY <1>1, <1>2, <2>1, <2>2 DEF ContentsOK
<1>5. /\ Contents \in Seq(Items \cup {NULL}) /\ Contents # <<>>
      /\ Len(Contents) = cirq_count
      /\ Contents' \in Seq(Items \cup {NULL}) /\ Len(Contents') = cirq_count - 1
    BY <1>1, <1>3 DEF ContentsOK
<1>6. /\ Tail(Contents) \in Seq(Items \cup {NULL})
      /\ Len(Tail(Contents)) = cirq_count - 1
      /\ \A i \in 1 .. cirq_count - 1 : Tail(Contents)[i] = Contents[i + 1]
    BY <1>3, <1>5
<1>. QED
    BY <1>4, <1>5, <1>6

(* Storing to the slot at head leaves the published items alone. *)
LEMMA StoreInvisible ==
    ASSUME Inv, cirq_add_store
    PROVE  Contents' = Contents
<1>1. TypeOK /\ TypeOK' /\ ContentsOK /\ ContentsOK'
    BY ProducerInv, ContentsSeq, ContentsSeqNext DEF Inv, Producer
<1>2. cirq_count' = cirq_count /\ cirq_count \in Nat /\ tail' = tail
    BY <1>1, SizeAssumption DEF ContentsOK, cirq_add_store, cirq_count, Index
<1>3. ASSUME NEW i \in 1 .. cirq_count
      PROVE  Contents'[i] = Contents[i]
    <2> DEFINE slot == IF tail + i - 1 < Size THEN tail + i - 1
                                              ELSE tail + i - 1 - Size
    <2>1. slot \in Index \ {head}
        BY <1>1, SizeAssumption DEF TypeOK, cirq_count, Index
    <2>2. queue'[slot] = queue[slot]
        BY <1>1, <2>1 DEF cirq_add_store, TypeOK
    <2>. QED
        BY <1>1, <1>2, <2>2 DEF ContentsOK
<1>. QED
    BY <1>1, <1>2, <1>3 DEF ContentsOK

(* A step that touches neither the slots nor the indices. *)
LEMMA ContentsUnchanged ==
    UNCHANGED <<queue, head, tail>> => Contents' = Contents
BY DEF Contents, cirq_count
(* The detailed ring implements the bounded FIFO: the calls of cirq_add,   *)
(* cirq_get and cirq_prefetch are atomic for both threads, in order,       *)
(* without loss or duplication, and FAILED and NULL are exact.             *)
THEOREM Refinement == Spec => ImplementsFifo
<1>1. Init => Fifo!FifoInit
    <2> SUFFICES ASSUME Init PROVE Fifo!FifoInit
        OBVIOUS
    <2>1. cirq_count = 0
        BY DEF Init, cirq_count
    <2>2. Contents = <<>>
        BY <2>1 DEF Contents
    <2>. QED
        BY <2>2 DEF Init, Fifo!FifoInit
<1>2. ASSUME Inv, [Next]_vars PROVE [Fifo!FifoNext]_Fifo!fifoVars
    <2>1. CASE UNCHANGED vars
        BY <2>1, ContentsUnchanged DEF vars, Fifo!fifoVars
    <2>2. ASSUME NEW it \in Items, cirq_add_test(it)
          PROVE  [Fifo!FifoNext]_Fifo!fifoVars
        <3>1. Contents' = Contents /\ gret' = gret
            BY <2>2, ContentsUnchanged DEF cirq_add_test, consVars
        <3>2. CASE cirq_full
            <4>1. Len(Contents) = Size - 1
                BY <1>2, <3>2, ContentsSeq, CountValue DEF Inv, TypeOK, ContentsOK
            <4>2. Fifo!EnqueueFull
                BY <2>2, <3>1, <3>2, <4>1 DEF cirq_add_test, Fifo!EnqueueFull
            <4>. QED
                BY <4>2 DEF Fifo!FifoNext
        <3>3. CASE ~ cirq_full
            BY <2>2, <3>1, <3>3 DEF cirq_add_test, Fifo!fifoVars
        <3>. QED
            BY <3>2, <3>3
    <2>3. CASE cirq_add_store
        BY <1>2, <2>3, StoreInvisible DEF cirq_add_store, consVars, Fifo!fifoVars
    <2>4. CASE cirq_add_publish
        <3>1. Len(Contents) < Size - 1
            BY <1>2, <2>4, ContentsSeq, CountValue, SizeAssumption
               DEF Inv, TypeOK, ContentsOK, Index, cirq_add_publish
        <3>2. Contents' = Append(Contents, item) /\ item \in Items
            BY <1>2, <2>4, PublishAppends DEF Inv, cirq_add_publish
        <3>3. Fifo!Enqueue(item)
            BY <2>4, <3>1, <3>2 DEF cirq_add_publish, consVars, Fifo!Enqueue
        <3>. QED
            BY <3>2, <3>3 DEF Fifo!FifoNext
    <2>5. CASE cirq_get_test \/ cirq_prefetch_test
        <3>1. Contents' = Contents /\ aret' = aret
            BY <2>5, ContentsUnchanged DEF cirq_get_test, cirq_prefetch_test, prodVars
        <3>2. CASE cirq_empty
            <4>1. Contents = <<>>
                BY <1>2, <3>2, ContentsSeq, CountValue DEF Inv, TypeOK, ContentsOK
            <4>2. Fifo!DequeueEmpty
                BY <2>5, <3>1, <3>2, <4>1
                   DEF cirq_get_test, cirq_prefetch_test, Fifo!DequeueEmpty
            <4>. QED
                BY <4>2 DEF Fifo!FifoNext
        <3>3. CASE ~ cirq_empty
            BY <2>5, <3>1, <3>3 DEF cirq_get_test, cirq_prefetch_test, Fifo!fifoVars
        <3>. QED
            BY <3>2, <3>3
    <2>6. CASE cirq_get_load
        BY <2>6, ContentsUnchanged DEF cirq_get_load, prodVars, Fifo!fifoVars
    <2>7. CASE cirq_get_advance
        <3>1. Contents # <<>> /\ gret' = Head(Contents)
            BY <1>2, <2>7, ContentsHead DEF Inv, cirq_get_advance
        <3>2. Contents' = Tail(Contents)
            BY <1>2, <2>7, AdvanceRemoves
        <3>3. Fifo!Dequeue
            BY <2>7, <3>1, <3>2 DEF cirq_get_advance, prodVars, Fifo!Dequeue
        <3>. QED
            BY <3>3 DEF Fifo!FifoNext
    <2>8. CASE cirq_prefetch_load
        <3>1. Contents # <<>> /\ gret' = Head(Contents)
            BY <1>2, <2>8, ContentsHead DEF Inv, cirq_prefetch_load
        <3>2. Fifo!Peek
            BY <2>8, <3>1, ContentsUnchanged DEF cirq_prefetch_load, prodVars, Fifo!Peek
        <3>. QED
            BY <3>2 DEF Fifo!FifoNext
    <2>. QED
        BY <1>2, <2>1, <2>2, <2>3, <2>4, <2>5, <2>6, <2>7, <2>8
           DEF Next, Producer, Consumer
<1>. QED
    BY <1>1, <1>2, Invariance, PTL DEF Spec, ImplementsFifo, Fifo!FifoSpec
=============================================================================
