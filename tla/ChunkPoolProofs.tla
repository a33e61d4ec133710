-------------------------- MODULE ChunkPoolProofs --------------------------
(***************************************************************************)
(* For any number of cores and chunks and any batch sizes: a chunk is in   *)
(* exactly one place, and the list counters are exact.                     *)
(***************************************************************************)
EXTENDS ChunkPool, SequenceTheorems, TLAPS

\* Private rings hold their own chunks only.
Home == \A c \in Cores : mempool_p[c] \subseteq Private[c]

\* No chunk is in two of the places that are sets.
SetsApart ==
    /\ used \cap mempool_s = {}
    /\ \A c \in Cores : used \cap mempool_p[c] = {}

\* A list holds only chunks that are in no set.
ListsApart ==
    \A c \in Cores :
        /\ \A i \in 1..Len(l_list[c]) : l_list[c][i] \notin used \cup mempool_s
        /\ \A i \in 1..Len(s_list[c]) : s_list[c][i] \notin used \cup mempool_s

\* No chunk is at two positions of the lists.
NoRepeats ==
    \A c, d \in Cores :
        /\ \A i \in 1..Len(l_list[c]), j \in 1..Len(l_list[d]) :
              l_list[c][i] = l_list[d][j] => c = d /\ i = j
        /\ \A i \in 1..Len(s_list[c]), j \in 1..Len(s_list[d]) :
              s_list[c][i] = s_list[d][j] => c = d /\ i = j
        /\ \A i \in 1..Len(l_list[c]), j \in 1..Len(s_list[d]) :
              l_list[c][i] # s_list[d][j]

\* Every chunk is somewhere.
Somewhere(x) ==
    \/ x \in used
    \/ x \in mempool_s
    \/ \E c \in Cores : x \in mempool_p[c]
    \/ \E c \in Cores : \E i \in 1..Len(l_list[c]) : l_list[c][i] = x
    \/ \E c \in Cores : \E i \in 1..Len(s_list[c]) : s_list[c][i] = x
Complete == \A x \in Chunks : Somewhere(x)

IInv == TypeOK /\ CountersExact /\ Home /\ SetsApart /\ ListsApart /\ NoRepeats /\ Complete

\* The chunks of a core's private ring are chunks of no other ring.
LEMMA PrivateApart ==
    ASSUME NEW c \in Cores, NEW x \in Private[c]
    PROVE  /\ x \in Chunks
           /\ x \notin Public
           /\ \A d \in Cores : x \in Private[d] => d = c
  BY PoolAssumption DEF Chunks

\* mempool_create establishes the invariant.
LEMMA InitInv == Init => IInv
<1> SUFFICES ASSUME Init PROVE IInv
  OBVIOUS
<1>1. TypeOK
  BY PoolAssumption DEF Init, TypeOK, Chunks
<1>2. CountersExact
  BY PoolAssumption DEF Init, CountersExact
<1>3. Home /\ SetsApart /\ ListsApart /\ NoRepeats
  BY PoolAssumption DEF Init, Home, SetsApart, ListsApart, NoRepeats
<1>4. Complete
  <2> SUFFICES ASSUME NEW x \in Chunks PROVE Somewhere(x)
    BY DEF Complete
  <2>1. x \in Public \/ \E c \in Cores : x \in Private[c]
    BY DEF Chunks
  <2> QED
    BY <2>1 DEF Init, Somewhere
<1> QED
  BY <1>1, <1>2, <1>3, <1>4 DEF IInv

\* A chunk from the private ring.
LEMMA PrivateInv ==
    ASSUME IInv, NEW c \in Cores, get_private(c)
    PROVE  IInv'
<1>1. PICK t \in mempool_p[c] :
        /\ mempool_p' = [mempool_p EXCEPT ![c] = @ \ {t}]
        /\ used' = used \cup {t}
        /\ out' = [core |-> c, chunk |-> t]
        /\ UNCHANGED <<mempool_s, l_list, l_len, s_list, s_len>>
  BY DEF get_private, HandOut
<1>2. t \in Private[c] /\ t \in Chunks /\ t \notin Public
  BY PrivateApart DEF IInv, Home
<1>3. TypeOK'
  BY <1>1, <1>2 DEF IInv, TypeOK
<1>4. CountersExact' /\ NoRepeats'
  BY <1>1 DEF IInv, CountersExact, NoRepeats
<1>5. Home'
  BY <1>1 DEF IInv, TypeOK, Home
<1>6. SetsApart'
  BY <1>1, <1>2, PrivateApart DEF IInv, TypeOK, Home, SetsApart
<1>7. ListsApart'
  <2> SUFFICES ASSUME NEW d \in Cores
               PROVE  /\ \A i \in 1..Len(l_list[d]) : l_list[d][i] \notin used' \cup mempool_s
                      /\ \A i \in 1..Len(s_list[d]) : s_list[d][i] \notin used' \cup mempool_s
    BY <1>1 DEF ListsApart
  <2>1. \A i \in 1..Len(l_list[d]) : l_list[d][i] \in Public
    BY DEF IInv, TypeOK
  <2>2. \A i \in 1..Len(s_list[d]) : s_list[d][i] \in Public
    BY DEF IInv, TypeOK
  <2> QED
    BY <2>1, <2>2, <1>1, <1>2 DEF IInv, ListsApart
<1>8. Complete'
  BY <1>1 DEF IInv, TypeOK, Complete, Somewhere
<1> QED
  BY <1>3, <1>4, <1>5, <1>6, <1>7, <1>8 DEF IInv

\* The head of the list of fetched chunks.
LEMMA LocalInv ==
    ASSUME IInv, NEW c \in Cores, get_local(c)
    PROVE  IInv'
<1> DEFINE L == l_list[c]
           M == Tail(L)
<1>1. L \in Seq(Public) /\ L # <<>> /\ Len(L) \in Nat /\ Len(L) >= 1
  BY DEF IInv, TypeOK, get_local
<1>2. /\ M \in Seq(Public)
      /\ Len(M) = Len(L) - 1
      /\ \A i \in 1..Len(M) : M[i] = L[i + 1] /\ i + 1 \in 1..Len(L) /\ i + 1 # 1
  BY <1>1
<1>3. Head(L) = L[1] /\ L[1] \in Public /\ 1 \in 1..Len(L) /\ L[1] \in Chunks
  <2>1. Head(L) = L[1] /\ L[1] \in Public /\ 1 \in 1..Len(L)
    BY <1>1
  <2> QED
    BY <2>1 DEF Chunks
<1>4. /\ l_list' = [l_list EXCEPT ![c] = M]
      /\ l_len' = [l_len EXCEPT ![c] = @ - 1]
      /\ used' = used \cup {L[1]}
      /\ out' = [core |-> c, chunk |-> L[1]]
      /\ UNCHANGED <<mempool_p, mempool_s, s_list, s_len>>
  BY <1>3 DEF get_local, HandOut
<1> HIDE DEF L, M
<1>4a. /\ l_list'[c] = M
       /\ \A d \in Cores \ {c} : l_list'[d] = l_list[d]
  BY <1>4 DEF IInv, TypeOK
<1>5. TypeOK'
  BY <1>2, <1>3, <1>4 DEF IInv, TypeOK
<1>6. CountersExact'
  BY <1>1, <1>2, <1>4 DEF IInv, TypeOK, CountersExact, L
<1>7. Home'
  BY <1>4 DEF IInv, Home
<1>8. SetsApart'
  <2>1. L[1] \notin mempool_s
    BY <1>1, <1>3 DEF IInv, ListsApart, L
  <2>2. \A d \in Cores : L[1] \notin mempool_p[d]
    BY <1>3, PrivateApart DEF IInv, Home
  <2> QED
    BY <1>4, <2>1, <2>2 DEF IInv, SetsApart
<1>9. ListsApart'
  <2>1. \A d \in Cores : \A i \in 1..Len(l_list'[d]) : l_list'[d][i] \notin used' \cup mempool_s
    <3> TAKE d \in Cores
    <3> TAKE i \in 1..Len(l_list'[d])
    <3>1. CASE d = c
      <4>1. i \in 1..Len(M) /\ l_list'[d][i] = L[i + 1] /\ i + 1 \in 1..Len(L) /\ i + 1 # 1
        BY <3>1, <1>2, <1>4a
      <4>2. L[i + 1] \notin used \cup mempool_s
        BY <4>1 DEF IInv, ListsApart, L
      <4>3. L[i + 1] # L[1]
        BY <4>1, <1>3 DEF IInv, NoRepeats, L
      <4> QED
        BY <4>1, <4>2, <4>3, <1>4
    <3>2. CASE d # c
      BY <3>2, <1>3, <1>4, <1>4a DEF IInv, ListsApart, NoRepeats, L
    <3> QED
      BY <3>1, <3>2
  <2>2. \A d \in Cores : \A i \in 1..Len(s_list[d]) : s_list[d][i] \notin used' \cup mempool_s
    BY <1>3, <1>4 DEF IInv, ListsApart, NoRepeats, L
  <2> QED
    BY <1>4, <2>1, <2>2 DEF ListsApart
<1>10. NoRepeats'
  <2>1. ASSUME NEW d \in Cores, NEW i \in 1..Len(l_list'[d])
        PROVE  \E k \in 1..Len(l_list[d]) :
                  l_list'[d][i] = l_list[d][k] /\ k = (IF d = c THEN i + 1 ELSE i)
    BY <1>2, <1>4a DEF L
  <2>2. ASSUME NEW d \in Cores, NEW e \in Cores
        PROVE  /\ \A i \in 1..Len(l_list'[d]), j \in 1..Len(l_list'[e]) :
                     l_list'[d][i] = l_list'[e][j] => d = e /\ i = j
               /\ \A i \in 1..Len(l_list'[d]), j \in 1..Len(s_list[e]) :
                     l_list'[d][i] # s_list[e][j]
    <3>1. ASSUME NEW i \in 1..Len(l_list'[d]), NEW j \in 1..Len(l_list'[e]),
                 l_list'[d][i] = l_list'[e][j]
          PROVE  d = e /\ i = j
      <4>1. PICK k \in 1..Len(l_list[d]) :
              l_list'[d][i] = l_list[d][k] /\ k = (IF d = c THEN i + 1 ELSE i)
        BY <2>1
      <4>2. PICK m \in 1..Len(l_list[e]) :
              l_list'[e][j] = l_list[e][m] /\ m = (IF e = c THEN j + 1 ELSE j)
        BY <2>1
      <4>3. l_list[d][k] = l_list[e][m]
        BY <3>1, <4>1, <4>2
      <4>3a. d = e /\ k = m
        BY <4>3 DEF IInv, NoRepeats
      <4>4. i \in Int /\ j \in Int
        BY <1>2, <1>4a DEF IInv, TypeOK
      <4> QED
        BY <4>1, <4>2, <4>3a, <4>4
    <3>2. ASSUME NEW i \in 1..Len(l_list'[d]), NEW j \in 1..Len(s_list[e])
          PROVE  l_list'[d][i] # s_list[e][j]
      <4>1. PICK k \in 1..Len(l_list[d]) : l_list'[d][i] = l_list[d][k]
        BY <2>1
      <4>2. l_list[d][k] # s_list[e][j]
        BY SMTT(30) DEF IInv, NoRepeats
      <4> QED
        BY <4>1, <4>2
    <3> QED
      BY <3>1, <3>2
  <2> QED
    BY <2>2, <1>4 DEF IInv, NoRepeats
<1>11. Complete'
  <2> SUFFICES ASSUME NEW x \in Chunks PROVE Somewhere(x)'
    BY DEF Complete
  <2>1. CASE \E d \in Cores : \E i \in 1..Len(l_list[d]) : l_list[d][i] = x
    <3> PICK d \in Cores : \E i \in 1..Len(l_list[d]) : l_list[d][i] = x
      BY <2>1
    <3> PICK i \in 1..Len(l_list[d]) : l_list[d][i] = x
      OBVIOUS
    <3>1. CASE d = c /\ i = 1
      BY <3>1, <1>4 DEF L, Somewhere
    <3>2. CASE d = c /\ i # 1
      <4>1. i - 1 \in 1..Len(M) /\ M[i - 1] = x
        BY <3>2, <1>1, <1>2 DEF L
      <4> QED
        BY <4>1, <3>2, <1>4a DEF Somewhere
    <3>3. CASE d # c
      BY <3>3, <1>4a DEF Somewhere
    <3> QED
      BY <3>1, <3>2, <3>3
  <2>2. CASE ~ \E d \in Cores : \E i \in 1..Len(l_list[d]) : l_list[d][i] = x
    BY <2>2, <1>4 DEF IInv, Complete, Somewhere
  <2> QED
    BY <2>1, <2>2
<1> QED
  BY <1>5, <1>6, <1>7, <1>8, <1>9, <1>10, <1>11 DEF IInv

\* A batch from the public ring.
LEMMA PublicInv ==
    ASSUME IInv, NEW c \in Cores, get_public(c)
    PROVE  IInv'
<1>1. PICK b \in Arrangements(mempool_s, ALLOC_NUM) :
        /\ mempool_s' = mempool_s \ Elems(b)
        /\ l_list' = [l_list EXCEPT ![c] =
                        IF l_len[c] = 0 THEN SubSeq(b, 1, ALLOC_NUM - 1)
                                        ELSE @ \o SubSeq(b, 1, ALLOC_NUM - 1)]
        /\ l_len' = [l_len EXCEPT ![c] = @ + (ALLOC_NUM - 1)]
        /\ used' = used \cup {b[ALLOC_NUM]}
        /\ out' = [core |-> c, chunk |-> b[ALLOC_NUM]]
  BY DEF get_public, HandOut
<1> DEFINE n == ALLOC_NUM - 1
           B == SubSeq(b, 1, n)
<1>2. n \in Nat /\ ALLOC_NUM \in Nat /\ ALLOC_NUM = n + 1 /\ ALLOC_NUM \in 1..ALLOC_NUM
  BY PoolAssumption
<1>3. /\ b \in [1..ALLOC_NUM -> mempool_s]
      /\ \A i, j \in 1..ALLOC_NUM : b[i] = b[j] => i = j
      /\ b \in [1..ALLOC_NUM -> Public]
  BY DEF Arrangements, IInv, TypeOK
<1>4. b \in Seq(Public) /\ Len(b) = ALLOC_NUM
  BY <1>2, <1>3
<1>5. /\ B \in Seq(Public)
      /\ Len(B) = n
      /\ \A i \in 1..n : B[i] = b[i] /\ i \in 1..ALLOC_NUM /\ i # ALLOC_NUM
  BY <1>2, <1>4
<1>6. Elems(b) = {b[i] : i \in 1..ALLOC_NUM}
  BY <1>4 DEF Elems
<1>7. l_list[c] = <<>> /\ l_len[c] = 0 /\ UNCHANGED <<mempool_p, s_list, s_len>>
  BY DEF get_public, IInv, CountersExact
<1>8. l_list' = [l_list EXCEPT ![c] = B] /\ l_len' = [l_len EXCEPT ![c] = @ + n]
  BY <1>1, <1>7
<1> HIDE DEF n, B
<1>9. /\ l_list'[c] = B
      /\ \A d \in Cores \ {c} : l_list'[d] = l_list[d]
  BY <1>8 DEF IInv, TypeOK
<1>10. b[ALLOC_NUM] \in Public /\ b[ALLOC_NUM] \in Chunks /\ b[ALLOC_NUM] \in mempool_s
  BY <1>2, <1>3 DEF Chunks
<1>11. TypeOK'
  <2>1. l_list' \in [Cores -> Seq(Public)]
    BY <1>5, <1>8 DEF IInv, TypeOK
  <2>2. l_len' \in [Cores -> Int]
    BY <1>2, <1>8 DEF IInv, TypeOK
  <2> QED
    BY <2>1, <2>2, <1>1, <1>7, <1>10 DEF IInv, TypeOK
<1>12. CountersExact'
  BY <1>2, <1>5, <1>7, <1>8, <1>9 DEF IInv, TypeOK, CountersExact
<1>13. Home'
  BY <1>7 DEF IInv, Home
<1>14. SetsApart'
  <2>1. \A d \in Cores : b[ALLOC_NUM] \notin mempool_p[d]
    BY <1>10, PrivateApart DEF IInv, Home
  <2>2. b[ALLOC_NUM] \notin mempool_s'
    BY <1>1, <1>2, <1>6
  <2> QED
    BY <1>1, <1>7, <2>1, <2>2 DEF IInv, SetsApart
<1>15. \A i \in 1..Len(B) : B[i] \in mempool_s /\ B[i] \notin used' \cup mempool_s'
  <2> TAKE i \in 1..Len(B)
  <2>1. B[i] = b[i] /\ i \in 1..ALLOC_NUM /\ i # ALLOC_NUM
    BY <1>5
  <2>2. b[i] \in mempool_s /\ b[i] # b[ALLOC_NUM] /\ b[i] \notin mempool_s'
    BY <2>1, <1>1, <1>2, <1>3, <1>6
  <2>3. b[i] \notin used
    BY <2>2 DEF IInv, SetsApart
  <2> QED
    BY <2>1, <2>2, <2>3, <1>1
<1>16. ASSUME NEW x, x \notin used \cup mempool_s PROVE x \notin used' \cup mempool_s'
  BY <1>1, <1>10, <1>16
<1>17. ListsApart'
  <2> SUFFICES ASSUME NEW d \in Cores
               PROVE  /\ \A i \in 1..Len(l_list'[d]) : l_list'[d][i] \notin used' \cup mempool_s'
                      /\ \A i \in 1..Len(s_list[d]) : s_list[d][i] \notin used' \cup mempool_s'
    BY <1>7 DEF ListsApart
  <2>1. \A i \in 1..Len(s_list[d]) : s_list[d][i] \notin used' \cup mempool_s'
    BY <1>16 DEF IInv, ListsApart
  <2>2. CASE d = c
    BY <2>1, <2>2, <1>9, <1>15
  <2>3. CASE d # c
    BY <2>1, <2>3, <1>9, <1>16 DEF IInv, ListsApart
  <2> QED
    BY <2>2, <2>3
<1>18. NoRepeats'
  <2>1. ASSUME NEW d \in Cores, NEW i \in 1..Len(l_list'[d])
        PROVE  \/ d = c /\ i \in 1..Len(B) /\ l_list'[d][i] = B[i]
               \/ d # c /\ l_list'[d] = l_list[d]
    BY <1>9
  <2>2. ASSUME NEW i \in 1..Len(B), NEW j \in 1..Len(B), B[i] = B[j] PROVE i = j
    BY <2>2, <1>3, <1>5
  <2>3. ASSUME NEW i \in 1..Len(B), NEW d \in Cores, NEW j \in 1..Len(l_list[d])
        PROVE  B[i] # l_list[d][j]
    BY <1>15 DEF IInv, ListsApart
  <2>4. ASSUME NEW i \in 1..Len(B), NEW d \in Cores, NEW j \in 1..Len(s_list[d])
        PROVE  B[i] # s_list[d][j]
    BY <1>15 DEF IInv, ListsApart
  <2>5. ASSUME NEW d \in Cores, NEW e \in Cores,
               NEW i \in 1..Len(l_list'[d]), NEW j \in 1..Len(l_list'[e]),
               l_list'[d][i] = l_list'[e][j]
        PROVE  d = e /\ i = j
    <3>1. CASE d = c /\ e = c
      BY <3>1, <2>2, <2>5, <1>9
    <3>2. CASE d = c /\ e # c
      BY <3>2, <2>3, <2>5, <1>9
    <3>3. CASE d # c /\ e = c
      BY <3>3, <2>3, <2>5, <1>9
    <3>4. CASE d # c /\ e # c
      <4>1. /\ i \in 1..Len(l_list[d]) /\ j \in 1..Len(l_list[e])
            /\ l_list[d][i] = l_list[e][j]
        BY <3>4, <2>5, <1>9
      <4> QED
        BY <4>1, SMTT(30) DEF IInv, NoRepeats
    <3> QED
      BY <3>1, <3>2, <3>3, <3>4
  <2>6. ASSUME NEW d \in Cores, NEW e \in Cores,
               NEW i \in 1..Len(l_list'[d]), NEW j \in 1..Len(s_list[e])
        PROVE  l_list'[d][i] # s_list[e][j]
    BY <2>1, <2>4 DEF IInv, NoRepeats
  <2> QED
    BY <2>5, <2>6, <1>7 DEF IInv, NoRepeats
<1>19. Complete'
  <2> SUFFICES ASSUME NEW x \in Chunks PROVE Somewhere(x)'
    BY DEF Complete
  <2>1. CASE x \in Elems(b)
    <3> PICK i \in 1..ALLOC_NUM : x = b[i]
      BY <2>1, <1>6
    <3>1. CASE i = ALLOC_NUM
      BY <3>1, <1>1 DEF Somewhere
    <3>2. CASE i # ALLOC_NUM
      <4>1. i \in 1..Len(B) /\ B[i] = x
        BY <3>2, <1>2, <1>5
      <4> QED
        BY <4>1, <1>9 DEF Somewhere
    <3> QED
      BY <3>1, <3>2
  <2>2. CASE x \notin Elems(b)
    <3>1. CASE \E d \in Cores : \E i \in 1..Len(l_list[d]) : l_list[d][i] = x
      <4>1. PICK d \in Cores : \E i \in 1..Len(l_list[d]) : l_list[d][i] = x
        BY <3>1
      <4>2. d # c
        BY <4>1, <1>7
      <4> QED
        BY <4>1, <4>2, <1>9 DEF Somewhere
    <3>2. CASE ~ \E d \in Cores : \E i \in 1..Len(l_list[d]) : l_list[d][i] = x
      BY <2>2, <3>2, <1>1, <1>7 DEF IInv, Complete, Somewhere
    <3> QED
      BY <3>1, <3>2
  <2> QED
    BY <2>1, <2>2
<1> QED
  BY <1>11, <1>12, <1>13, <1>14, <1>17, <1>18, <1>19 DEF IInv

\* The public ring has too few chunks: nothing but `out' changes.
LEMMA FailsInv ==
    ASSUME IInv, NEW c \in Cores, get_fails(c)
    PROVE  IInv'
<1>1. UNCHANGED <<mempool_p, mempool_s, l_list, l_len, s_list, s_len, used>>
  BY DEF get_fails
<1>2. TypeOK'
  BY <1>1 DEF IInv, TypeOK, get_fails
<1>3. CountersExact' /\ Home' /\ SetsApart' /\ ListsApart' /\ NoRepeats'
  <2>1. CountersExact' /\ Home' /\ SetsApart'
    BY <1>1 DEF IInv, CountersExact, Home, SetsApart
  <2>2. ListsApart'
    BY <1>1 DEF IInv, ListsApart
  <2>3. NoRepeats'
    BY <1>1, SMTT(30) DEF IInv, NoRepeats
  <2> QED
    BY <2>1, <2>2, <2>3
<1>4. Complete'
  BY <1>1 DEF IInv, Complete, Somewhere
<1> QED
  BY <1>2, <1>3, <1>4 DEF IInv

\* A chunk in use is in no ring and on no list.
LEMMA UsedApart ==
    ASSUME IInv, NEW x \in used
    PROVE  /\ x \in Chunks
           /\ x \notin mempool_s
           /\ \A d \in Cores : x \notin mempool_p[d]
           /\ \A d \in Cores : \A i \in 1..Len(l_list[d]) : l_list[d][i] # x
           /\ \A d \in Cores : \A i \in 1..Len(s_list[d]) : s_list[d][i] # x
  BY DEF IInv, TypeOK, SetsApart, ListsApart

\* A chunk back to its private ring.
LEMMA FreePrivateInv ==
    ASSUME IInv, NEW c \in Cores, NEW x \in used, mempool_free_chunk(c, x), free_private(c, x)
    PROVE  IInv'
<1>1. /\ x \in Private[c]
      /\ mempool_p' = [mempool_p EXCEPT ![c] = @ \cup {x}]
      /\ used' = used \ {x}
      /\ out' = [core |-> c, chunk |-> x]
      /\ UNCHANGED <<mempool_s, s_list, s_len, l_list, l_len>>
  BY DEF mempool_free_chunk, free_private
<1>2. x \in Chunks
  BY UsedApart
<1>3. TypeOK'
  BY <1>1, <1>2 DEF IInv, TypeOK
<1>4. CountersExact' /\ NoRepeats' /\ ListsApart'
  BY <1>1 DEF IInv, CountersExact, NoRepeats, ListsApart
<1>5. Home' /\ SetsApart'
  BY <1>1 DEF IInv, TypeOK, Home, SetsApart
<1>6. Complete'
  BY <1>1 DEF IInv, TypeOK, Complete, Somewhere
<1> QED
  BY <1>3, <1>4, <1>5, <1>6 DEF IInv

\* A public chunk onto the list of freed chunks, or with that list back to the
\* public ring.
LEMMA FreePublicInv ==
    ASSUME IInv, NEW c \in Cores, NEW x \in used, mempool_free_chunk(c, x), free_public(c, x)
    PROVE  IInv'
<1> DEFINE F == Freed(c, x)
           m == Len(s_list[c])
<1>1. /\ x \in Public
      /\ used' = used \ {x}
      /\ out' = [core |-> c, chunk |-> x]
      /\ UNCHANGED <<mempool_p, l_list, l_len>>
  BY DEF mempool_free_chunk, free_public
<1>2. s_list[c] \in Seq(Public) /\ m \in Nat /\ s_len[c] = m /\ m < TEST_ARR
  BY DEF IInv, TypeOK, CountersExact
<1>3. F = Append(s_list[c], x)
  <2>1. CASE m = 0
    <3>1. s_list[c] = <<>>
      BY <2>1, <1>2
    <3> QED
      BY <2>1, <3>1, <1>2 DEF Freed
  <2>2. CASE m # 0
    BY <2>2, <1>2 DEF Freed
  <2> QED
    BY <2>1, <2>2
<1>4. /\ F \in Seq(Public)
      /\ Len(F) = m + 1
      /\ F[m + 1] = x
      /\ \A i \in 1..m : F[i] = s_list[c][i]
  BY <1>1, <1>2, <1>3
<1>5. /\ x \in Chunks
      /\ x \notin mempool_s
      /\ \A d \in Cores : x \notin mempool_p[d]
      /\ \A d \in Cores : \A i \in 1..Len(l_list[d]) : l_list[d][i] # x
      /\ \A d \in Cores : \A i \in 1..Len(s_list[d]) : s_list[d][i] # x
  BY UsedApart
<1>6. Home'
  BY <1>1 DEF IInv, Home
<1> HIDE DEF F
<1>7. CASE s_len[c] # 0 /\ s_len[c] + 1 = TEST_ARR
  <2>1. /\ mempool_s' = mempool_s \cup Elems(SubSeq(F, 1, TEST_ARR))
        /\ s_list' = [s_list EXCEPT ![c] = <<>>]
        /\ s_len' = [s_len EXCEPT ![c] = 0]
    BY <1>7 DEF free_public, F
  <2>2. SubSeq(F, 1, TEST_ARR) = F
    BY <1>2, <1>4, <1>7
  <2>3. Elems(F) = {x} \cup {s_list[c][i] : i \in 1..m}
    <3>1. Elems(F) = {F[i] : i \in 1..(m + 1)}
      BY <1>4 DEF Elems
    <3>2. 1..(m + 1) = (1..m) \cup {m + 1}
      BY <1>2
    <3> QED
      BY <3>1, <3>2, <1>4
  <2>4. mempool_s' = mempool_s \cup {x} \cup {s_list[c][i] : i \in 1..m}
    BY <2>1, <2>2, <2>3
  <2>5. s_list'[c] = <<>> /\ \A d \in Cores \ {c} : s_list'[d] = s_list[d]
    BY <2>1 DEF IInv, TypeOK
  <2>6. \A i \in 1..m : s_list[c][i] \in Public
    BY <1>2
  <2>7. TypeOK'
    <3>1. mempool_s' \subseteq Public
      BY <2>4, <2>6, <1>1 DEF IInv, TypeOK
    <3> QED
      BY <3>1, <2>1, <1>1, <1>5 DEF IInv, TypeOK
  <2>8. CountersExact'
    BY <2>1, <2>5, <1>1, PoolAssumption DEF IInv, TypeOK, CountersExact
  <2>9. SetsApart'
    <3>1. \A i \in 1..m : s_list[c][i] \notin used
      BY DEF IInv, ListsApart
    <3> QED
      BY <3>1, <2>4, <1>1 DEF IInv, SetsApart
  <2>10. ListsApart'
    <3>1. ASSUME NEW d \in Cores, NEW i \in 1..Len(l_list[d])
          PROVE  l_list[d][i] \notin used' \cup mempool_s'
      BY <2>4, <1>1, <1>5 DEF IInv, ListsApart, NoRepeats
    <3>2. ASSUME NEW d \in Cores, NEW i \in 1..Len(s_list'[d])
          PROVE  s_list'[d][i] \notin used' \cup mempool_s'
      <4>1. d # c /\ s_list'[d] = s_list[d]
        BY <2>5
      <4>2. \A j \in 1..m : s_list[d][i] # s_list[c][j]
        BY <4>1 DEF IInv, NoRepeats
      <4> QED
        BY <4>1, <4>2, <2>4, <1>1, <1>5 DEF IInv, ListsApart
    <3> QED
      BY <3>1, <3>2, <1>1 DEF ListsApart
  <2>11. NoRepeats'
    <3>1. ASSUME NEW d \in Cores, NEW i \in 1..Len(s_list'[d])
          PROVE  d # c /\ s_list'[d] = s_list[d]
      BY <2>5
    <3>2. ASSUME NEW d \in Cores, NEW e \in Cores,
                 NEW i \in 1..Len(s_list'[d]), NEW j \in 1..Len(s_list'[e]),
                 s_list'[d][i] = s_list'[e][j]
          PROVE  d = e /\ i = j
      <4>1. s_list'[d] = s_list[d] /\ s_list'[e] = s_list[e]
        BY <3>1
      <4>2. i \in 1..Len(s_list[d]) /\ j \in 1..Len(s_list[e]) /\ s_list[d][i] = s_list[e][j]
        BY <4>1, <3>2
      <4> QED
        BY <4>2 DEF IInv, NoRepeats
    <3>3. ASSUME NEW d \in Cores, NEW e \in Cores,
                 NEW i \in 1..Len(l_list[d]), NEW j \in 1..Len(s_list'[e])
          PROVE  l_list[d][i] # s_list'[e][j]
      BY <3>1 DEF IInv, NoRepeats
    <3> QED
      BY <3>2, <3>3, <1>1 DEF IInv, NoRepeats
  <2>12. Complete'
    <3> SUFFICES ASSUME NEW y \in Chunks PROVE Somewhere(y)'
      BY DEF Complete
    <3>1. CASE y \in mempool_s'
      BY <3>1 DEF Somewhere
    <3>2. CASE y \notin mempool_s'
      <4>1. y # x /\ \A i \in 1..m : s_list[c][i] # y
        BY <3>2, <2>4
      <4>2. CASE \E d \in Cores : \E i \in 1..Len(s_list[d]) : s_list[d][i] = y
        <5>1. PICK d \in Cores : \E i \in 1..Len(s_list[d]) : s_list[d][i] = y
          BY <4>2
        <5>2. d # c
          BY <5>1, <4>1
        <5> QED
          BY <5>1, <5>2, <2>5 DEF Somewhere
      <4>3. CASE ~ \E d \in Cores : \E i \in 1..Len(s_list[d]) : s_list[d][i] = y
        BY <4>1, <4>3, <3>2, <2>4, <1>1 DEF IInv, Complete, Somewhere
      <4> QED
        BY <4>2, <4>3
    <3> QED
      BY <3>1, <3>2
  <2> QED
    BY <1>6, <2>7, <2>8, <2>9, <2>10, <2>11, <2>12 DEF IInv
<1>8. CASE ~ (s_len[c] # 0 /\ s_len[c] + 1 = TEST_ARR)
  <2>1. /\ s_list' = [s_list EXCEPT ![c] = F]
        /\ s_len' = [s_len EXCEPT ![c] = @ + 1]
        /\ UNCHANGED mempool_s
    BY <1>8 DEF free_public, F
  <2>2. s_list'[c] = F /\ \A d \in Cores \ {c} : s_list'[d] = s_list[d]
    BY <2>1 DEF IInv, TypeOK
  <2>3. TypeOK'
    BY <2>1, <1>1, <1>4, <1>5 DEF IInv, TypeOK
  <2>4. CountersExact'
    <3>1. s_len'[c] = m + 1 /\ Len(s_list'[c]) = m + 1 /\ m + 1 < TEST_ARR
      BY <2>1, <2>2, <1>2, <1>4, <1>8, PoolAssumption DEF IInv, TypeOK
    <3> QED
      BY <3>1, <2>1, <2>2, <1>1 DEF IInv, TypeOK, CountersExact
  <2>5. SetsApart'
    BY <2>1, <1>1 DEF IInv, SetsApart
  <2>6. ASSUME NEW d \in Cores, NEW i \in 1..Len(s_list'[d])
        PROVE  \/ d = c /\ i = m + 1 /\ s_list'[d][i] = x
               \/ i \in 1..Len(s_list[d]) /\ s_list'[d][i] = s_list[d][i]
    BY <2>2, <1>2, <1>4
  <2>7. ListsApart'
    <3>1. ASSUME NEW d \in Cores, NEW i \in 1..Len(l_list[d])
          PROVE  l_list[d][i] \notin used' \cup mempool_s'
      BY <2>1, <1>1 DEF IInv, ListsApart
    <3>2. ASSUME NEW d \in Cores, NEW i \in 1..Len(s_list'[d])
          PROVE  s_list'[d][i] \notin used' \cup mempool_s'
      BY <2>6, <2>1, <1>1, <1>5 DEF IInv, ListsApart
    <3> QED
      BY <3>1, <3>2, <1>1 DEF ListsApart
  <2>8. NoRepeats'
    <3>1. ASSUME NEW d \in Cores, NEW e \in Cores,
                 NEW i \in 1..Len(s_list'[d]), NEW j \in 1..Len(s_list'[e]),
                 s_list'[d][i] = s_list'[e][j]
          PROVE  d = e /\ i = j
      <4>1. CASE s_list'[d][i] = x
        <5>1. d = c /\ i = m + 1
          BY <4>1, <2>6, <1>5
        <5>2. e = c /\ j = m + 1
          BY <4>1, <3>1, <2>6, <1>5
        <5> QED
          BY <5>1, <5>2
      <4>2. CASE s_list'[d][i] # x
        <5>1. i \in 1..Len(s_list[d]) /\ s_list'[d][i] = s_list[d][i]
          BY <4>2, <2>6
        <5>2. j \in 1..Len(s_list[e]) /\ s_list'[e][j] = s_list[e][j]
          BY <4>2, <3>1, <2>6
        <5>3. s_list[d][i] = s_list[e][j]
          BY <5>1, <5>2, <3>1
        <5> QED
          BY <5>1, <5>2, <5>3 DEF IInv, NoRepeats
      <4> QED
        BY <4>1, <4>2
    <3>2. ASSUME NEW d \in Cores, NEW e \in Cores,
                 NEW i \in 1..Len(l_list[d]), NEW j \in 1..Len(s_list'[e])
          PROVE  l_list[d][i] # s_list'[e][j]
      BY <2>6, <1>5 DEF IInv, NoRepeats
    <3> QED
      BY <3>1, <3>2, <1>1 DEF IInv, NoRepeats
  <2>9. Complete'
    <3> SUFFICES ASSUME NEW y \in Chunks PROVE Somewhere(y)'
      BY DEF Complete
    <3>1. CASE y = x
      <4>1. m + 1 \in 1..Len(s_list'[c]) /\ s_list'[c][m + 1] = y
        BY <3>1, <2>2, <1>2, <1>4
      <4> QED
        BY <4>1 DEF Somewhere
    <3>2. CASE \E d \in Cores : \E i \in 1..Len(s_list[d]) : s_list[d][i] = y
      <4>1. PICK d \in Cores : \E i \in 1..Len(s_list[d]) : s_list[d][i] = y
        BY <3>2
      <4>2. PICK i \in 1..Len(s_list[d]) : s_list[d][i] = y
        BY <4>1
      <4>3. i \in 1..Len(s_list'[d]) /\ s_list'[d][i] = y
        BY <4>2, <2>2, <1>2, <1>4
      <4> QED
        BY <4>3 DEF Somewhere
    <3>3. CASE y # x /\ ~ \E d \in Cores : \E i \in 1..Len(s_list[d]) : s_list[d][i] = y
      BY <3>3, <2>1, <1>1 DEF IInv, Complete, Somewhere
    <3> QED
      BY <3>1, <3>2, <3>3
  <2> QED
    BY <1>6, <2>3, <2>4, <2>5, <2>7, <2>8, <2>9 DEF IInv
<1> QED
  BY <1>7, <1>8

\* Every call of the pool preserves the invariant.
LEMMA NextInv == IInv /\ [Next]_vars => IInv'
<1> SUFFICES ASSUME IInv, [Next]_vars PROVE IInv'
  OBVIOUS
<1>1. CASE Next
  <2>1. PICK c \in Cores : \/ mempool_alloc_chunk(c)
                           \/ \E x \in used : mempool_free_chunk(c, x)
    BY <1>1 DEF Next
  <2>2. CASE mempool_alloc_chunk(c)
    BY <2>2, PrivateInv, LocalInv, PublicInv, FailsInv DEF mempool_alloc_chunk
  <2>3. CASE \E x \in used : mempool_free_chunk(c, x)
    <3>1. PICK x \in used : mempool_free_chunk(c, x)
      BY <2>3
    <3>2. free_private(c, x) \/ free_public(c, x)
      BY <3>1 DEF mempool_free_chunk
    <3> QED
      BY <3>1, <3>2, FreePrivateInv, FreePublicInv
  <2> QED
    BY <2>1, <2>2, <2>3
<1>2. CASE UNCHANGED vars
  <2>1. TypeOK' /\ CountersExact' /\ Home' /\ SetsApart'
    BY <1>2 DEF vars, IInv, TypeOK, CountersExact, Home, SetsApart
  <2>2. ListsApart' /\ NoRepeats'
    <3>1. UNCHANGED <<used, mempool_s, l_list, s_list>>
      BY <1>2 DEF vars
    <3>2. ListsApart'
      BY <3>1 DEF IInv, ListsApart
    <3>3. NoRepeats'
      BY <3>1, SMTT(30) DEF IInv, NoRepeats
    <3> QED
      BY <3>2, <3>3
  <2>3. Complete'
    BY <1>2 DEF vars, IInv, Complete, Somewhere
  <2> QED
    BY <2>1, <2>2, <2>3 DEF IInv
<1> QED
  BY <1>1, <1>2

LEMMA PoolInvariant == Spec => []IInv
  BY InitInv, NextInv, PTL DEF Spec

\* The invariant gives every chunk one claim and no more.
LEMMA InvOnePlace == IInv => OnePlace
<1> SUFFICES ASSUME IInv, NEW x \in Chunks
             PROVE  /\ Claims(x) # {}
                    /\ \A p, q \in Claims(x) : p = q
  BY DEF OnePlace
<1>1. \A p : p \in Claims(x) <=>
        \/ x \in used /\ p = <<"used", 0, 0>>
        \/ x \in mempool_s /\ p = <<"public", 0, 0>>
        \/ \E c \in Cores : x \in mempool_p[c] /\ p = <<"private", c, 0>>
        \/ \E c \in Cores : \E i \in 1..Len(l_list[c]) : l_list[c][i] = x /\ p = <<"l", c, i>>
        \/ \E c \in Cores : \E i \in 1..Len(s_list[c]) : s_list[c][i] = x /\ p = <<"s", c, i>>
  BY DEF Claims
<1>2. Claims(x) # {}
  <2>1. Somewhere(x)
    BY DEF IInv, Complete
  <2>2. \E p : p \in Claims(x)
    BY <2>1, <1>1 DEF Somewhere
  <2> QED
    BY <2>2
<1>3. ASSUME NEW c \in Cores, x \in mempool_p[c]
      PROVE  x \notin Public /\ x \notin used /\ \A d \in Cores : x \in mempool_p[d] => d = c
  BY <1>3, PrivateApart DEF IInv, Home, SetsApart
<1>4. ASSUME NEW c \in Cores, NEW i \in 1..Len(l_list[c]), l_list[c][i] = x
      PROVE  /\ x \in Public /\ x \notin used /\ x \notin mempool_s
             /\ \A d \in Cores : \A j \in 1..Len(l_list[d]) : l_list[d][j] = x => d = c /\ j = i
             /\ \A d \in Cores : \A j \in 1..Len(s_list[d]) : s_list[d][j] # x
  BY <1>4 DEF IInv, TypeOK, ListsApart, NoRepeats
<1>5. ASSUME NEW c \in Cores, NEW i \in 1..Len(s_list[c]), s_list[c][i] = x
      PROVE  /\ x \in Public /\ x \notin used /\ x \notin mempool_s
             /\ \A d \in Cores : \A j \in 1..Len(s_list[d]) : s_list[d][j] = x => d = c /\ j = i
             /\ \A d \in Cores : \A j \in 1..Len(l_list[d]) : l_list[d][j] # x
  BY <1>5 DEF IInv, TypeOK, ListsApart, NoRepeats
<1>6. x \in mempool_s => x \in Public /\ x \notin used
  BY DEF IInv, TypeOK, SetsApart
<1>7. ASSUME NEW p \in Claims(x), NEW q \in Claims(x) PROVE p = q
  <2>1. CASE x \in used
    BY <2>1, <1>1, <1>3, <1>4, <1>5, <1>6
  <2>2. CASE x \in mempool_s
    BY <2>2, <1>1, <1>3, <1>4, <1>5, <1>6
  <2>3. CASE \E c \in Cores : x \in mempool_p[c]
    BY <2>3, <1>1, <1>3, <1>4, <1>5, <1>6
  <2>4. CASE \E c \in Cores : \E i \in 1..Len(l_list[c]) : l_list[c][i] = x
    <3> PICK c \in Cores : \E i \in 1..Len(l_list[c]) : l_list[c][i] = x
      BY <2>4
    <3> PICK i \in 1..Len(l_list[c]) : l_list[c][i] = x
      OBVIOUS
    <3>1. \A r \in Claims(x) : r = <<"l", c, i>>
      BY <1>1, <1>3, <1>4, <1>6, SMTT(30)
    <3> QED
      BY <3>1
  <2>5. CASE \E c \in Cores : \E i \in 1..Len(s_list[c]) : s_list[c][i] = x
    <3> PICK c \in Cores : \E i \in 1..Len(s_list[c]) : s_list[c][i] = x
      BY <2>5
    <3> PICK i \in 1..Len(s_list[c]) : s_list[c][i] = x
      OBVIOUS
    <3>1. \A r \in Claims(x) : r = <<"s", c, i>>
      BY <1>1, <1>3, <1>5, <1>6, SMTT(30)
    <3> QED
      BY <3>1
  <2> QED
    BY <2>1, <2>2, <2>3, <2>4, <2>5, <1>1
<1> QED
  BY <1>2, <1>7

\* mempool_alloc_chunk never hands out a chunk that is in use and no chunk is
\* lost, whatever the number of cores and chunks and the batch sizes.
THEOREM PoolOnePlace == Spec => []OnePlace
  BY PoolInvariant, InvOnePlace, PTL

\* The counters by which chunk_alloc_notype and chunk_free_notype decide are the
\* lengths of the lists.
THEOREM PoolCounters == Spec => []CountersExact
  BY PoolInvariant, PTL DEF IInv
=============================================================================
