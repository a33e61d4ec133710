--------------------------- MODULE N21QueueProofs --------------------------
(***************************************************************************)
(* For every number of producers and every queue capacity: the walk of the *)
(* consumer overlooks no queue, and the round robin of the strong dequeue  *)
(* lets a waiting queue be passed at most N - 1 times.                     *)
(***************************************************************************)
EXTENDS N21Queue, TLAPS

(* How many queues the walk visits from p before it comes to i. *)
Dist(p, i) == IF i >= p THEN i - p ELSE i + N - p

(* The round robin as a potential: an item waiting in queue i can still be *)
(* passed at most once for every queue between queue_point and i.          *)
BypassInv ==
    \A i \in Queues :
        /\ queues[i] = <<>> => passed[i] = 0
        /\ dequeue = "strong" /\ queues[i] # <<>> =>
              passed[i] + Dist(queue_point, i) <= N - 1

(* A queue that was non-empty when the call began still is, and lies ahead *)
(* of the walk.                                                            *)
WalkInv ==
    cpc = "walk" =>
        \A i \in waiting :
            /\ queues[i] # <<>>
            /\ Dist(start_point, queue_point) <= Dist(start_point, i)

Inv == TypeOK /\ BypassInv /\ WalkInv

-----------------------------------------------------------------------------
(* A step forward brings every other queue one place nearer, and the queue *)
(* just visited to the far end.                                            *)
LEMMA StepDist ==
    ASSUME NEW p \in Queues, NEW i \in Queues
    PROVE  /\ n21q_succ(p) \in Queues
           /\ Dist(p, i) \in 0 .. N - 1
           /\ i # p => Dist(n21q_succ(p), i) = Dist(p, i) - 1
BY NAssumption DEF n21q_succ, Dist, Queues

(* The walk moves away from its start, until it is back there. *)
LEMMA StartDist ==
    ASSUME NEW s \in Queues, NEW p \in Queues
    PROVE  /\ n21q_succ(p) # s => Dist(s, n21q_succ(p)) = Dist(s, p) + 1
           /\ n21q_succ(p) = s => Dist(s, p) = N - 1
BY NAssumption DEF n21q_succ, Dist, Queues

(* Different queues are at different distances. *)
LEMMA DistInjective ==
    ASSUME NEW s \in Queues, NEW p \in Queues, NEW i \in Queues,
           Dist(s, p) = Dist(s, i)
    PROVE  p = i
BY NAssumption DEF Dist, Queues

-----------------------------------------------------------------------------
LEMMA InitInv == Init => Inv
BY NAssumption, CapacityAssumption, StepDist
   DEF Init, Inv, TypeOK, BypassInv, WalkInv, Queues

LEMMA EnqueueInv ==
    ASSUME Inv, NEW q_id \in Queues, NEW item \in Items, n21q_enqueue(q_id, item)
    PROVE  Inv'
<1>1. /\ queues' \in [Queues -> Seq(Items)]
      /\ queues'[q_id] = Append(queues[q_id], item)
      /\ \A i \in Queues \ {q_id} : queues'[i] = queues[i]
    BY DEF Inv, TypeOK, n21q_enqueue
<1>2. queues'[q_id] # <<>> /\ Len(queues'[q_id]) = Len(queues[q_id]) + 1
    BY <1>1 DEF Inv, TypeOK
<1>3. TypeOK'
    BY <1>1, <1>2, CapacityAssumption DEF Inv, TypeOK, n21q_enqueue
<1>4. BypassInv'
    <2> SUFFICES ASSUME NEW i \in Queues
                 PROVE  /\ queues'[i] = <<>> => passed'[i] = 0
                        /\ dequeue' = "strong" /\ queues'[i] # <<>> =>
                              passed'[i] + Dist(queue_point', i) <= N - 1
        BY DEF BypassInv, Dist
    <2>1. Dist(queue_point, i) \in 0 .. N - 1 /\ queue_point' = queue_point
        BY StepDist DEF Inv, TypeOK, n21q_enqueue
    <2>2. CASE queues[i] = <<>>
        (* A queue that was empty has not been passed yet. *)
        <3>1. passed'[i] = 0
            BY <2>2 DEF Inv, BypassInv, n21q_enqueue
        <3>. QED
            BY <2>1, <3>1, NAssumption
    <2>3. CASE queues[i] # <<>>
        BY <1>1, <1>2, <2>1, <2>3 DEF Inv, BypassInv, n21q_enqueue
    <2>. QED
        BY <2>2, <2>3
<1>5. WalkInv'
    BY <1>1, <1>2 DEF Inv, TypeOK, WalkInv, n21q_enqueue, Dist
<1>. QED
    BY <1>3, <1>4, <1>5 DEF Inv

LEMMA BeginInv == Inv /\ n21q_dequeue_begin => Inv'
<1> SUFFICES ASSUME Inv, n21q_dequeue_begin PROVE Inv'
    OBVIOUS
<1>1. TypeOK' /\ BypassInv'
    BY DEF Inv, TypeOK, BypassInv, n21q_dequeue_begin, Dist
<1>2. WalkInv'
    BY NAssumption DEF Inv, TypeOK, WalkInv, n21q_dequeue_begin, Dist, Queues
<1>. QED
    BY <1>1, <1>2 DEF Inv

LEMMA FoundInv == Inv /\ n21q_dequeue_found => Inv'
<1> SUFFICES ASSUME Inv, n21q_dequeue_found PROVE Inv'
    OBVIOUS
<1> DEFINE k == queue_point
<1>1. k \in Queues /\ queues[k] \in Seq(Items) /\ queues[k] # <<>>
    BY DEF Inv, TypeOK, n21q_dequeue_found
<1>2. /\ queues' \in [Queues -> Seq(Items)]
      /\ Head(queues[k]) \in Items
      /\ Len(queues'[k]) <= Capacity
      /\ \A i \in Queues \ {k} : queues'[i] = queues[i]
    BY <1>1, CapacityAssumption DEF Inv, TypeOK, n21q_dequeue_found
<1>3. passed' \in [Queues -> Nat]
    BY DEF Inv, TypeOK, n21q_dequeue_found, NotePassed
<1>4. TypeOK'
    BY <1>1, <1>2, <1>3, StepDist DEF Inv, TypeOK, n21q_dequeue_found
<1>5. BypassInv'
    <2> SUFFICES ASSUME NEW i \in Queues
                 PROVE  /\ queues'[i] = <<>> => passed'[i] = 0
                        /\ dequeue' = "strong" /\ queues'[i] # <<>> =>
                              passed'[i] + Dist(queue_point', i) <= N - 1
        BY DEF BypassInv, Dist
    <2>1. CASE i = k
        BY <1>1, <1>4, <2>1, StepDist, NAssumption
           DEF n21q_dequeue_found, NotePassed, TypeOK, Queues
    <2>2. CASE i # k
        <3>1. queues'[i] = queues[i]
            BY <1>2, <2>2
        <3>2. CASE queues[i] = <<>>
            BY <3>1, <3>2 DEF n21q_dequeue_found, NotePassed
        <3>3. CASE queues[i] # <<>> /\ dequeue = "strong"
            <4>1. passed[i] + Dist(k, i) <= N - 1 /\ passed[i] \in Nat
                BY <3>3 DEF Inv, BypassInv, TypeOK
            <4>2. passed'[i] = passed[i] + 1 /\ queue_point' = n21q_succ(k)
                BY <2>2, <3>3 DEF n21q_dequeue_found, NotePassed
            <4>3. Dist(n21q_succ(k), i) = Dist(k, i) - 1 /\ Dist(k, i) \in 0 .. N - 1
                BY <1>1, <2>2, StepDist
            <4>. QED
                BY <3>1, <3>3, <4>1, <4>2, <4>3, NAssumption
        <3>4. CASE dequeue # "strong"
            BY <3>1, <3>4 DEF n21q_dequeue_found, NotePassed, Inv, TypeOK
        <3>. QED
            BY <3>2, <3>3, <3>4
    <2>. QED
        BY <2>1, <2>2
<1>6. WalkInv'
    BY DEF WalkInv, n21q_dequeue_found
<1>. QED
    BY <1>4, <1>5, <1>6 DEF Inv

(* The walk leaves an empty queue behind: what was waiting is further on,  *)
(* and nothing was waiting if the walk is back at its start.               *)
LEMMA WalkAhead ==
    ASSUME Inv, n21q_dequeue_next
    PROVE  /\ \A i \in waiting :
                 Dist(start_point, queue_point) + 1 <= Dist(start_point, i)
           /\ n21q_succ(queue_point) = start_point => waiting = {}
<1>1. ASSUME NEW i \in waiting
      PROVE  Dist(start_point, queue_point) + 1 <= Dist(start_point, i)
    <2>1. /\ i \in Queues /\ i # queue_point
          /\ Dist(start_point, queue_point) <= Dist(start_point, i)
        BY DEF Inv, TypeOK, WalkInv, n21q_dequeue_next
    <2>2. /\ Dist(start_point, queue_point) \in 0 .. N - 1
          /\ Dist(start_point, i) \in 0 .. N - 1
          /\ Dist(start_point, queue_point) # Dist(start_point, i)
        BY <2>1, StepDist, DistInjective DEF Inv, TypeOK
    <2>. QED
        BY <2>1, <2>2
<1>2. ASSUME n21q_succ(queue_point) = start_point, NEW i \in waiting
      PROVE  FALSE
    <2>1. i \in Queues /\ start_point \in Queues /\ queue_point \in Queues
        BY DEF Inv, TypeOK
    <2>2. Dist(start_point, queue_point) = N - 1 /\ Dist(start_point, i) \in 0 .. N - 1
        BY <1>2, <2>1, StartDist, StepDist
    <2>. QED
        BY <1>1, <2>2, NAssumption
<1>. QED
    BY <1>1, <1>2

LEMMA NextInv == Inv /\ n21q_dequeue_next => Inv'
<1> SUFFICES ASSUME Inv, n21q_dequeue_next PROVE Inv'
    OBVIOUS
<1>1. TypeOK'
    BY StepDist DEF Inv, TypeOK, n21q_dequeue_next
<1>2. BypassInv'
    <2> SUFFICES ASSUME NEW i \in Queues
                 PROVE  /\ queues'[i] = <<>> => passed'[i] = 0
                        /\ dequeue' = "strong" /\ queues'[i] # <<>> =>
                              passed'[i] + Dist(queue_point', i) <= N - 1
        BY DEF BypassInv, Dist
    <2>1. CASE queues[i] = <<>>
        BY <2>1 DEF Inv, BypassInv, n21q_dequeue_next
    <2>2. CASE queues[i] # <<>>
        <3>1. i # queue_point
            BY <2>2 DEF n21q_dequeue_next
        <3>2. /\ Dist(n21q_succ(queue_point), i) = Dist(queue_point, i) - 1
              /\ Dist(queue_point, i) \in 0 .. N - 1
            BY <3>1, StepDist DEF Inv, TypeOK
        <3>. QED
            BY <2>2, <3>2, NAssumption DEF Inv, TypeOK, BypassInv, n21q_dequeue_next
    <2>. QED
        BY <2>1, <2>2
<1>3. WalkInv'
    <2> SUFFICES ASSUME cpc' = "walk", NEW i \in waiting'
                 PROVE  /\ queues'[i] # <<>>
                        /\ Dist(start_point', queue_point') <= Dist(start_point', i)
        BY DEF WalkInv, Dist
    <2>1. /\ i \in waiting /\ queues' = queues /\ start_point' = start_point
          /\ queue_point' = n21q_succ(queue_point) /\ queue_point' # start_point
          /\ cpc = "walk"
        BY DEF n21q_dequeue_next
    <2>. QED
        BY <2>1, WalkAhead, StartDist DEF Inv, TypeOK, WalkInv
<1>. QED
    BY <1>1, <1>2, <1>3 DEF Inv

THEOREM Invariance == Spec => []Inv
<1>1. Inv /\ UNCHANGED vars => Inv'
    BY DEF Inv, TypeOK, BypassInv, WalkInv, Dist, vars
<1>2. Inv /\ Next => Inv'
    BY EnqueueInv, BeginInv, FoundInv, NextInv DEF Next, Consumer
<1>. QED
    BY <1>1, <1>2, InitInv, PTL DEF Spec

(* The walk never leaves the array of queues, and no queue overflows. *)
THEOREM TypeCorrect == Spec => []TypeOK
<1>1. Inv => TypeOK
    BY DEF Inv
<1>. QED
    BY <1>1, Invariance, PTL

(* n21q_dequeue and its variants return NULL only if every queue was empty *)
(* when the call began.                                                    *)
THEOREM HonestNull == Spec => NullIsHonest
<1>1. ASSUME Inv, [Next]_vars, cpc = "walk", cpc' = "idle", ret' = NULL
      PROVE  waiting = {}
    <2>1. CASE n21q_dequeue_found
        BY <1>1, <2>1, NullAssumption DEF Inv, TypeOK, n21q_dequeue_found
    <2>2. CASE n21q_dequeue_next
        BY <1>1, <2>2, WalkAhead DEF n21q_dequeue_next
    <2>3. ~ n21q_dequeue_begin /\ ~ UNCHANGED vars
        BY <1>1 DEF n21q_dequeue_begin, vars
    <2>4. ASSUME NEW q_id \in Queues, NEW item \in Items, n21q_enqueue(q_id, item)
          PROVE  FALSE
        BY <1>1, <2>4 DEF n21q_enqueue
    <2>. QED
        BY <1>1, <2>1, <2>2, <2>3, <2>4 DEF Next, Consumer
<1>2. Inv /\ [Next]_vars =>
        [cpc = "walk" /\ cpc' = "idle" /\ ret' = NULL => waiting = {}]_vars
    BY <1>1
<1>. QED
    BY <1>2, Invariance, PTL DEF Spec, NullIsHonest

(* The strong dequeue passes a waiting queue at most N - 1 times. *)
THEOREM RoundRobin == Spec => []BoundedBypass
<1>1. Inv => BoundedBypass
    <2> SUFFICES ASSUME Inv, dequeue = "strong", NEW i \in Queues, queues[i] # <<>>
                 PROVE  passed[i] <= N - 1
        BY DEF BoundedBypass
    <2>1. passed[i] + Dist(queue_point, i) <= N - 1 /\ passed[i] \in Nat
        BY DEF Inv, TypeOK, BypassInv
    <2>2. Dist(queue_point, i) \in 0 .. N - 1
        BY StepDist DEF Inv, TypeOK
    <2>. QED
        BY <2>1, <2>2, NAssumption
<1>. QED
    BY <1>1, Invariance, PTL
=============================================================================
