------------------------------ MODULE OooList -------------------------------
(***************************************************************************)
(* The out-of-order list of the receive buffer (tcp_recv_buff.c): segments *)
(* that arrived ahead of merged_next wait in a list sorted by sequence     *)
(* number.  A segment is a record with at least the fields seq and len     *)
(* (mbuf->tcp_seq, mbuf->payload_len); the list is a sequence of them.     *)
(***************************************************************************)
EXTENDS SeqArith, MbufList, FiniteSets

SegEnd(s) == SeqAdd(s.seq, s.len)

(* s lies wholly before t *)
Before(s, t) == TCP_SEQ_LEQ(SegEnd(s), t.seq)

\* Slip for OooListExact: the gaps inside the list are not searched.
OooPlaceEnds(list, s) ==
    IF list = <<>> THEN 1
    ELSE IF Before(list[Len(list)], s) THEN Len(list) + 1
    ELSE IF Before(s, list[1]) THEN 1
    ELSE 0

(* The place ooo_insert finds for s: behind the tail, in front of the     *)
(* head, or in the first gap that is wide enough; none (0) otherwise.     *)
OooPlace(list, s) ==
    LET n == Len(list)
        gaps == {i \in 1 .. n - 1 : Before(list[i], s) /\ Before(s, list[i + 1])}
    IN  IF list = <<>> THEN 1
        ELSE IF Before(list[n], s) THEN n + 1
        ELSE IF Before(s, list[1]) THEN 1
        ELSE IF gaps # {} THEN 1 + (CHOOSE i \in gaps : \A j \in gaps : i <= j)
        ELSE 0

(* In front of the head of a list that is not empty.                       *)
OooAtHead(list, place) == list # <<>> /\ place = 1

(* ooo_insert of the mbuf m at its place.  At the head mbuf_list_add_head  *)
(* is called with its arguments the wrong way round: the list stays as it  *)
(* is, although SUCCESS is returned (the words this call does overwrite    *)
(* are the subject of rb_put_ooo).                                         *)
ooo_insert(list, place, m) ==
    CASE place = 0 \/ OooAtHead(list, place) -> list
      [] place = Len(list) + 1 -> mbuf_list_append(list, m)
      [] OTHER -> mbuf_list_insert(list, place - 1, m)

(* The loop condition of try_merge_ooo: the head no longer lies ahead. *)
OooReady(list, merged_next) ==
    list # <<>> /\ TCP_SEQ_LEQ(Head(list).seq, merged_next)
=============================================================================
