------------------------------ MODULE SeqArith ------------------------------
(***************************************************************************)
(* TCP sequence numbers (qstack/src/include/protocol.h): uint32_t that     *)
(* wrap around, compared through the sign of their 32-bit difference.      *)
(* SeqSpace stands for 2^32.                                               *)
(***************************************************************************)
EXTENDS Integers

CONSTANT SeqSpace

ASSUME SeqSpaceAssumption == SeqSpace \in Nat \ {0} /\ SeqSpace % 2 = 0

SeqNum == 0 .. SeqSpace - 1

SeqAdd(a, n) == (a + n) % SeqSpace

(* The difference a - b as an unsigned 32-bit number. *)
SeqDiff(a, b) == (a - b) % SeqSpace

TCP_SEQ_LT(a, b) == SeqDiff(a, b) >= SeqSpace \div 2
TCP_SEQ_LEQ(a, b) == a = b \/ TCP_SEQ_LT(a, b)
TCP_SEQ_GT(a, b) == ~ TCP_SEQ_LEQ(a, b)
TCP_SEQ_GEQ(a, b) == ~ TCP_SEQ_LT(a, b)
TCP_SEQ_BETWEEN(a, b, c) == TCP_SEQ_GEQ(a, b) /\ TCP_SEQ_LEQ(a, c)

(* The numbers of n consecutive bytes from a on. *)
SeqBytes(a, n) == {SeqAdd(a, i) : i \in 0 .. n - 1}
=============================================================================
