-------------------------- MODULE MCCircularQueue --------------------------
(* A ring of four slots (capacity three) and two distinct items.           *)
EXTENDS CircularQueue
=============================================================================
