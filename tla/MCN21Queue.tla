---------------------------- MODULE MCN21Queue -----------------------------
(* Three producers with queues of two items.                               *)
EXTENDS N21Queue
=============================================================================
