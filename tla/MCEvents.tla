------------------------------ MODULE MCEvents ------------------------------
(* Instances of Events for TLC. *)
EXTENDS Events

OneStack == [s \in Streams |-> 0]
=============================================================================
