---------------------------- MODULE MCConnection ----------------------------
(* An instance of Connection for TLC. *)
EXTENDS Connection
=============================================================================
