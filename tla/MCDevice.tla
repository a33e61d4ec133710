------------------------------ MODULE MCDevice ------------------------------
(* A small device: one stack core with an application beside it and one     *)
(* application core.                                                        *)
EXTENDS Device, TLC

CONSTANTS r1, r2, s1, u0, u1

MCRx == {r1, r2}
MCSw == {s1}
MCUw == (0 :> {u0}) @@ (1 :> {u1})

(* The bounds: an mbuf lies at most twice in its pool (the copies that late  *)
(* frees of the device make), at most MaxQueued mbufs are on their way out,  *)
(* and packets come in and are answered only while every application mbuf    *)
(* is in its pool.                                                           *)
CONSTANT MaxQueued
Bounded ==
    /\ \A m \in UwAll : pool[m] <= 2
    /\ Len(th) + Len(txburst) + Len(nic) <= MaxQueued
    /\ (\A m \in Rx \cup Sw : pool[m] = 1) \/ (\A m \in UwAll : pool[m] = 1 /\ Refs(m) = 0)
=============================================================================
