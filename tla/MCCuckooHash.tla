---------------------------- MODULE MCCuckooHash ----------------------------
(* Four buckets of one place and three slots.  k2 and k3 have the same     *)
(* hash value and displace each other, the hash value of k1 is 0           *)
(* (NULL_SIGNATURE), both buckets of k4 are the same, that of k1, and k5   *)
(* displaces k2 and k3 from their secondary bucket.                        *)
EXTENDS CuckooHash
CONSTANTS k1, k2, k3, k4, k5

MCHash == k1 :> 0 @@ k2 :> 5 @@ k3 :> 5 @@ k4 :> 4 @@ k5 :> 2
MCSecondary == 0 :> 9 @@ 5 :> 6 @@ 4 :> 8 @@ 2 :> 7
MCDataOf == k1 :> {1} @@ k2 :> {2, 3} @@ k3 :> {4} @@ k4 :> {5} @@ k5 :> {6}
=============================================================================
