---------------------------- MODULE MCChunkPool ----------------------------
EXTENDS ChunkPool, TLC
CONSTANTS c1, c2, a, b, p1, p2, p3, p4, p5, p6, p7
TwoPrivate == c1 :> {a} @@ c2 :> {b}
PublicSymmetry == Permutations(Public)
=============================================================================
