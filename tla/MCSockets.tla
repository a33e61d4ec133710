----------------------------- MODULE MCSockets -----------------------------
(* Two stacks with two sockets and two streams each; RSS gives the port of *)
(* the client to the first, the peer to the second.                        *)
EXTENDS Sockets, TLC
CONSTANTS www, cli, p0

MCRSS == www :> 0 @@ cli :> 0 @@ p0 :> 1
=============================================================================
