------------------------------- MODULE KeyMap -------------------------------
(***************************************************************************)
(* What a hash table promises to its one writer: a map from keys to data.  *)
(* A call takes effect at once, some time after it was made, and its       *)
(* result tells the truth about the map.                                   *)
(***************************************************************************)
CONSTANTS Keys, Data, None

VARIABLES
    m,      \* the data of every key, None for a key that is not there
    call,   \* the call in progress, or None
    ret     \* the result of the last call

vars == <<m, call, ret>>

Calls == [op : {"add"}, key : Keys, data : Data] \cup [op : {"del"}, key : Keys]

Init == m = [k \in Keys |-> None] /\ call = None /\ ret = "ok"

Begin == call = None /\ call' \in Calls /\ UNCHANGED <<m, ret>>

Add ==
    /\ call # None /\ call.op = "add"
    /\ m' = [m EXCEPT ![call.key] = call.data]
    /\ call' = None /\ ret' = "ok"

(* A table may refuse a key, also new data for a key that it holds. *)
AddFails ==
    /\ call # None /\ call.op = "add"
    /\ call' = None /\ ret' = "ENOSPC" /\ UNCHANGED m

Del ==
    /\ call # None /\ call.op = "del" /\ m[call.key] # None
    /\ m' = [m EXCEPT ![call.key] = None]
    /\ call' = None /\ ret' = "ok"

DelFails ==
    /\ call # None /\ call.op = "del" /\ m[call.key] = None
    /\ call' = None /\ ret' = "ENOENT" /\ UNCHANGED m

(* The table is freed and made anew. *)
Clear == call = None /\ m' = [k \in Keys |-> None] /\ ret' = "ok" /\ UNCHANGED call

Next == Begin \/ Add \/ AddFails \/ Del \/ DelFails \/ Clear

Spec == Init /\ [][Next]_vars
=============================================================================
