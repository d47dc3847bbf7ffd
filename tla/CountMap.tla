------------------------------ MODULE CountMap ------------------------------
(***************************************************************************)
(* What the ARC table promises (hal/core/runtime.c, incref/decref): a      *)
(* number of holders per object, whatever the table does to keep it.       *)
(***************************************************************************)
EXTENDS Integers
CONSTANT Keys
VARIABLE count
CMInit == count = [k \in Keys |-> 0]
CMIncref(k) == count' = [count EXCEPT ![k] = @ + 1]
CMPromote(k) == count[k] = 0 /\ count' = [count EXCEPT ![k] = 2]   \* sender and receiver
CMDecref(k) == count[k] > 0 /\ count' = [count EXCEPT ![k] = @ - 1]
CMNext == \E k \in Keys : CMIncref(k) \/ CMPromote(k) \/ CMDecref(k)
CMSpec == CMInit /\ [][CMNext]_count
=============================================================================
