------------------------------- MODULE MCSync -------------------------------
(* Sync for TLC: o1 and o2 share a list, so that they contend for blocks.   *)
EXTENDS Sync, TLC

CONSTANTS o1, o2

OneList == {"l1"}
HashOneList == [o \in Objects |-> "l1"]
AnyOrder == [o \in Objects |-> 0]
O1ThenO2 == [o \in Objects |-> IF o = o1 THEN 1 ELSE 2]

Symmetry == Permutations(Threads) \cup Permutations(Blocks)
                \cup Permutations(Objects)

=============================================================================
