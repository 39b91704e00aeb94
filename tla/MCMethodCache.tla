--------------------------- MODULE MCMethodCache ---------------------------
(* MethodCache for TLC: a class and its subclass; two selectors whose first  *)
(* slot is the last bucket, so that probes and insertions wrap around.       *)
EXTENDS MethodCache, TLC

CONSTANTS sup, sub, s1, s2

Hierarchy == [c \in Classes |-> IF c = sub THEN sup ELSE None]
OnlyS1 == [c \in Classes |-> {s1}]
LastSlot == [s \in Sels |-> 3]

Symmetry == Permutations(Threads) \cup Permutations(Caches)

=============================================================================
