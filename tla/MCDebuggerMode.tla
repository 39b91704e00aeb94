--------------------------- MODULE MCDebuggerMode ---------------------------
(* DebuggerMode for TLC. *)
EXTENDS DebuggerMode, TLC

Symmetry == Permutations(Traced)

=============================================================================
