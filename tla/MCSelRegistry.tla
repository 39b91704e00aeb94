--------------------------- MODULE MCSelRegistry ---------------------------
(***************************************************************************)
(* Four names and the empty one.  Three of them have their place in the    *)
(* last bucket of four and push each other past the end of the table; if   *)
(* the fourth one is not in the table of the shared cache it makes the set *)
(* grow, and they part.                                                    *)
(***************************************************************************)
EXTENDS SelRegistry, TLC

CONSTANTS t1, t2

MCThreads == {t1, t2}

a == <<97>>
c == <<99>>
g == <<103>>
k == <<107>>

MCNames == {<<>>, a, c, g, k}

MCRegistered == {<<>>, c, g, k}

MCAsked == {a, k}

MCBatches == {<<g, a>>}

MCBuiltins == {a}

Symmetry == Permutations(MCThreads)

=============================================================================
