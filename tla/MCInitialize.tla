---------------------------- MODULE MCInitialize ----------------------------
(* Initialize for TLC: a root, two subclasses of it, one of them subclassed. *)
EXTENDS Initialize, TLC

CONSTANTS root, left, leaf, right

Hierarchy ==
    [c \in Classes |-> CASE c = root -> None [] c = leaf -> left [] OTHER -> root]

\* +initialize methods that message their own superclasses and subclasses.
Straight ==
    [c \in Classes |-> CASE c = root -> {leaf, right} [] c = left -> {leaf}
                         [] c = leaf -> {left} [] OTHER -> {root}]

\* Two siblings' methods that message each other, and a subclass.
Crossing ==
    [c \in Classes |-> CASE c = root -> {} [] c = left -> {leaf, right}
                         [] c = leaf -> {left} [] OTHER -> {left}]

BothPrograms == {Straight, Crossing}

=============================================================================
