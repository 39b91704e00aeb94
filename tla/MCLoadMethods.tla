--------------------------- MODULE MCLoadMethods ---------------------------
(* LoadMethods for TLC.  "base" has a class, A; "lib" a chain of two below   *)
(* it that it lists subclass first; "ext" only a category of A; "plug" a     *)
(* class D below lib's, and categories of D and of lib's B.                  *)
EXTENDS LoadMethods, TLC

CONSTANTS base, lib, ext, plug, R, A, B, C, D, catA, catB, catD

Hierarchy == (R :> None) @@ (A :> R) @@ (B :> A) @@ (C :> B) @@ (D :> C)
Extends == (catA :> A) @@ (catB :> B) @@ (catD :> D)
WithLoad == {A, B, C, D}
ClassLists == (base :> <<A>>) @@ (lib :> <<C, B>>) @@ (ext :> <<>>) @@ (plug :> <<D>>)
CategoryLists ==
    (base :> <<>>) @@ (lib :> <<>>) @@ (ext :> <<catA>>) @@ (plug :> <<catD, catB>>)

=============================================================================
