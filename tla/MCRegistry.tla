----------------------------- MODULE MCRegistry -----------------------------
(***************************************************************************)
(* Three images: libA with a root class A, libB with B, a subclass with    *)
(* +load, and a category on A, app with C and three categories.  A program *)
(* makes pairs at one address, with a name of its own or that of C.  The   *)
(* names A and D meet in the table, next to B.                             *)
(***************************************************************************)
EXTENDS Registry

CONSTANTS t1, t2, libA, libB, app, A, B, C, d1

MCName == A :> "A" @@ B :> "B" @@ C :> "C"
MCNames == {"C", "D"}
MCHash == "A" :> 3 @@ "B" :> 0 @@ "C" :> 1 @@ "D" :> 3
MCSuper == A :> NULL @@ B :> A @@ C :> B
MCClassList == libA :> <<A>> @@ libB :> <<B>> @@ app :> <<C>>
MCNonlazyClassList == libA :> <<>> @@ libB :> <<B>> @@ app :> <<>>
MCCategoryList == libA :> <<>> @@ libB :> <<"A+B">> @@ app :> <<"A+C", "B+C", "A+D">>
MCClassOf == "A+B" :> A @@ "A+C" :> A @@ "B+C" :> B @@ "A+D" :> A
MCHasInstance == {"A+B", "A+C"}
MCHasClass == {"A+C", "B+C", "A+D"}

Symmetry == Permutations(Threads)

=============================================================================
