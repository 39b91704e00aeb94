----------------------------- MODULE MCObjects -----------------------------
(***************************************************************************)
(* Two threads.  One slot is atomic and shared, one is nonatomic and       *)
(* belongs to a thread.  Of three shared structures two have the same lock,*)
(* and each thread's own has the lock of some of them.                     *)
(***************************************************************************)
EXTENDS Objects, TLC

CONSTANTS t1, t2, v1, v2, c1, c2, o, k

MCThreads == {t1, t2}

MCObjectsStored == {v1, v2}

MCSlots == {0, 32}

MCNonatomic == {32}

MCUser == 32 :> t1

MCShared == {0, 32, 64}

MCLocal == t1 :> 96 @@ t2 :> 160

MCPolicies == {ASSIGN, RETAIN, COPY_NONATOMIC}

MCUses == {{"properties"}, {"structures"}, {"associations"}}

Symmetry == Permutations(MCObjectsStored) \cup Permutations({c1, c2})

=============================================================================
