---------------------------- MODULE Sync_proof ----------------------------
(***************************************************************************)
(* Proofs about Sync, for every finite set of threads, every set of        *)
(* objects and blocks, every hashing of the objects onto lists and every   *)
(* bound: @synchronized excludes, and implements one recursive lock for    *)
(* every object.                                                           *)
(***************************************************************************)
EXTENDS Sync, TLAPS, FiniteSetTheorems

-----------------------------------------------------------------------------
(* The inductive invariant.                                                *)

\* Who walks a list is in its spinlock.
SpinIsMine ==
    \A t \in Threads : call[t].at \in {"scan", "done"} => spin[ListOf(t)] = t

\* A block that has an object is on the list of that object and on no other.
InItsList ==
    /\ \A l \in Lists : \A i \in DOMAIN list[l] :
        object[list[l][i]] # None /\ HASH[object[list[l][i]]] = l
    /\ \A b \in Blocks :
        object[b] # None =>
            \E i \in DOMAIN list[HASH[object[b]]] : list[HASH[object[b]]][i] = b

\* What the walk has passed is not the object's, and the block it kept for
\* reuse is still unused: only a walk of the same list could take it.
WalkIsCurrent ==
    \A t \in Threads : At(t, "scan") =>
        /\ call[t].p <= Len(list[ListOf(t)])
        /\ \A i \in DOMAIN list[ListOf(t)] :
            i > call[t].p => object[list[ListOf(t)][i]] # call[t].obj
        /\ call[t].firstUnused # None =>
            /\ threadCount[call[t].firstUnused] = 0
            /\ object[call[t].firstUnused] # None
            /\ HASH[object[call[t].firstUnused]] = ListOf(t)

\* A walk begins with nothing found.
BeginsWithNothing ==
    \A t \in Threads :
        /\ call[t].at \in {"spin", "scan"} => call[t].result = None
        /\ At(t, "spin") => call[t].firstUnused = None

\* What the walk found is the object's; an acquiring walk found something.
FoundIsIts ==
    \A t \in Threads : At(t, "done") =>
        /\ call[t].result # None => object[call[t].result] = call[t].obj
        /\ call[t].why = "ACQUIRE" => call[t].result # None

\* A thread that walks, or will, has no block of the object in its cache.
WalksForNew ==
    \A t \in Threads, b \in Blocks :
        call[t].at \in {"spin", "scan", "done"} => ~ Cached(t, b, call[t].obj)

\* A thread that waits for a mutex has the block in its cache.
LocksCached == \A t \in Threads : At(t, "lock") => Cached(t, call[t].result, call[t].obj)

\* A block without an object is used by nobody.
FreshIsUnused == \A b \in Blocks : object[b] = None => threadCount[b] = 0

\* The mutex knows an owner while it is locked, and only then.
OwnedIsDeep == \A b \in Blocks : owner[b] = None <=> depth[b] = 0

\* The statements a thread is inside of are those its cache counts, but for
\* the one whose mutex it waits for.
HeldIsCounted ==
    \A t \in Threads, b \in Blocks, o \in Objects :
        Cached(t, b, o) =>
            held[t][o] = lockCount[t][b]
                           - (IF At(t, "lock") /\ call[t].result = b THEN 1 ELSE 0)

\* Who is inside an object owns the mutex of the object's block.
HeldIsOwned ==
    \A t \in Threads, o \in Objects :
        held[t][o] > 0 => \E b \in Blocks : Cached(t, b, o) /\ owner[b] = t

IInv ==
    /\ TypeOK /\ SpinIsMine /\ InItsList /\ WalkIsCurrent /\ BeginsWithNothing
    /\ FoundIsIts /\ WalksForNew /\ LocksCached /\ FreshIsUnused
    /\ OneBlockPerObject /\ UsedIsCounted /\ OwnedIsDeep /\ DepthMatchesCache /\ HeldIsCounted /\ HeldIsOwned

-----------------------------------------------------------------------------
(* Lemmas.                                                                 *)

LEMMA CallFields ==
    ASSUME NEW r \in Call
    PROVE  /\ r.at \in {"idle", "spin", "scan", "done", "lock", "unlock"}
           /\ r.why \in {"ACQUIRE", "RELEASE"}
           /\ r.obj \in Objects \cup {None}
           /\ r.p \in Nat
           /\ r.firstUnused \in Blocks \cup {None}
           /\ r.result \in Blocks \cup {None}
BY DEF Call

\* A block has finitely many users.
LEMMA UsersFinite ==
    ASSUME NEW b \in Blocks
    PROVE  IsFiniteSet(Users(b)) /\ Cardinality(Users(b)) \in Nat
<1>1. Users(b) \subseteq Threads /\ IsFiniteSet(Threads)
    BY SyncAssumption DEF Users
<1>2. IsFiniteSet(Users(b))
    BY <1>1, FS_Subset
<1>3. QED
    BY <1>2, FS_CardinalityType

\* A block whose threadCount is 0 is in no cache, nor about to be.
LEMMA ZeroIsUnused ==
    ASSUME TypeOK, UsedIsCounted, NEW b \in Blocks, threadCount[b] = 0
    PROVE  Users(b) = {} /\ \A t \in Threads : lockCount[t][b] = 0
<1>1. Cardinality(Users(b)) = 0
    BY UsersFinite DEF UsedIsCounted
<1>2. Users(b) = {}
    BY <1>1, UsersFinite, FS_EmptySet
<1>3. QED
    BY <1>2 DEF Users, TypeOK

\* A cached block is counted.
LEMMA CachedIsCounted ==
    ASSUME TypeOK, UsedIsCounted, NEW b \in Blocks, NEW t \in Threads, lockCount[t][b] > 0
    PROVE  threadCount[b] \in Nat /\ threadCount[b] > 0
<1>1. threadCount[b] \in Nat /\ lockCount[t][b] \in Nat
    BY DEF TypeOK
<1>2. QED
    BY <1>1, ZeroIsUnused

\* The counter may stay behind the users nowhere while neither moves.
LEMMA SameUsers ==
    ASSUME UsedIsCounted, UNCHANGED threadCount, \A c \in Blocks : Users(c)' = Users(c)
    PROVE  UsedIsCounted'
BY DEF UsedIsCounted

-----------------------------------------------------------------------------
(* One lemma for each action: it preserves the inductive invariant.        *)

LEMMA EnterCachedIInv ==
    ASSUME IInv, NEW t \in Threads, NEW o \in Objects, EnterCached(t, o)
    PROVE  IInv'
<1> USE DEF IInv
<1>1. PICK b \in Blocks : /\ Cached(t, b, o)
                          /\ lockCount[t][b] < MaxLock
                          /\ IF threadCount[b] > 0
                             THEN /\ lockCount' = [lockCount EXCEPT ![t][b] = @ + 1]
                                  /\ call' = [call EXCEPT ![t] =
                                        [Idle EXCEPT !.at = "lock", !.obj = o, !.result = b]]
                                  /\ UNCHANGED status
                             ELSE Return(t, "NOT_INITIALIZED") /\ UNCHANGED lockCount
    BY DEF EnterCached
<1>2. lockCount[t][b] > 0 /\ object[b] = o /\ call[t].at = "idle"
    BY <1>1 DEF Cached, EnterCached, At
<1> DEFINE r == [Idle EXCEPT !.at = "lock", !.obj = o, !.result = b]
<1>3. r \in Call /\ r.at = "lock" /\ r.obj = o /\ r.result = b
    BY DEF Call, Idle
<1>4. /\ lockCount' = [lockCount EXCEPT ![t][b] = @ + 1]
      /\ call' = [call EXCEPT ![t] = r]
      /\ UNCHANGED <<object, threadCount, owner, depth, list, spin, status, held, misuses>>
    BY <1>1, <1>2, CachedIsCounted DEF EnterCached
<1> HIDE DEF r
<1>5. TypeOK'
    BY SyncAssumption, <1>3, <1>4 DEF TypeOK
<1>6. \A u \in Threads \ {t} : call'[u] = call[u]
    BY <1>4 DEF TypeOK
<1>7. call'[t] = r
    BY <1>4 DEF TypeOK
<1>8. SpinIsMine' /\ InItsList' /\ WalkIsCurrent' /\ BeginsWithNothing' /\ FoundIsIts'
    BY <1>3, <1>4, <1>6, <1>7
    DEF SpinIsMine, InItsList, WalkIsCurrent, BeginsWithNothing, FoundIsIts, At, ListOf
<1>9. WalksForNew' /\ LocksCached'
    BY <1>2, <1>3, <1>4, <1>6, <1>7
    DEF WalksForNew, LocksCached, At, Cached, TypeOK
<1>10. FreshIsUnused' /\ OneBlockPerObject' /\ OwnedIsDeep'
    BY <1>4 DEF FreshIsUnused, OneBlockPerObject, OwnedIsDeep
<1>11. \A c \in Blocks : Users(c)' = Users(c)
    BY <1>2, <1>3, <1>4, <1>6, <1>7 DEF Users, At, TypeOK
<1>12. UsedIsCounted'
    BY <1>4, <1>11, SameUsers
<1>13. DepthMatchesCache'
    BY <1>2, <1>3, <1>4, <1>6, <1>7 DEF DepthMatchesCache, At, TypeOK
<1>14. HeldIsCounted'
    BY <1>2, <1>3, <1>4, <1>6, <1>7 DEF HeldIsCounted, At, Cached, TypeOK
<1>15. HeldIsOwned'
    BY <1>2, <1>4 DEF HeldIsOwned, Cached, TypeOK
<1>16. QED
    BY <1>5, <1>8, <1>9, <1>10, <1>12, <1>13, <1>14, <1>15

LEMMA NotCachedIInv ==
    ASSUME IInv, NEW t \in Threads, NEW o \in Objects, NEW usage \in {"ACQUIRE", "RELEASE"},
           NotCached(t, o, usage), misuses' \in 0..MaxMisuse
    PROVE  IInv'
<1> USE DEF IInv
<1> DEFINE r == [Idle EXCEPT !.at = "spin", !.why = usage, !.obj = o]
<1>1. /\ r \in Call /\ r.at = "spin" /\ r.obj = o
      /\ r.firstUnused = None /\ r.result = None
    BY DEF Call, Idle
<1>2. /\ call[t].at = "idle"
      /\ \A b \in Blocks : ~ Cached(t, b, o)
      /\ call' = [call EXCEPT ![t] = r]
      /\ UNCHANGED <<object, threadCount, owner, depth, list, spin, lockCount, status, held>>
    BY DEF NotCached, At
<1> HIDE DEF r
<1>3. TypeOK'
    BY SyncAssumption, <1>1, <1>2 DEF TypeOK
<1>4. call'[t] = r /\ \A u \in Threads \ {t} : call'[u] = call[u]
    BY <1>2 DEF TypeOK
<1>5. SpinIsMine' /\ InItsList' /\ WalkIsCurrent' /\ BeginsWithNothing' /\ FoundIsIts'
    BY <1>1, <1>2, <1>4
    DEF SpinIsMine, InItsList, WalkIsCurrent, BeginsWithNothing, FoundIsIts, At, ListOf
<1>6. WalksForNew' /\ LocksCached'
    BY <1>1, <1>2, <1>4 DEF WalksForNew, LocksCached, At, Cached
<1>7. FreshIsUnused' /\ OneBlockPerObject' /\ OwnedIsDeep' /\ HeldIsOwned'
    BY <1>2 DEF FreshIsUnused, OneBlockPerObject, OwnedIsDeep, HeldIsOwned, Cached
<1>8. \A c \in Blocks : Users(c)' = Users(c)
    BY <1>1, <1>2, <1>4 DEF Users, At
<1>9. UsedIsCounted'
    BY <1>2, <1>8, SameUsers
<1>10. DepthMatchesCache' /\ HeldIsCounted'
    BY <1>1, <1>2, <1>4 DEF DepthMatchesCache, HeldIsCounted, Cached, At
<1>11. QED
    BY <1>3, <1>5, <1>6, <1>7, <1>9, <1>10

LEMMA ExitCachedIInv ==
    ASSUME IInv, NEW t \in Threads, NEW o \in Objects, ExitCached(t, o)
    PROVE  IInv'
<1> USE DEF IInv
<1>1. PICK b \in Blocks :
        /\ Cached(t, b, o)
        /\ IF threadCount[b] > 0
           THEN /\ lockCount' = [lockCount EXCEPT ![t][b] = @ - 1]
                /\ threadCount' =
                       [threadCount EXCEPT ![b] = IF lockCount[t][b] = 1 THEN @ - 1 ELSE @]
                /\ call' = [call EXCEPT ![t] =
                                [Idle EXCEPT !.at = "unlock", !.why = "RELEASE",
                                             !.obj = o, !.result = b]]
                /\ held' = [held EXCEPT ![t][o] = IF @ > 0 THEN @ - 1 ELSE 0]
                /\ UNCHANGED status
           ELSE /\ Return(t, "NOT_OWNING_THREAD")
                /\ UNCHANGED <<lockCount, threadCount, held>>
    BY DEF ExitCached
<1>2. /\ lockCount[t][b] \in Nat /\ lockCount[t][b] > 0
      /\ object[b] = o /\ call[t].at = "idle"
    BY <1>1 DEF Cached, ExitCached, At, TypeOK
<1>3. held[t][o] = lockCount[t][b]
    BY <1>1, <1>2 DEF HeldIsCounted, At
<1>4. threadCount[b] \in Nat /\ threadCount[b] > 0
    BY <1>2, CachedIsCounted
<1> DEFINE r == [Idle EXCEPT !.at = "unlock", !.why = "RELEASE", !.obj = o, !.result = b]
<1>5. r \in Call /\ r.at = "unlock" /\ r.obj = o /\ r.result = b
    BY DEF Call, Idle
<1>6. /\ lockCount' = [lockCount EXCEPT ![t][b] = @ - 1]
      /\ threadCount' = [threadCount EXCEPT ![b] = IF lockCount[t][b] = 1 THEN @ - 1 ELSE @]
      /\ call' = [call EXCEPT ![t] = r]
      /\ held' = [held EXCEPT ![t][o] = @ - 1]
      /\ UNCHANGED <<object, owner, depth, list, spin, status>>
      /\ misuses' = misuses
    BY <1>1, <1>2, <1>3, <1>4 DEF ExitCached, MayExit
<1> HIDE DEF r
<1>7. TypeOK'
    BY SyncAssumption, <1>2, <1>3, <1>4, <1>5, <1>6 DEF TypeOK
<1>8. call'[t] = r /\ \A u \in Threads \ {t} : call'[u] = call[u]
    BY <1>6 DEF TypeOK
<1>9. SpinIsMine' /\ InItsList' /\ BeginsWithNothing' /\ FoundIsIts'
    BY <1>5, <1>6, <1>8
    DEF SpinIsMine, InItsList, BeginsWithNothing, FoundIsIts, At, ListOf
<1>10. \A c \in Blocks : threadCount[c] = 0 => threadCount'[c] = 0
    BY <1>4, <1>6 DEF TypeOK
<1>11. \A u \in Threads : call[u].firstUnused \in Blocks \cup {None}
    BY CallFields DEF TypeOK
<1>12. WalkIsCurrent' /\ FreshIsUnused'
    BY <1>5, <1>6, <1>8, <1>10, <1>11 DEF WalkIsCurrent, FreshIsUnused, At, ListOf
<1>13. WalksForNew' /\ LocksCached'
    BY <1>2, <1>5, <1>6, <1>8 DEF WalksForNew, LocksCached, At, Cached, TypeOK
<1>14. OneBlockPerObject' /\ OwnedIsDeep'
    BY <1>6 DEF OneBlockPerObject, OwnedIsDeep
<1>15. UsedIsCounted'
    <2>1. \A c \in Blocks \ {b} : Users(c)' = Users(c) /\ threadCount'[c] = threadCount[c]
        BY <1>2, <1>5, <1>6, <1>8 DEF Users, At, TypeOK
    <2>2. CASE lockCount[t][b] = 1
        <3>1. Users(b)' = Users(b) \ {t} /\ t \in Users(b)
            BY <1>2, <1>5, <1>6, <1>8, <2>2 DEF Users, At, TypeOK
        <3>2. Cardinality(Users(b)') = Cardinality(Users(b)) - 1
            BY <3>1, UsersFinite, FS_RemoveElement
        <3>3. threadCount'[b] = threadCount[b] - 1
            BY <1>6, <2>2 DEF TypeOK
        <3>4. QED
            BY <1>4, <2>1, <3>2, <3>3, UsersFinite DEF UsedIsCounted
    <2>3. CASE lockCount[t][b] # 1
        <3>1. Users(b)' = Users(b)
            BY <1>2, <1>5, <1>6, <1>8, <2>3 DEF Users, At, TypeOK
        <3>2. threadCount'[b] = threadCount[b]
            BY <1>6, <2>3 DEF TypeOK
        <3>3. QED
            BY <2>1, <3>1, <3>2 DEF UsedIsCounted
    <2>4. QED
        BY <2>2, <2>3
<1>16. DepthMatchesCache'
    <2> SUFFICES ASSUME NEW c \in Blocks, NEW u \in Threads, owner[c] = u
                 PROVE  depth[c] = lockCount'[u][c]
                            - (IF call'[u].at = "lock" /\ call'[u].result = c THEN 1 ELSE 0)
                            + (IF call'[u].at = "unlock" /\ call'[u].result = c THEN 1 ELSE 0)
        BY <1>6 DEF DepthMatchesCache, At
    <2>1. CASE u # t
        BY <1>6, <1>8, <2>1 DEF DepthMatchesCache, At, TypeOK
    <2>2. CASE u = t
        <3>1. lockCount[t][c] \in Nat
            BY DEF TypeOK
        <3>4. depth[c] = lockCount[t][c]
            BY <1>2, <2>2, <3>1 DEF DepthMatchesCache, At
        <3>2. lockCount'[t][c] = IF c = b THEN lockCount[t][c] - 1 ELSE lockCount[t][c]
            BY <1>6 DEF TypeOK
        <3>3. QED
            BY <1>5, <1>8, <2>2, <3>1, <3>2, <3>4
    <2>3. QED
        BY <2>1, <2>2
<1>17. HeldIsCounted'
    <2> SUFFICES ASSUME NEW u \in Threads, NEW c \in Blocks, NEW q \in Objects,
                        lockCount'[u][c] > 0, object[c] = q
                 PROVE  held'[u][q] = lockCount'[u][c]
                            - (IF call'[u].at = "lock" /\ call'[u].result = c THEN 1 ELSE 0)
        BY <1>6 DEF HeldIsCounted, Cached, At
    <2>1. CASE u # t
        BY <1>6, <1>8, <2>1 DEF HeldIsCounted, Cached, At, TypeOK
    <2>2. CASE u = t /\ c = b
        BY <1>2, <1>3, <1>5, <1>6, <1>8, <2>2 DEF TypeOK
    <2>3. CASE u = t /\ c # b
        <3>1. q # o
            BY <1>2, <2>3, SyncAssumption DEF OneBlockPerObject
        <3>2. held'[t][q] = held[t][q] /\ lockCount'[t][c] = lockCount[t][c]
            BY <1>6, <2>3, <3>1 DEF TypeOK
        <3>3. lockCount[t][c] \in Nat
            BY DEF TypeOK
        <3>4. held[t][q] = lockCount[t][c]
            BY <1>2, <2>3, <3>2, <3>3 DEF HeldIsCounted, Cached, At
        <3>5. QED
            BY <1>5, <1>8, <2>3, <3>2, <3>3, <3>4
    <2>4. QED
        BY <2>1, <2>2, <2>3
<1>18. HeldIsOwned'
    <2> SUFFICES ASSUME NEW u \in Threads, NEW q \in Objects, held'[u][q] > 0
                 PROVE  \E c \in Blocks :
                            lockCount'[u][c] > 0 /\ object[c] = q /\ owner[c] = u
        BY <1>6 DEF HeldIsOwned, Cached
    <2>1. held[u][q] \in Nat /\ held[u][q] > 0
        BY <1>2, <1>3, <1>6 DEF TypeOK
    <2>2. PICK c \in Blocks : lockCount[u][c] > 0 /\ object[c] = q /\ owner[c] = u
        BY <2>1 DEF HeldIsOwned, Cached
    <2>3. lockCount'[u][c] > 0
        <3>1. CASE u = t /\ c = b
            BY <1>2, <1>3, <1>6, <2>2, <3>1 DEF TypeOK
        <3>2. CASE ~ (u = t /\ c = b)
            BY <1>6, <2>2, <3>2 DEF TypeOK
        <3>3. QED
            BY <3>1, <3>2
    <2>4. QED
        BY <2>2, <2>3
<1>19. QED
    BY <1>7, <1>9, <1>12, <1>13, <1>14, <1>15, <1>16, <1>17, <1>18

LEMMA SpinLockIInv ==
    ASSUME IInv, NEW t \in Threads, SpinLock(t)
    PROVE  IInv'
<1> USE DEF IInv
<1> DEFINE l == ListOf(t)
           r == [call[t] EXCEPT !.at = "scan", !.p = Len(list[l])]
<1>1. call[t] \in Call /\ call[t].at = "spin" /\ call[t].obj \in Objects
    BY DEF SpinLock, At, TypeOK, Call
<1>2. l \in Lists /\ Len(list[l]) \in Nat
    BY <1>1, SyncAssumption DEF ListOf, TypeOK
<1>3. /\ r \in Call /\ r.at = "scan" /\ r.p = Len(list[l]) /\ r.why = call[t].why
      /\ r.obj = call[t].obj /\ r.firstUnused = call[t].firstUnused /\ r.result = call[t].result
    BY <1>1, <1>2 DEF Call
<1>4. /\ spin[l] = None
      /\ spin' = [spin EXCEPT ![l] = t]
      /\ call' = [call EXCEPT ![t] = r]
      /\ UNCHANGED <<object, threadCount, owner, depth, list, lockCount, status, held, misuses>>
    BY DEF SpinLock, SpinFree, TypeOK
<1> HIDE DEF r
<1>5. TypeOK'
    BY SyncAssumption, <1>1, <1>2, <1>3, <1>4 DEF TypeOK
<1>6. call'[t] = r /\ \A u \in Threads \ {t} : call'[u] = call[u]
    BY <1>4 DEF TypeOK
<1>7. SpinIsMine'
    BY <1>2, <1>3, <1>4, <1>6, SyncAssumption DEF SpinIsMine, ListOf, TypeOK
<1>8. WalkIsCurrent'
    <2>1. r.firstUnused = None
        BY <1>1, <1>3 DEF BeginsWithNothing, At
    <2>2. \A i \in DOMAIN list[l] : ~ (i > Len(list[l]))
        BY <1>2 DEF TypeOK
    <2>3. QED
        BY <1>2, <1>3, <1>4, <1>6, <2>1, <2>2 DEF WalkIsCurrent, At, ListOf
<1>9. InItsList' /\ BeginsWithNothing' /\ FoundIsIts'
    BY <1>1, <1>3, <1>4, <1>6 DEF InItsList, BeginsWithNothing, FoundIsIts, At
<1>10. WalksForNew' /\ LocksCached'
    BY <1>1, <1>3, <1>4, <1>6 DEF WalksForNew, LocksCached, At, Cached
<1>11. FreshIsUnused' /\ OneBlockPerObject' /\ OwnedIsDeep' /\ HeldIsOwned'
    BY <1>4 DEF FreshIsUnused, OneBlockPerObject, OwnedIsDeep, HeldIsOwned, Cached
<1>12. \A c \in Blocks : Users(c)' = Users(c)
    BY <1>1, <1>3, <1>4, <1>6 DEF Users, At
<1>13. UsedIsCounted'
    BY <1>4, <1>12, SameUsers
<1>14. DepthMatchesCache' /\ HeldIsCounted'
    BY <1>1, <1>3, <1>4, <1>6 DEF DepthMatchesCache, HeldIsCounted, Cached, At
<1>15. QED
    BY <1>5, <1>7, <1>8, <1>9, <1>10, <1>11, <1>13, <1>14

LEMMA WalkIInv ==
    ASSUME IInv, NEW t \in Threads, Walk(t)
    PROVE  IInv'
<1> USE DEF IInv
<1>1. /\ call[t] \in Call /\ call[t].at = "scan" /\ call[t].obj \in Objects
      /\ call[t].p \in Nat \ {0} /\ call[t].result = None
      /\ call[t].firstUnused \in Blocks \cup {None}
    BY DEF Walk, At, TypeOK, Call, BeginsWithNothing
<1>2. PICK l \in Lists : l = ListOf(t) /\ spin[l] = t
    BY <1>1, SyncAssumption DEF ListOf, SpinIsMine
<1>3. PICK b \in Blocks : /\ call[t].p \in DOMAIN list[l] /\ b = list[l][call[t].p]
                          /\ object[b] \in Objects /\ HASH[object[b]] = l
    BY <1>1, <1>2 DEF WalkIsCurrent, InItsList, At, TypeOK
<1>4. UNCHANGED <<object, owner, depth, list, spin, lockCount, status, held, misuses>>
    BY DEF Walk
<1>5. IF object[b] = call[t].obj
      THEN /\ CountUse(b)
           /\ call' = [call EXCEPT ![t].at = "done", ![t].result = b]
      ELSE /\ call' = [call EXCEPT ![t].p = @ - 1,
                           ![t].firstUnused = IF @ = None /\ Unused(b) THEN b ELSE @]
           /\ UNCHANGED threadCount
    BY <1>2, <1>3 DEF Walk
\* Nobody else walks this list.
<1>6. \A u \in Threads \ {t} : call[u].at \in {"scan", "done"} => ListOf(u) # l
    BY <1>2 DEF SpinIsMine
<1>7. ASSUME object[b] = call[t].obj
      PROVE  IInv'
    <2> DEFINE r == [call[t] EXCEPT !.at = "done", !.result = b]
    <2>1. /\ r \in Call /\ r.at = "done" /\ r.result = b /\ r.why = call[t].why
          /\ r.obj = call[t].obj
        BY <1>1, <1>3 DEF Call
    <2>2. /\ threadCount' = [threadCount EXCEPT ![b] = @ + 1]
          /\ call' = [call EXCEPT ![t] = r]
        BY <1>5, <1>7 DEF CountUse, TypeOK
    <2> HIDE DEF r
    <2>3. TypeOK'
        BY SyncAssumption, <1>1, <1>4, <2>1, <2>2 DEF TypeOK
    <2>4. call'[t] = r /\ \A u \in Threads \ {t} : call'[u] = call[u]
        BY <2>2 DEF TypeOK
    <2>5. SpinIsMine' /\ InItsList'
        BY <1>1, <1>4, <2>1, <2>4 DEF SpinIsMine, InItsList, ListOf
    <2>6. BeginsWithNothing' /\ FoundIsIts'
        BY <1>3, <1>4, <1>7, <2>1, <2>4, SyncAssumption DEF BeginsWithNothing, FoundIsIts, At
    <2>7. WalkIsCurrent'
        <3> SUFFICES ASSUME NEW u \in Threads \ {t}, call[u].at = "scan",
                            call[u].firstUnused # None
                     PROVE  threadCount'[call[u].firstUnused] = 0
            BY <1>4, <2>1, <2>4 DEF WalkIsCurrent, At, ListOf
        <3> DEFINE f == call[u].firstUnused
        <3>1. f \in Blocks
            BY CallFields DEF TypeOK
        <3>2. threadCount[f] = 0 /\ HASH[object[f]] # l
            BY <1>6 DEF WalkIsCurrent, At
        <3>3. f # b
            BY <1>3, <3>2
        <3>4. QED
            BY <2>2, <3>1, <3>2, <3>3 DEF TypeOK
    <2>8. WalksForNew' /\ LocksCached'
        BY <1>1, <1>4, <2>1, <2>4 DEF WalksForNew, LocksCached, At, Cached
    <2>9. FreshIsUnused'
        BY <1>3, <1>4, <2>2, SyncAssumption DEF FreshIsUnused, TypeOK
    <2>10. OneBlockPerObject' /\ OwnedIsDeep' /\ HeldIsOwned'
        BY <1>4 DEF OneBlockPerObject, OwnedIsDeep, HeldIsOwned, Cached
    <2>11. UsedIsCounted'
        <3>1. \A c \in Blocks \ {b} : Users(c)' = Users(c) /\ threadCount'[c] = threadCount[c]
            BY <1>1, <1>4, <2>1, <2>2, <2>4 DEF Users, At, TypeOK
        <3>2. threadCount'[b] = threadCount[b] + 1 /\ threadCount[b] \in Nat
            BY <1>3, <2>2 DEF TypeOK
        <3>3. Users(b)' \in {Users(b), Users(b) \cup {t}}
            <4>1. CASE call[t].why = "ACQUIRE"
                BY <1>1, <1>4, <2>1, <2>4, <4>1 DEF Users, At
            <4>2. CASE call[t].why # "ACQUIRE"
                BY <1>1, <1>4, <2>1, <2>4, <4>2 DEF Users, At
            <4>3. QED
                BY <4>1, <4>2
        <3>4. Cardinality(Users(b) \cup {t}) \in {Cardinality(Users(b)), Cardinality(Users(b)) + 1}
            BY UsersFinite, FS_AddElement
        <3>5. Cardinality(Users(b)') \in {Cardinality(Users(b)), Cardinality(Users(b)) + 1}
            BY <3>3, <3>4
        <3>6. threadCount[b] >= Cardinality(Users(b)) /\ Cardinality(Users(b)) \in Nat
            BY UsersFinite DEF UsedIsCounted
        <3>7. threadCount'[b] >= Cardinality(Users(b)')
            BY <3>2, <3>5, <3>6
        <3>8. QED
            BY <3>1, <3>7 DEF UsedIsCounted
    <2>12. DepthMatchesCache' /\ HeldIsCounted'
        BY <1>1, <1>4, <2>1, <2>4 DEF DepthMatchesCache, HeldIsCounted, Cached, At
    <2>13. QED
        BY <2>3, <2>5, <2>6, <2>7, <2>8, <2>9, <2>10, <2>11, <2>12
<1>8. ASSUME object[b] # call[t].obj
      PROVE  IInv'
    <2>1. PICK f \in Blocks \cup {None} :
              f = IF call[t].firstUnused = None /\ threadCount[b] = 0
                  THEN b ELSE call[t].firstUnused
        BY <1>1
    <2> DEFINE r == [call[t] EXCEPT !.p = @ - 1, !.firstUnused = f]
    <2>2. call[t].p - 1 \in Nat
        BY <1>1
    <2>3. /\ r \in Call /\ r.at = "scan" /\ r.p = call[t].p - 1 /\ r.firstUnused = f
          /\ r.result = None /\ r.obj = call[t].obj /\ r.why = call[t].why
        BY <1>1, <2>2 DEF Call
    <2>4. UNCHANGED threadCount /\ call' = [call EXCEPT ![t] = r]
        BY <1>5, <1>8, <2>1 DEF Unused, TypeOK
    <2> HIDE DEF r
    <2>5. TypeOK'
        BY SyncAssumption, <1>1, <1>4, <2>3, <2>4 DEF TypeOK
    <2>6. call'[t] = r /\ \A u \in Threads \ {t} : call'[u] = call[u]
        BY <2>4 DEF TypeOK
    <2>7. SpinIsMine' /\ InItsList' /\ BeginsWithNothing' /\ FoundIsIts'
        BY <1>1, <1>4, <2>3, <2>6
        DEF SpinIsMine, InItsList, BeginsWithNothing, FoundIsIts, At, ListOf
    <2>8. WalkIsCurrent'
        <3>1. Len(list[l]) \in Nat /\ DOMAIN list[l] = 1..Len(list[l])
            BY DEF TypeOK
        <3>2. r.p <= Len(list[l])
            BY <1>1, <1>3, <2>3, <3>1
        <3>3. ASSUME NEW i \in DOMAIN list[l], i > r.p
              PROVE  object[list[l][i]] # call[t].obj
            <4>1. i = call[t].p \/ i > call[t].p
                BY <1>1, <2>3, <3>1, <3>3
            <4>2. CASE i = call[t].p
                BY <1>3, <1>8, <4>2
            <4>3. CASE i > call[t].p
                BY <1>1, <1>2, <4>3 DEF WalkIsCurrent, At
            <4>4. QED
                BY <4>1, <4>2, <4>3
        <3>4. f # None => threadCount[f] = 0 /\ object[f] # None /\ HASH[object[f]] = l
            <4>1. CASE call[t].firstUnused = None
                BY <1>3, <2>1, <4>1, SyncAssumption
            <4>2. CASE call[t].firstUnused # None
                BY <1>1, <1>2, <2>1, <4>2 DEF WalkIsCurrent, At
            <4>3. QED
                BY <4>1, <4>2
        <3>5. l = ListOf(t)'
            BY <1>2, <2>3, <2>6 DEF ListOf
        <3>6. /\ call'[t].p <= Len(list'[ListOf(t)'])
              /\ \A i \in DOMAIN list'[ListOf(t)'] :
                    i > call'[t].p => object'[list'[ListOf(t)'][i]] # call'[t].obj
              /\ call'[t].firstUnused # None =>
                    /\ threadCount'[call'[t].firstUnused] = 0
                    /\ object'[call'[t].firstUnused] # None
                    /\ HASH[object'[call'[t].firstUnused]] = ListOf(t)'
            BY <1>4, <2>3, <2>4, <2>6, <3>2, <3>3, <3>4, <3>5
        <3>7. QED
            BY <1>4, <2>4, <2>6, <3>6 DEF WalkIsCurrent, At, ListOf
    <2>9. WalksForNew' /\ LocksCached'
        BY <1>1, <1>4, <2>3, <2>6 DEF WalksForNew, LocksCached, At, Cached
    <2>10. FreshIsUnused' /\ OneBlockPerObject' /\ OwnedIsDeep' /\ HeldIsOwned'
        BY <1>4, <2>4 DEF FreshIsUnused, OneBlockPerObject, OwnedIsDeep, HeldIsOwned, Cached
    <2>11. \A c \in Blocks : Users(c)' = Users(c)
        BY <1>1, <1>4, <2>3, <2>6 DEF Users, At
    <2>12. UsedIsCounted'
        BY <2>4, <2>11, SameUsers
    <2>13. DepthMatchesCache' /\ HeldIsCounted'
        BY <1>1, <1>4, <2>3, <2>6 DEF DepthMatchesCache, HeldIsCounted, Cached, At
    <2>14. QED
        BY <2>5, <2>7, <2>8, <2>9, <2>10, <2>12, <2>13
<1>9. QED
    BY <1>7, <1>8

LEMMA NotFoundIInv ==
    ASSUME IInv, NEW t \in Threads, NotFound(t)
    PROVE  IInv'
<1> USE DEF IInv
<1> DEFINE r == [call[t] EXCEPT !.at = "done"]
<1>1. /\ call[t] \in Call /\ call[t].at = "scan" /\ call[t].why = "RELEASE"
      /\ call[t].result = None /\ call[t].obj # None
    BY DEF NotFound, AtEndOfList, At, TypeOK, BeginsWithNothing
<1>2. /\ r \in Call /\ r.at = "done" /\ r.why = "RELEASE"
      /\ r.obj = call[t].obj /\ r.result = None
    BY <1>1 DEF Call
<1>3. /\ call' = [call EXCEPT ![t] = r]
      /\ UNCHANGED <<object, threadCount, owner, depth, list, spin, lockCount,
                     status, held, misuses>>
    BY DEF NotFound, TypeOK
<1> HIDE DEF r
<1>4. TypeOK'
    BY SyncAssumption, <1>1, <1>2, <1>3 DEF TypeOK
<1>5. call'[t] = r /\ \A u \in Threads \ {t} : call'[u] = call[u]
    BY <1>3 DEF TypeOK
<1>6. SpinIsMine' /\ InItsList' /\ WalkIsCurrent' /\ BeginsWithNothing' /\ FoundIsIts'
    BY <1>1, <1>2, <1>3, <1>5
    DEF SpinIsMine, InItsList, WalkIsCurrent, BeginsWithNothing, FoundIsIts, At, ListOf
<1>7. WalksForNew' /\ LocksCached'
    BY <1>1, <1>2, <1>3, <1>5 DEF WalksForNew, LocksCached, At, Cached
<1>8. FreshIsUnused' /\ OneBlockPerObject' /\ OwnedIsDeep' /\ HeldIsOwned'
    BY <1>3 DEF FreshIsUnused, OneBlockPerObject, OwnedIsDeep, HeldIsOwned, Cached
<1>9. \A c \in Blocks : Users(c)' = Users(c)
    BY <1>1, <1>2, <1>3, <1>5 DEF Users, At
<1>10. UsedIsCounted'
    BY <1>3, <1>9, SameUsers
<1>11. DepthMatchesCache' /\ HeldIsCounted'
    BY <1>1, <1>2, <1>3, <1>5 DEF DepthMatchesCache, HeldIsCounted, Cached, At
<1>12. QED
    BY <1>4, <1>6, <1>7, <1>8, <1>10, <1>11

\* A block that nobody uses is given to the object: one of the list, or a
\* new one that is put on the list.
LEMMA AssociateIInv ==
    ASSUME IInv, NEW t \in Threads, NEW b \in Blocks,
           AtEndOfList(t, "ACQUIRE"), Associate(t, b), threadCount[b] = 0,
           \/ object[b] # None /\ HASH[object[b]] = ListOf(t) /\ UNCHANGED list
           \/ object[b] = None /\ list' = [list EXCEPT ![ListOf(t)] = Append(@, b)]
    PROVE  IInv'
<1> USE DEF IInv
<1>1. /\ call[t] \in Call /\ call[t].at = "scan" /\ call[t].p = 0
      /\ call[t].why = "ACQUIRE"
    BY DEF AtEndOfList, At, TypeOK
<1>2. PICK o \in Objects : o = call[t].obj
    BY <1>1, CallFields DEF TypeOK
<1>3. PICK l \in Lists : l = ListOf(t) /\ l = HASH[o] /\ spin[l] = t
    BY <1>1, <1>2, SyncAssumption DEF ListOf, SpinIsMine
<1> DEFINE r == [call[t] EXCEPT !.at = "done", !.result = b]
<1>4. /\ r \in Call /\ r.at = "done" /\ r.why = "ACQUIRE" /\ r.obj = o /\ r.result = b
    BY <1>1, <1>2 DEF Call
<1>5. /\ object' = [object EXCEPT ![b] = o]
      /\ threadCount' = [threadCount EXCEPT ![b] = 1]
      /\ call' = [call EXCEPT ![t] = r]
      /\ UNCHANGED <<owner, depth, spin, lockCount, status, held, misuses>>
    BY <1>2 DEF Associate, TypeOK
<1> HIDE DEF r
<1>6. call'[t] = r /\ \A u \in Threads \ {t} : call'[u] = call[u]
    BY <1>5 DEF TypeOK
<1>7. object'[b] = o /\ \A c \in Blocks \ {b} : object'[c] = object[c]
    BY <1>5 DEF TypeOK
<1>8. Users(b) = {} /\ \A u \in Threads : lockCount[u][b] = 0
    BY ZeroIsUnused
<1>9. o # None /\ (object[b] = None \/ (object[b] \in Objects /\ HASH[object[b]] = l))
    BY <1>3, SyncAssumption DEF TypeOK
\* The list keeps what it had, and b is on it.
<1>10. /\ list' \in [Lists -> Seq(Blocks)]
       /\ \A k \in Lists \ {l} : list'[k] = list[k]
       /\ \A i \in DOMAIN list[l] : i \in DOMAIN list'[l] /\ list'[l][i] = list[l][i]
       /\ \A i \in DOMAIN list'[l] : i \in DOMAIN list[l] \/ list'[l][i] = b
       /\ \E i \in DOMAIN list'[l] : list'[l][i] = b
    <2>1. list \in [Lists -> Seq(Blocks)] /\ list[l] \in Seq(Blocks)
        BY DEF TypeOK
    <2>2. CASE object[b] # None /\ UNCHANGED list
        <3>1. \E i \in DOMAIN list[l] : list[l][i] = b
            BY <1>9, <2>2 DEF InItsList
        <3>2. QED
            BY <2>1, <2>2, <3>1
    <2>3. CASE list' = [list EXCEPT ![l] = Append(@, b)]
        <3>1. /\ list'[l] = Append(list[l], b) /\ list' \in [Lists -> Seq(Blocks)]
              /\ \A k \in Lists \ {l} : list'[k] = list[k]
            BY <2>1, <2>3
        <3>2. /\ \A i \in DOMAIN list[l] :
                    i \in DOMAIN Append(list[l], b) /\ Append(list[l], b)[i] = list[l][i]
              /\ \A i \in DOMAIN Append(list[l], b) :
                    i \in DOMAIN list[l] \/ Append(list[l], b)[i] = b
              /\ Len(list[l]) + 1 \in DOMAIN Append(list[l], b)
              /\ Append(list[l], b)[Len(list[l]) + 1] = b
            BY <2>1
        <3>3. QED
            BY <3>1, <3>2
    <2>4. QED
        BY <1>3, <2>2, <2>3
<1>11. TypeOK'
    <2>1. \A u \in Threads : /\ call'[u].at # "idle" => call'[u].obj # None
                             /\ call'[u].at \in {"lock", "unlock"} => call'[u].result # None
        BY <1>4, <1>6, <1>9 DEF TypeOK
    <2>2. QED
        BY <1>4, <1>5, <1>10, <2>1 DEF TypeOK
\* Nobody else walks this list, and the others do not have b.
<1>12. \A u \in Threads \ {t} : call[u].at \in {"scan", "done"} => ListOf(u) # l
    BY <1>3 DEF SpinIsMine
<1>13. \A k \in Lists \ {l} : \A i \in DOMAIN list[k] : list[k][i] \in Blocks \ {b}
    <2> SUFFICES ASSUME NEW k \in Lists \ {l}, NEW i \in DOMAIN list[k]
                 PROVE  list[k][i] \in Blocks \ {b}
        OBVIOUS
    <2>1. list[k][i] \in Blocks
        BY DEF TypeOK
    <2>2. object[list[k][i]] # None /\ HASH[object[list[k][i]]] = k
        BY DEF InItsList
    <2>3. QED
        BY <1>9, <2>1, <2>2
<1>14. SpinIsMine'
    BY <1>1, <1>2, <1>4, <1>5, <1>6 DEF SpinIsMine, ListOf
<1>15. InItsList'
    <2>1. ASSUME NEW k \in Lists, NEW i \in DOMAIN list'[k]
          PROVE  object'[list'[k][i]] # None /\ HASH[object'[list'[k][i]]] = k
        <3>1. CASE list'[k][i] = b /\ k = l
            BY <1>3, <1>7, <1>9, <3>1
        <3>2. CASE k # l
            <4>1. i \in DOMAIN list[k] /\ list'[k][i] = list[k][i]
                BY <1>10, <3>2, <2>1
            <4>2. object'[list[k][i]] = object[list[k][i]]
                BY <1>7, <1>13, <3>2, <4>1
            <4>3. QED
                BY <4>1, <4>2 DEF InItsList
        <3>3. CASE k = l /\ list'[k][i] # b
            <4>1. i \in DOMAIN list[l] /\ list'[l][i] = list[l][i]
                BY <1>10, <3>3, <2>1
            <4>2. list[l][i] \in Blocks \ {b}
                BY <3>3, <4>1 DEF TypeOK
            <4>3. object'[list[l][i]] = object[list[l][i]]
                BY <1>7, <4>2
            <4>4. QED
                BY <3>3, <4>1, <4>3 DEF InItsList
        <3>4. QED
            BY <3>1, <3>2, <3>3
    <2>2. ASSUME NEW c \in Blocks, object'[c] # None
          PROVE  \E i \in DOMAIN list'[HASH[object'[c]]] : list'[HASH[object'[c]]][i] = c
        <3>1. CASE c = b
            BY <1>3, <1>7, <1>10, <3>1
        <3>2. CASE c # b
            <4>1. object'[c] = object[c] /\ HASH[object[c]] \in Lists
                BY <1>7, <2>2, <3>2, SyncAssumption DEF TypeOK
            <4>2. PICK i \in DOMAIN list[HASH[object[c]]] : list[HASH[object[c]]][i] = c
                BY <2>2, <4>1 DEF InItsList
            <4>3. QED
                BY <1>10, <4>1, <4>2
        <3>3. QED
            BY <3>1, <3>2
    <2>3. QED
        BY <2>1, <2>2 DEF InItsList
<1>16. WalkIsCurrent'
    <2> SUFFICES ASSUME NEW u \in Threads, call'[u].at = "scan"
                 PROVE  /\ call'[u].p <= Len(list'[ListOf(u)'])
                        /\ \A i \in DOMAIN list'[ListOf(u)'] :
                            i > call'[u].p => object'[list'[ListOf(u)'][i]] # call'[u].obj
                        /\ call'[u].firstUnused # None =>
                            /\ threadCount'[call'[u].firstUnused] = 0
                            /\ object'[call'[u].firstUnused] # None
                            /\ HASH[object'[call'[u].firstUnused]] = ListOf(u)'
        BY DEF WalkIsCurrent, At
    <2>0. /\ u \in Threads \ {t} /\ call'[u] = call[u] /\ call[u].at = "scan"
          /\ ListOf(u)' = ListOf(u)
        BY <1>4, <1>6 DEF ListOf
    <2>1. PICK k \in Lists \ {l} : k = ListOf(u)
        BY <1>12, <2>0, CallFields, SyncAssumption DEF ListOf, TypeOK
    <2>2. PICK f \in Blocks \cup {None} : f = call[u].firstUnused
        BY CallFields DEF TypeOK
    <2>3. f # None => threadCount[f] = 0 /\ object[f] # None /\ HASH[object[f]] = k
        BY <2>0, <2>1, <2>2 DEF WalkIsCurrent, At
    <2>4. f # None => f \in Blocks \ {b}
        BY <1>9, <2>1, <2>3
    <2>5. list'[k] = list[k] /\ list[k] \in Seq(Blocks)
        BY <1>10 DEF TypeOK
    <2>6. ASSUME NEW i \in DOMAIN list[k], i > call[u].p
          PROVE  object'[list[k][i]] # call[u].obj
        <3>1. object[list[k][i]] # call[u].obj
            BY <2>0, <2>1, <2>6 DEF WalkIsCurrent, At
        <3>2. list[k][i] \in Blocks \ {b}
            BY <1>13, <2>5
        <3>3. QED
            BY <1>7, <3>1, <3>2
    <2>7. call[u].p <= Len(list[k])
        BY <2>0, <2>1 DEF WalkIsCurrent, At
    <2>8. f # None => /\ threadCount'[f] = 0
                      /\ object'[f] # None /\ HASH[object'[f]] = k
        BY <1>5, <1>7, <2>3, <2>4 DEF TypeOK
    <2>9. QED
        BY <2>0, <2>1, <2>2, <2>5, <2>6, <2>7, <2>8
<1>17. BeginsWithNothing'
    BY <1>4, <1>6 DEF BeginsWithNothing, At
<1>18. FoundIsIts'
    <2> SUFFICES ASSUME NEW u \in Threads \ {t}, call[u].at = "done", call[u].result # None
                 PROVE  object'[call[u].result] = call[u].obj
        BY <1>4, <1>6, <1>7, SyncAssumption DEF FoundIsIts, At
    <2>1. call[u].result \in Blocks /\ call[u].obj \in Objects
        BY CallFields DEF TypeOK
    <2>2. object[call[u].result] = call[u].obj /\ HASH[call[u].obj] # l
        BY <1>12 DEF FoundIsIts, At, ListOf
    <2>3. QED
        BY <1>7, <1>9, <2>1, <2>2, SyncAssumption
<1>19. WalksForNew' /\ LocksCached'
    <2>1. \A u \in Threads, c \in Blocks : \A q :
              Cached(u, c, q)' <=> (c # b /\ Cached(u, c, q))
        BY <1>5, <1>7, <1>8 DEF Cached
    <2>2. \A u \in Threads : call[u].at = "lock" => call[u].result \in Blocks
        BY CallFields DEF TypeOK
    <2>3. WalksForNew'
        BY <1>1, <1>2, <1>4, <1>6, <2>1 DEF WalksForNew
    <2>4. LocksCached'
        BY <1>4, <1>5, <1>6, <1>7, <1>8, <2>2 DEF LocksCached, At, Cached
    <2>5. QED
        BY <2>3, <2>4
<1>20. FreshIsUnused'
    BY <1>5, <1>7, <1>9 DEF FreshIsUnused, TypeOK
<1>21. OneBlockPerObject'
    <2>1. ASSUME NEW c \in Blocks
          PROVE  object[c] # o
        <3> SUFFICES ASSUME object[c] = o
                     PROVE  FALSE
            OBVIOUS
        <3>1. PICK i \in DOMAIN list[l] : list[l][i] = c
            BY <1>3, <1>9 DEF InItsList
        <3>2. i > call[t].p
            BY <1>1 DEF TypeOK
        <3>3. object[list[ListOf(t)][i]] # call[t].obj
            BY <1>1, <1>3, <3>2 DEF WalkIsCurrent, At
        <3>4. QED
            BY <1>2, <1>3, <3>1, <3>3
    <2>2. QED
        BY <1>7, <2>1 DEF OneBlockPerObject
<1>22. UsedIsCounted'
    <2>1. \A c \in Blocks \ {b} : Users(c)' = Users(c) /\ threadCount'[c] = threadCount[c]
        BY <1>1, <1>4, <1>5, <1>6 DEF Users, At, TypeOK
    <2>2. Users(b)' = {t}
        BY <1>4, <1>5, <1>6, <1>8 DEF Users, At
    <2>3. Cardinality(Users(b)') = 1 /\ threadCount'[b] = 1
        BY <1>5, <2>2, FS_Singleton DEF TypeOK
    <2>4. QED
        BY <2>1, <2>3 DEF UsedIsCounted
<1>23. OwnedIsDeep'
    BY <1>5 DEF OwnedIsDeep
<1>24. DepthMatchesCache'
    BY <1>1, <1>4, <1>5, <1>6 DEF DepthMatchesCache, At
<1>25. HeldIsCounted' /\ HeldIsOwned'
    <2>1. \A u \in Threads, c \in Blocks, q \in Objects :
              Cached(u, c, q)' <=> (c # b /\ Cached(u, c, q))
        BY <1>5, <1>7, <1>8 DEF Cached
    <2>2. \A u \in Threads, c \in Blocks :
              (call'[u].at = "lock" /\ call'[u].result = c)
                  <=> (call[u].at = "lock" /\ call[u].result = c)
        BY <1>1, <1>4, <1>6
    <2>3. HeldIsCounted'
        BY <1>5, <2>1, <2>2 DEF HeldIsCounted, At
    <2>4. HeldIsOwned'
        BY <1>5, <1>8, <2>1 DEF HeldIsOwned, Cached
    <2>5. QED
        BY <2>3, <2>4
<1>26. QED
    BY <1>11, <1>14, <1>15, <1>16, <1>17, <1>18, <1>19, <1>20, <1>21, <1>22, <1>23,
       <1>24, <1>25

LEMMA SpinUnlockIInv ==
    ASSUME IInv, NEW t \in Threads, SpinUnlock(t)
    PROVE  IInv' /\ (call[t].why = "ACQUIRE" => Acquired(t))
<1> USE DEF IInv
<1>1. call[t] \in Call /\ call[t].at = "done" /\ call[t].obj \in Objects
    BY DEF SpinUnlock, At, TypeOK, Call
<1>2. PICK l \in Lists : l = ListOf(t) /\ spin[l] = t
    BY <1>1, SyncAssumption DEF ListOf, SpinIsMine
<1>3. /\ spin' = [spin EXCEPT ![l] = None]
      /\ UNCHANGED <<object, threadCount, owner, depth, list, held, misuses>>
    BY <1>2 DEF SpinUnlock
\* Nobody else was in this spinlock.
<1>4. ASSUME NEW u \in Threads \ {t}, call[u].at \in {"scan", "done"}
      PROVE  spin'[ListOf(u)] = u
    <2>1. spin[ListOf(u)] = u /\ ListOf(u) # l
        BY <1>2, <1>4 DEF SpinIsMine
    <2>2. call[u].obj \in Objects
        BY <1>4, CallFields DEF TypeOK
    <2>3. ListOf(u) \in Lists
        BY <2>2, SyncAssumption DEF ListOf
    <2>4. QED
        BY <1>3, <2>1, <2>3 DEF TypeOK
<1>5. call[t].why = "ACQUIRE" => Acquired(t)
    BY <1>1 DEF FoundIsIts, Acquired, At
<1>6. CASE Acquired(t)
    <2>1. PICK b \in Blocks : b = call[t].result /\ object[b] = call[t].obj
        BY <1>1, <1>6, CallFields DEF Acquired
    <2>2. call[t].why = "ACQUIRE" /\ lockCount[t][b] = 0
        BY <1>1, <1>6, <2>1 DEF Acquired, WalksForNew, Cached, TypeOK
    <2>3. held[t][call[t].obj] = 0
        <3>1. held[t][call[t].obj] \in Nat
            BY <1>1 DEF TypeOK
        <3>2. \A c \in Blocks : ~ Cached(t, c, call[t].obj)
            BY <1>1 DEF WalksForNew
        <3>3. QED
            BY <1>1, <3>1, <3>2 DEF HeldIsOwned
    <2> DEFINE r == [Idle EXCEPT !.at = "lock", !.obj = call[t].obj, !.result = b]
    <2>4. r \in Call /\ r.at = "lock" /\ r.obj = call[t].obj /\ r.result = b
        BY <1>1 DEF Call, Idle
    <2>5. /\ lockCount' = [lockCount EXCEPT ![t][b] = 1]
          /\ call' = [call EXCEPT ![t] = r]
          /\ UNCHANGED status
        BY <1>6, <2>1 DEF SpinUnlock
    <2> HIDE DEF r
    <2>6. TypeOK'
        BY SyncAssumption, <1>1, <1>3, <2>4, <2>5 DEF TypeOK
    <2>7. call'[t] = r /\ \A u \in Threads \ {t} : call'[u] = call[u]
        BY <2>5 DEF TypeOK
    <2>8. /\ lockCount'[t][b] = 1
          /\ \A u \in Threads, c \in Blocks :
                ~ (u = t /\ c = b) => lockCount'[u][c] = lockCount[u][c]
        BY <2>5 DEF TypeOK
    <2>9. SpinIsMine'
        BY <1>4, <2>4, <2>7 DEF SpinIsMine, ListOf
    <2>10. InItsList' /\ WalkIsCurrent' /\ BeginsWithNothing' /\ FoundIsIts'
        BY <1>3, <2>4, <2>7
        DEF InItsList, WalkIsCurrent, BeginsWithNothing, FoundIsIts, At, ListOf
    <2>11. WalksForNew'
        BY <1>3, <2>4, <2>7, <2>8 DEF WalksForNew, Cached
    <2>12. LocksCached'
        <3>1. \A u \in Threads \ {t} : call[u].at = "lock" => call[u].result \in Blocks
            BY CallFields DEF TypeOK
        <3>2. QED
            BY <1>3, <2>1, <2>4, <2>7, <2>8, <3>1 DEF LocksCached, Cached, At
    <2>13. FreshIsUnused' /\ OneBlockPerObject' /\ OwnedIsDeep'
        BY <1>3 DEF FreshIsUnused, OneBlockPerObject, OwnedIsDeep
    <2>14. \A c \in Blocks : Users(c)' = Users(c)
        BY <1>1, <2>1, <2>2, <2>4, <2>7, <2>8 DEF Users, At
    <2>15. UsedIsCounted'
        BY <1>3, <2>14, SameUsers
    <2>16. owner[b] # t
        <3>1. owner[b] = t => depth[b] = 0
            BY <1>1, <2>2 DEF DepthMatchesCache, At
        <3>2. QED
            BY <3>1, SyncAssumption DEF OwnedIsDeep
    <2>17. DepthMatchesCache'
        <3> SUFFICES ASSUME NEW c \in Blocks, NEW u \in Threads, owner[c] = u
                     PROVE  depth[c] = lockCount'[u][c]
                              - (IF call'[u].at = "lock" /\ call'[u].result = c THEN 1 ELSE 0)
                              + (IF call'[u].at = "unlock" /\ call'[u].result = c THEN 1 ELSE 0)
            BY <1>3 DEF DepthMatchesCache, At
        <3>1. CASE u # t
            BY <2>7, <2>8, <3>1 DEF DepthMatchesCache, At
        <3>2. CASE u = t
            BY <1>1, <2>4, <2>7, <2>8, <2>16, <3>2 DEF DepthMatchesCache, At
        <3>3. QED
            BY <3>1, <3>2
    <2>18. HeldIsCounted'
        <3> SUFFICES ASSUME NEW u \in Threads, NEW c \in Blocks, NEW q \in Objects,
                            lockCount'[u][c] > 0, object[c] = q
                     PROVE  held[u][q] = lockCount'[u][c]
                              - (IF call'[u].at = "lock" /\ call'[u].result = c THEN 1 ELSE 0)
            BY <1>3 DEF HeldIsCounted, Cached, At
        <3>1. CASE u # t
            BY <2>7, <2>8, <3>1 DEF HeldIsCounted, Cached, At
        <3>2. CASE u = t /\ c = b
            BY <2>1, <2>3, <2>4, <2>7, <2>8, <3>2
        <3>3. CASE u = t /\ c # b
            BY <1>1, <2>4, <2>7, <2>8, <3>3 DEF HeldIsCounted, Cached, At
        <3>4. QED
            BY <3>1, <3>2, <3>3
    <2>19. HeldIsOwned'
        BY <1>3, <2>2, <2>8 DEF HeldIsOwned, Cached
    <2>20. QED
        BY <1>5, <2>6, <2>9, <2>10, <2>11, <2>12, <2>13, <2>15, <2>17, <2>18, <2>19
<1>7. CASE ~ Acquired(t)
    <2>1. call[t].why # "ACQUIRE"
        BY <1>5, <1>7
    <2>2. /\ call' = [call EXCEPT ![t] = Idle]
          /\ status' = [status EXCEPT ![t] = "NOT_OWNING_THREAD"]
          /\ UNCHANGED lockCount
        BY <1>7, <2>1 DEF SpinUnlock, Return
    <2>3. Idle \in Call /\ Idle.at = "idle"
        BY DEF Call, Idle
    <2>4. TypeOK'
        BY SyncAssumption, <1>3, <2>2, <2>3 DEF TypeOK, Status
    <2>5. call'[t] = Idle /\ \A u \in Threads \ {t} : call'[u] = call[u]
        BY <2>2 DEF TypeOK
    <2>6. SpinIsMine'
        BY <1>4, <2>3, <2>5 DEF SpinIsMine, ListOf
    <2>7. InItsList' /\ WalkIsCurrent' /\ BeginsWithNothing' /\ FoundIsIts'
        BY <1>3, <2>3, <2>5
        DEF InItsList, WalkIsCurrent, BeginsWithNothing, FoundIsIts, At, ListOf
    <2>8. WalksForNew' /\ LocksCached'
        BY <1>3, <2>2, <2>3, <2>5 DEF WalksForNew, LocksCached, Cached, At
    <2>9. FreshIsUnused' /\ OneBlockPerObject' /\ OwnedIsDeep' /\ HeldIsOwned'
        BY <1>3, <2>2 DEF FreshIsUnused, OneBlockPerObject, OwnedIsDeep, HeldIsOwned, Cached
    <2>10. \A c \in Blocks : Users(c)' = Users(c)
        BY <1>1, <2>1, <2>2, <2>3, <2>5 DEF Users, At
    <2>11. UsedIsCounted'
        BY <1>3, <2>10, SameUsers
    <2>12. DepthMatchesCache' /\ HeldIsCounted'
        BY <1>1, <1>3, <2>2, <2>3, <2>5 DEF DepthMatchesCache, HeldIsCounted, Cached, At
    <2>13. QED
        BY <1>5, <2>4, <2>6, <2>7, <2>8, <2>9, <2>11, <2>12
<1>8. QED
    BY <1>6, <1>7

LEMMA MutexLockIInv ==
    ASSUME IInv, NEW t \in Threads, MutexLock(t)
    PROVE  /\ IInv'
           /\ \A u \in Threads \ {t} : held[u][call[t].obj] = 0
<1> USE DEF IInv
<1>1. /\ call[t] \in Call /\ call[t].at = "lock"
      /\ call[t].obj \in Objects /\ call[t].result \in Blocks
    BY CallFields DEF MutexLock, At, TypeOK
<1>2. PICK b \in Blocks, o \in Objects : b = call[t].result /\ o = call[t].obj
    BY <1>1
<1>3. /\ owner[b] \in {None, t}
      /\ owner' = [owner EXCEPT ![b] = t]
      /\ depth' = [depth EXCEPT ![b] = @ + 1]
      /\ held' = [held EXCEPT ![t][o] = @ + 1]
      /\ call' = [call EXCEPT ![t] = Idle]
      /\ status' = [status EXCEPT ![t] = "SUCCESS"]
      /\ UNCHANGED <<object, threadCount, list, spin, lockCount, misuses>>
    BY <1>2 DEF MutexLock, Lockable, Return
<1>4. lockCount[t][b] > 0 /\ object[b] = o
    BY <1>1, <1>2 DEF LocksCached, Cached, At
<1>5. lockCount[t][b] \in Nat /\ held[t][o] \in Nat /\ depth[b] \in Nat
    BY DEF TypeOK
<1>6. held[t][o] = lockCount[t][b] - 1
    BY <1>1, <1>2, <1>4, <1>5 DEF HeldIsCounted, Cached, At
\* Who is inside o owns the mutex of its only block, b.
<1>7. ASSUME NEW u \in Threads
      PROVE  held[u][o] > 0 => owner[b] = u
    BY <1>4, SyncAssumption DEF HeldIsOwned, OneBlockPerObject, Cached
<1>8. \A u \in Threads \ {t} : held[u][o] = 0
    <2> SUFFICES ASSUME NEW u \in Threads \ {t} PROVE held[u][o] = 0
        OBVIOUS
    <2>1. held[u][o] \in Nat
        BY DEF TypeOK
    <2>2. QED
        BY <1>3, <1>7, <2>1, SyncAssumption
<1>9. depth'[b] = lockCount[t][b]
    <2>1. CASE owner[b] = t
        <3>1. depth[b] = lockCount[t][b] - 1
            BY <1>1, <1>2, <1>5, <2>1 DEF DepthMatchesCache, At
        <3>2. QED
            BY <1>3, <1>5, <3>1 DEF TypeOK
    <2>2. CASE owner[b] = None
        <3>1. depth[b] = 0
            BY <2>2 DEF OwnedIsDeep
        <3>2. held[t][o] = 0
            BY <1>5, <1>7, <2>2, SyncAssumption
        <3>3. QED
            BY <1>3, <1>5, <1>6, <3>1, <3>2 DEF TypeOK
    <2>3. QED
        BY <1>3, <2>1, <2>2
<1>10. Idle \in Call /\ Idle.at = "idle"
    BY DEF Call, Idle
<1>11. TypeOK'
    BY SyncAssumption, <1>3, <1>10 DEF TypeOK, Status
<1>12. call'[t] = Idle /\ \A u \in Threads \ {t} : call'[u] = call[u]
    BY <1>3 DEF TypeOK
<1>13. /\ owner'[b] = t
       /\ \A c \in Blocks \ {b} : owner'[c] = owner[c] /\ depth'[c] = depth[c]
    BY <1>3 DEF TypeOK
<1>14. SpinIsMine' /\ InItsList' /\ WalkIsCurrent' /\ BeginsWithNothing' /\ FoundIsIts'
    BY <1>3, <1>10, <1>12
    DEF SpinIsMine, InItsList, WalkIsCurrent, BeginsWithNothing, FoundIsIts, At, ListOf
<1>15. WalksForNew' /\ LocksCached'
    BY <1>3, <1>10, <1>12 DEF WalksForNew, LocksCached, Cached, At
<1>16. FreshIsUnused' /\ OneBlockPerObject'
    BY <1>3 DEF FreshIsUnused, OneBlockPerObject
<1>17. \A c \in Blocks : Users(c)' = Users(c)
    BY <1>1, <1>3, <1>10, <1>12 DEF Users, At
<1>18. UsedIsCounted'
    BY <1>3, <1>17, SameUsers
<1>19. OwnedIsDeep'
    <2>1. depth'[b] # 0 /\ owner'[b] # None
        BY <1>4, <1>9, <1>13, SyncAssumption
    <2>2. QED
        BY <1>13, <2>1 DEF OwnedIsDeep
<1>20. DepthMatchesCache'
    <2> SUFFICES ASSUME NEW c \in Blocks, NEW u \in Threads, owner'[c] = u
                 PROVE  depth'[c] = lockCount[u][c]
                            - (IF call'[u].at = "lock" /\ call'[u].result = c THEN 1 ELSE 0)
                            + (IF call'[u].at = "unlock" /\ call'[u].result = c THEN 1 ELSE 0)
        BY <1>3 DEF DepthMatchesCache, At
    <2>1. CASE c = b
        BY <1>5, <1>9, <1>10, <1>12, <1>13, <2>1
    <2>2. CASE c # b
        BY <1>1, <1>2, <1>10, <1>12, <1>13, <2>2 DEF DepthMatchesCache, At
    <2>3. QED
        BY <2>1, <2>2
<1>21. HeldIsCounted'
    <2> SUFFICES ASSUME NEW u \in Threads, NEW c \in Blocks, NEW q \in Objects,
                        lockCount[u][c] > 0, object[c] = q
                 PROVE  held'[u][q] = lockCount[u][c]
                            - (IF call'[u].at = "lock" /\ call'[u].result = c THEN 1 ELSE 0)
        BY <1>3 DEF HeldIsCounted, Cached, At
    <2>1. CASE u # t
        BY <1>3, <1>12, <2>1 DEF HeldIsCounted, Cached, At, TypeOK
    <2>2. CASE u = t /\ c = b
        <3>1. held'[t][o] = lockCount[t][b]
            BY <1>3, <1>5, <1>6 DEF TypeOK
        <3>2. QED
            BY <1>4, <1>5, <1>10, <1>12, <2>2, <3>1
    <2>3. CASE u = t /\ c # b
        <3>1. q # o
            BY <1>4, <2>3, SyncAssumption DEF OneBlockPerObject
        <3>2. held'[t][q] = held[t][q]
            BY <1>3, <3>1 DEF TypeOK
        <3>3. QED
            BY <1>1, <1>2, <1>10, <1>12, <2>3, <3>2 DEF HeldIsCounted, Cached, At
    <2>4. QED
        BY <2>1, <2>2, <2>3
<1>22. HeldIsOwned'
    <2> SUFFICES ASSUME NEW u \in Threads, NEW q \in Objects, held'[u][q] > 0
                 PROVE  \E c \in Blocks :
                            lockCount[u][c] > 0 /\ object[c] = q /\ owner'[c] = u
        BY <1>3 DEF HeldIsOwned, Cached
    <2>1. CASE u = t /\ q = o
        BY <1>4, <1>13, <2>1
    <2>2. CASE ~ (u = t /\ q = o)
        <3>1. held'[u][q] = held[u][q]
            BY <1>3, <2>2 DEF TypeOK
        <3>2. PICK c \in Blocks : lockCount[u][c] > 0 /\ object[c] = q /\ owner[c] = u
            BY <3>1 DEF HeldIsOwned, Cached
        <3>3. owner'[c] = u
            BY <1>3, <1>13, <3>2, SyncAssumption
        <3>4. QED
            BY <3>2, <3>3
    <2>3. QED
        BY <2>1, <2>2
<1>23. QED
    BY <1>2, <1>8, <1>11, <1>14, <1>15, <1>16, <1>18, <1>19, <1>20, <1>21, <1>22

LEMMA MutexUnlockIInv ==
    ASSUME IInv, NEW t \in Threads, MutexUnlock(t)
    PROVE  IInv'
<1> USE DEF IInv
<1>1. call[t] \in Call /\ call[t].at = "unlock" /\ call[t].result \in Blocks
    BY CallFields DEF MutexUnlock, At, TypeOK
<1>2. PICK b \in Blocks : b = call[t].result
    BY <1>1
<1>3. Idle \in Call /\ Idle.at = "idle"
    BY DEF Call, Idle
<1>4. /\ call' = [call EXCEPT ![t] = Idle]
      /\ UNCHANGED <<object, threadCount, list, spin, lockCount, held, misuses>>
    BY DEF MutexUnlock, Return
<1>5. call'[t] = Idle /\ \A u \in Threads \ {t} : call'[u] = call[u]
    BY <1>4 DEF TypeOK
<1>6. SpinIsMine' /\ InItsList' /\ WalkIsCurrent' /\ BeginsWithNothing' /\ FoundIsIts'
    BY <1>3, <1>4, <1>5
    DEF SpinIsMine, InItsList, WalkIsCurrent, BeginsWithNothing, FoundIsIts, At, ListOf
<1>7. WalksForNew' /\ LocksCached'
    BY <1>3, <1>4, <1>5 DEF WalksForNew, LocksCached, Cached, At
<1>8. FreshIsUnused' /\ OneBlockPerObject'
    BY <1>4 DEF FreshIsUnused, OneBlockPerObject
<1>9. \A c \in Blocks : Users(c)' = Users(c)
    BY <1>1, <1>3, <1>4, <1>5 DEF Users, At
<1>10. UsedIsCounted'
    BY <1>4, <1>9, SameUsers
<1>11. HeldIsCounted'
    BY <1>1, <1>3, <1>4, <1>5 DEF HeldIsCounted, Cached, At
<1>12. CASE owner[b] = t
    <2>1. /\ depth' = [depth EXCEPT ![b] = @ - 1]
          /\ owner' = [owner EXCEPT ![b] = IF depth[b] = 1 THEN None ELSE t]
          /\ status' = [status EXCEPT ![t] = "SUCCESS"]
        BY <1>2, <1>12 DEF MutexUnlock, OwnerAfter, Return
    <2>2. lockCount[t][b] \in Nat /\ depth[b] \in Nat
        BY DEF TypeOK
    <2>3. depth[b] = lockCount[t][b] + 1
        BY <1>1, <1>2, <1>12, <2>2 DEF DepthMatchesCache, At
    <2>4. TypeOK'
        BY SyncAssumption, <1>3, <1>4, <2>1, <2>2, <2>3 DEF TypeOK, Status
    <2>5. /\ depth'[b] = lockCount[t][b]
          /\ owner'[b] = IF lockCount[t][b] = 0 THEN None ELSE t
          /\ \A c \in Blocks \ {b} : owner'[c] = owner[c] /\ depth'[c] = depth[c]
        BY <2>1, <2>2, <2>3 DEF TypeOK
    <2>6. OwnedIsDeep'
        <3>1. owner'[b] = None <=> depth'[b] = 0
            BY <2>2, <2>5, SyncAssumption
        <3>2. QED
            BY <2>5, <3>1 DEF OwnedIsDeep
    <2>7. DepthMatchesCache'
        <3> SUFFICES ASSUME NEW c \in Blocks, NEW u \in Threads, owner'[c] = u
                     PROVE  depth'[c] = lockCount[u][c]
                              - (IF call'[u].at = "lock" /\ call'[u].result = c THEN 1 ELSE 0)
                              + (IF call'[u].at = "unlock" /\ call'[u].result = c THEN 1 ELSE 0)
            BY <1>4 DEF DepthMatchesCache, At
        <3>1. CASE c = b
            BY <1>3, <1>5, <2>2, <2>5, <3>1, SyncAssumption
        <3>2. CASE c # b
            BY <1>1, <1>2, <1>3, <1>5, <2>5, <3>2 DEF DepthMatchesCache, At
        <3>3. QED
            BY <3>1, <3>2
    <2>8. HeldIsOwned'
        BY <1>4, <1>12, <2>5 DEF HeldIsOwned, Cached
    <2>9. QED
        BY <1>6, <1>7, <1>8, <1>10, <1>11, <2>4, <2>6, <2>7, <2>8
<1>13. CASE owner[b] # t
    <2>1. UNCHANGED <<owner, depth>> /\ status' = [status EXCEPT ![t] = "NOT_OWNING_THREAD"]
        BY <1>2, <1>13 DEF MutexUnlock, Return
    <2>2. TypeOK'
        BY SyncAssumption, <1>3, <1>4, <2>1 DEF TypeOK, Status
    <2>3. OwnedIsDeep' /\ HeldIsOwned'
        BY <1>4, <2>1 DEF OwnedIsDeep, HeldIsOwned, Cached
    <2>4. DepthMatchesCache'
        BY <1>1, <1>2, <1>3, <1>4, <1>5, <1>13, <2>1 DEF DepthMatchesCache, At
    <2>5. QED
        BY <1>6, <1>7, <1>8, <1>10, <1>11, <2>2, <2>3, <2>4
<1>14. QED
    BY <1>12, <1>13

LEMMA UnchangedIInv ==
    ASSUME IInv, UNCHANGED vars
    PROVE  IInv'
<1>1. TypeOK'
    BY DEF IInv, vars, TypeOK
<1>2. SpinIsMine' /\ InItsList' /\ WalkIsCurrent' /\ BeginsWithNothing' /\ FoundIsIts'
    BY DEF IInv, vars, SpinIsMine, InItsList, WalkIsCurrent, BeginsWithNothing, FoundIsIts,
           At, ListOf
<1>3. WalksForNew' /\ LocksCached' /\ FreshIsUnused' /\ OneBlockPerObject' /\ OwnedIsDeep'
    BY DEF IInv, vars, WalksForNew, LocksCached, FreshIsUnused, OneBlockPerObject,
           OwnedIsDeep, At, Cached
<1>4. UsedIsCounted'
    BY DEF IInv, vars, UsedIsCounted, Users, At
<1>5. DepthMatchesCache' /\ HeldIsCounted' /\ HeldIsOwned'
    BY DEF IInv, vars, DepthMatchesCache, HeldIsCounted, HeldIsOwned, Cached, At
<1>6. QED
    BY <1>1, <1>2, <1>3, <1>4, <1>5 DEF IInv

-----------------------------------------------------------------------------
(* The invariant is inductive, and what follows from it.                   *)

LEMMA InitIInv == Init => IInv
<1> SUFFICES ASSUME Init PROVE IInv
    OBVIOUS
<1>1. Idle \in Call /\ Idle.at = "idle"
    BY DEF Call, Idle
<1>2. \A t \in Threads : call[t] = Idle
    BY DEF Init
<1>3. TypeOK
    BY SyncAssumption, <1>1 DEF Init, TypeOK, Status
<1>4. SpinIsMine /\ WalkIsCurrent /\ BeginsWithNothing /\ FoundIsIts /\ WalksForNew
      /\ LocksCached
    BY <1>1, <1>2
    DEF SpinIsMine, WalkIsCurrent, BeginsWithNothing, FoundIsIts, WalksForNew, LocksCached, At
<1>5. InItsList /\ FreshIsUnused /\ OneBlockPerObject /\ OwnedIsDeep
    BY DEF Init, InItsList, FreshIsUnused, OneBlockPerObject, OwnedIsDeep
<1>6. UsedIsCounted
    <2>1. \A b \in Blocks : Users(b) = {}
        BY <1>1, <1>2 DEF Init, Users, At
    <2>2. Cardinality({}) = 0 /\ \A b \in Blocks : threadCount[b] = 0
        BY FS_EmptySet DEF Init
    <2>3. QED
        BY <2>1, <2>2 DEF UsedIsCounted
<1>7. DepthMatchesCache /\ HeldIsCounted /\ HeldIsOwned
    BY SyncAssumption DEF Init, DepthMatchesCache, HeldIsCounted, HeldIsOwned, Cached
<1>8. QED
    BY <1>3, <1>4, <1>5, <1>6, <1>7 DEF IInv

LEMMA NextIInv == IInv /\ [Next]_vars => IInv'
<1> SUFFICES ASSUME IInv, [Next]_vars PROVE IInv'
    OBVIOUS
<1>1. ASSUME NEW t \in Threads, NEW o \in Objects, EnterCached(t, o)
      PROVE  IInv'
    BY <1>1, EnterCachedIInv
<1>2. ASSUME NEW t \in Threads, NEW o \in Objects, EnterUncached(t, o)
      PROVE  IInv'
    BY <1>2, NotCachedIInv DEF EnterUncached, IInv, TypeOK
<1>3. ASSUME NEW t \in Threads, NEW o \in Objects, ExitCached(t, o)
      PROVE  IInv'
    BY <1>3, ExitCachedIInv
<1>4. ASSUME NEW t \in Threads, NEW o \in Objects, ExitUncached(t, o)
      PROVE  IInv'
    <2>1. misuses' \in 0..MaxMisuse
        BY <1>4, SyncAssumption DEF ExitUncached, MayExit, IInv, TypeOK
    <2>2. QED
        BY <1>4, <2>1, NotCachedIInv DEF ExitUncached
<1>5. ASSUME NEW t \in Threads, SpinLock(t) PROVE IInv'
    BY <1>5, SpinLockIInv
<1>6. ASSUME NEW t \in Threads, Walk(t) PROVE IInv'
    BY <1>6, WalkIInv
<1>7. ASSUME NEW t \in Threads, NotFound(t) PROVE IInv'
    BY <1>7, NotFoundIInv
<1>8. ASSUME NEW t \in Threads, Reuse(t) PROVE IInv'
    <2>1. PICK b \in Blocks : b = call[t].firstUnused
        BY <1>8, CallFields DEF Reuse, IInv, TypeOK
    <2>2. /\ threadCount[b] = 0 /\ object[b] # None
          /\ HASH[object[b]] = ListOf(t)
        BY <1>8, <2>1, SyncAssumption DEF Reuse, AtEndOfList, At, IInv, WalkIsCurrent
    <2>3. QED
        BY <1>8, <2>1, <2>2, AssociateIInv DEF Reuse
<1>9. ASSUME NEW t \in Threads, Allocate(t) PROVE IInv'
    <2>1. PICK b \in Blocks : /\ object[b] = None
                              /\ Associate(t, b)
                              /\ list' = [list EXCEPT ![ListOf(t)] = Append(@, b)]
        BY <1>9 DEF Allocate
    <2>2. threadCount[b] = 0
        BY <2>1 DEF IInv, FreshIsUnused
    <2>3. QED
        BY <1>9, <2>1, <2>2, AssociateIInv DEF Allocate
<1>10. ASSUME NEW t \in Threads, SpinUnlock(t) PROVE IInv'
    BY <1>10, SpinUnlockIInv
<1>11. ASSUME NEW t \in Threads, MutexLock(t) PROVE IInv'
    BY <1>11, MutexLockIInv
<1>12. ASSUME NEW t \in Threads, MutexUnlock(t) PROVE IInv'
    BY <1>12, MutexUnlockIInv
<1>13. CASE UNCHANGED vars
    BY <1>13, UnchangedIInv
<1>14. QED
    BY <1>1, <1>2, <1>3, <1>4, <1>5, <1>6, <1>7, <1>8, <1>9, <1>10, <1>11, <1>12, <1>13
    DEF Next, Client, Runtime

LEMMA Invariance == Spec => []IInv
BY InitIInv, NextIInv, PTL DEF Spec

\* Every variable keeps its type, for all constants.
THEOREM TypeCorrect == Spec => []TypeOK
<1>1. IInv => TypeOK
    BY DEF IInv
<1>2. QED
    BY <1>1, Invariance, PTL

\* The spinlocks keep an object from being given two blocks.
THEOREM OneBlockCorrect == Spec => []OneBlockPerObject
<1>1. IInv => OneBlockPerObject
    BY DEF IInv
<1>2. QED
    BY <1>1, Invariance, PTL

\* A block in use is never up for reuse, although threadCount goes down with
\* no lock held and although a misuse makes it too large.
THEOREM UsedIsCountedCorrect == Spec => []UsedIsCounted
<1>1. IInv => UsedIsCounted
    BY DEF IInv
<1>2. QED
    BY <1>1, Invariance, PTL

\* The mutex and the caches count the same statements.
THEOREM DepthCorrect == Spec => []DepthMatchesCache
<1>1. IInv => DepthMatchesCache
    BY DEF IInv
<1>2. QED
    BY <1>1, Invariance, PTL

\* Two threads are never inside one object: both own the mutex of its block.
THEOREM MutualExclusionCorrect == Spec => []MutualExclusion
<1>1. IInv => MutualExclusion
    BY SyncAssumption DEF IInv, MutualExclusion, HeldIsOwned, Cached, OneBlockPerObject
<1>2. QED
    BY <1>1, Invariance, PTL

\* A thread that waits for an object's mutex waits for a thread that is inside
\* that object or is about to unlock, never for one inside another object.
THEOREM WaitsCorrect == Spec => []WaitsOnlyForItsObject
<1>1. ASSUME IInv PROVE WaitsOnlyForItsObject
    <2> SUFFICES ASSUME NEW t \in Threads, NEW u \in Threads, At(t, "lock"),
                        owner[call[t].result] = u,
                        ~ (At(u, "unlock") /\ call[u].result = call[t].result)
                 PROVE  u # t => held[u][call[t].obj] > 0
        BY DEF WaitsOnlyForItsObject
    <2>1. PICK b \in Blocks, o \in Objects :
              b = call[t].result /\ o = call[t].obj /\ object[b] = o
        BY <1>1, CallFields DEF IInv, TypeOK, At, LocksCached, Cached
    <2>2. lockCount[u][b] \in Nat /\ depth[b] \in Nat /\ depth[b] # 0
        BY <1>1, <2>1, SyncAssumption DEF IInv, TypeOK, OwnedIsDeep
    <2>3. depth[b] = lockCount[u][b]
                       - (IF At(u, "lock") /\ call[u].result = b THEN 1 ELSE 0)
        BY <1>1, <2>1, <2>2 DEF IInv, DepthMatchesCache
    <2>4. lockCount[u][b] > 0
        BY <2>2, <2>3
    <2>5. held[u][o] = depth[b]
        BY <1>1, <2>1, <2>3, <2>4 DEF IInv, HeldIsCounted, Cached
    <2>6. QED
        BY <2>1, <2>2, <2>5
<1>2. QED
    BY <1>1, Invariance, PTL

-----------------------------------------------------------------------------
(* While the client leaves only what it entered, threadCount is exact.     *)

\* Then no RELEASE gets past the cache: the walks are all of an ACQUIRE.
AcquiresOnly ==
    \A t \in Threads : call[t].at \in {"spin", "scan", "done"} => call[t].why = "ACQUIRE"

Exact == \A b \in Blocks : threadCount[b] = Cardinality(Users(b))

CountInv == misuses = 0 => AcquiresOnly /\ Exact

\* A step that changes neither the counters nor who uses what.
LEMMA StillExact ==
    ASSUME AcquiresOnly, Exact, UNCHANGED threadCount, NEW t \in Threads,
           \A u \in Threads \ {t} : call'[u] = call[u],
           call'[t].at \in {"spin", "scan", "done"} => call'[t].why = "ACQUIRE",
           \A c \in Blocks : Users(c)' = Users(c)
    PROVE  AcquiresOnly' /\ Exact'
BY DEF AcquiresOnly, Exact

\* A step that makes t a user of b, and counts it.
LEMMA OneMoreExact ==
    ASSUME AcquiresOnly, Exact, NEW t \in Threads, NEW b \in Blocks,
           \A u \in Threads \ {t} : call'[u] = call[u],
           call'[t].at \in {"spin", "scan", "done"} => call'[t].why = "ACQUIRE",
           \A c \in Blocks \ {b} : Users(c)' = Users(c) /\ threadCount'[c] = threadCount[c],
           t \notin Users(b), Users(b)' = Users(b) \cup {t}, threadCount'[b] = threadCount[b] + 1
    PROVE  AcquiresOnly' /\ Exact'
<1>1. Cardinality(Users(b) \cup {t}) = Cardinality(Users(b)) + 1
    BY UsersFinite, FS_AddElement
<1>2. Cardinality(Users(b))' = threadCount'[b]
    BY <1>1 DEF Exact
<1>3. \A c \in Blocks : threadCount'[c] = Cardinality(Users(c))'
    BY <1>2 DEF Exact
<1>4. QED
    BY <1>3 DEF AcquiresOnly, Exact

LEMMA NextCountInv == IInv /\ CountInv /\ [Next]_vars => CountInv'
<1> SUFFICES ASSUME IInv, CountInv, [Next]_vars, misuses' = 0
             PROVE  AcquiresOnly' /\ Exact'
    BY DEF CountInv
<1> USE DEF IInv
<1>1. misuses = 0 /\ AcquiresOnly /\ Exact
    <2>1. misuses \in Nat
        BY SyncAssumption DEF TypeOK
    <2>2. misuses' = misuses \/ misuses' = misuses + 1
        BY DEF Next, Client, Runtime, EnterCached, EnterUncached, ExitCached, ExitUncached, MayExit,
               SpinLock, Walk, NotFound, Reuse, Allocate, Associate, SpinUnlock, MutexLock,
               MutexUnlock, vars
    <2>3. QED
        BY <2>1, <2>2 DEF CountInv
<1>2. /\ object \in [Blocks -> Objects \cup {None}] /\ threadCount \in [Blocks -> Nat]
      /\ lockCount \in [Threads -> [Blocks -> Nat]] /\ call \in [Threads -> Call]
    BY DEF TypeOK
<1>3. ASSUME NEW t \in Threads, NEW o \in Objects, EnterCached(t, o)
      PROVE  AcquiresOnly' /\ Exact'
    <2>1. PICK b \in Blocks : /\ Cached(t, b, o)
                              /\ IF threadCount[b] > 0
                                 THEN /\ lockCount' = [lockCount EXCEPT ![t][b] = @ + 1]
                                      /\ call' = [call EXCEPT ![t] =
                                             [Idle EXCEPT !.at = "lock", !.obj = o, !.result = b]]
                                      /\ UNCHANGED status
                                 ELSE Return(t, "NOT_INITIALIZED") /\ UNCHANGED lockCount
        BY <1>3 DEF EnterCached
    <2>2. lockCount[t][b] \in Nat /\ lockCount[t][b] > 0
        BY <1>2, <2>1 DEF Cached
    <2>3. threadCount[b] > 0
        BY <2>2, CachedIsCounted
    <2>4. PICK r : r = [Idle EXCEPT !.at = "lock", !.obj = o, !.result = b]
        OBVIOUS
    <2>5. r.at = "lock" /\ call[t].at = "idle"
        BY <1>3, <2>4 DEF Idle, EnterCached, At
    <2>6. /\ lockCount' = [lockCount EXCEPT ![t][b] = @ + 1]
          /\ call' = [call EXCEPT ![t] = r]
          /\ UNCHANGED threadCount
        BY <1>3, <2>1, <2>3, <2>4 DEF EnterCached
    <2>7. call'[t] = r /\ \A u \in Threads \ {t} : call'[u] = call[u]
        BY <1>2, <2>6
    <2>8. \A c \in Blocks : Users(c)' = Users(c)
        BY <1>2, <2>2, <2>5, <2>6, <2>7 DEF Users, At
    <2>9. QED
        BY <1>1, <2>5, <2>6, <2>7, <2>8, StillExact
<1>4. ASSUME NEW t \in Threads, NEW o \in Objects, EnterUncached(t, o)
      PROVE  AcquiresOnly' /\ Exact'
    <2>1. PICK r : r = [Idle EXCEPT !.at = "spin", !.why = "ACQUIRE", !.obj = o]
        OBVIOUS
    <2>2. /\ call[t].at = "idle" /\ r.at = "spin" /\ r.why = "ACQUIRE"
          /\ call' = [call EXCEPT ![t] = r] /\ UNCHANGED <<threadCount, lockCount>>
        BY <1>4, <2>1 DEF EnterUncached, NotCached, At, Idle
    <2>3. call'[t] = r /\ \A u \in Threads \ {t} : call'[u] = call[u]
        BY <1>2, <2>2
    <2>4. \A c \in Blocks : Users(c)' = Users(c)
        BY <2>2, <2>3 DEF Users, At
    <2>5. QED
        BY <1>1, <2>2, <2>3, <2>4, StillExact
\* The last exit takes the thread off the users and off the counter.
<1>5. ASSUME NEW t \in Threads, NEW o \in Objects, ExitCached(t, o)
      PROVE  AcquiresOnly' /\ Exact'
    <2>1. PICK b \in Blocks :
            /\ Cached(t, b, o)
            /\ IF threadCount[b] > 0
               THEN /\ lockCount' = [lockCount EXCEPT ![t][b] = @ - 1]
                    /\ threadCount' =
                           [threadCount EXCEPT ![b] = IF lockCount[t][b] = 1 THEN @ - 1 ELSE @]
                    /\ call' = [call EXCEPT ![t] =
                                    [Idle EXCEPT !.at = "unlock", !.why = "RELEASE",
                                                 !.obj = o, !.result = b]]
                    /\ held' = [held EXCEPT ![t][o] = IF @ > 0 THEN @ - 1 ELSE 0]
                    /\ UNCHANGED status
               ELSE /\ Return(t, "NOT_OWNING_THREAD")
                    /\ UNCHANGED <<lockCount, threadCount, held>>
        BY <1>5 DEF ExitCached
    <2>2. lockCount[t][b] \in Nat /\ lockCount[t][b] > 0
        BY <1>2, <2>1 DEF Cached
    <2>3. threadCount[b] > 0
        BY <2>2, CachedIsCounted
    <2>4. PICK r : r = [Idle EXCEPT !.at = "unlock", !.why = "RELEASE", !.obj = o, !.result = b]
        OBVIOUS
    <2>5. r.at = "unlock" /\ call[t].at = "idle"
        BY <1>5, <2>4 DEF Idle, ExitCached, At
    <2>6. /\ lockCount' = [lockCount EXCEPT ![t][b] = @ - 1]
          /\ threadCount' = [threadCount EXCEPT ![b] = IF lockCount[t][b] = 1 THEN @ - 1 ELSE @]
          /\ call' = [call EXCEPT ![t] = r]
        BY <2>1, <2>3, <2>4
    <2>7. call'[t] = r /\ \A u \in Threads \ {t} : call'[u] = call[u]
        BY <1>2, <2>6
    <2>8. AcquiresOnly'
        BY <1>1, <2>5, <2>7 DEF AcquiresOnly
    <2>9. \A c \in Blocks \ {b} : Users(c)' = Users(c) /\ threadCount'[c] = threadCount[c]
        BY <1>2, <2>2, <2>5, <2>6, <2>7 DEF Users, At
    <2>10. threadCount'[b] = Cardinality(Users(b))'
        <3>1. CASE lockCount[t][b] = 1
            <4>1. Users(b)' = Users(b) \ {t} /\ t \in Users(b)
                BY <1>2, <2>2, <2>5, <2>6, <2>7, <3>1 DEF Users, At
            <4>2. Cardinality(Users(b) \ {t}) = Cardinality(Users(b)) - 1
                BY <4>1, UsersFinite, FS_RemoveElement
            <4>3. threadCount'[b] = threadCount[b] - 1
                BY <1>2, <2>6, <3>1
            <4>4. QED
                BY <1>1, <4>1, <4>2, <4>3 DEF Exact
        <3>2. CASE lockCount[t][b] # 1
            <4>1. Users(b)' = Users(b)
                BY <1>2, <2>2, <2>5, <2>6, <2>7, <3>2 DEF Users, At
            <4>2. threadCount'[b] = threadCount[b]
                BY <1>2, <2>6, <3>2
            <4>3. QED
                BY <1>1, <4>1, <4>2 DEF Exact
        <3>3. QED
            BY <3>1, <3>2
    <2>11. QED
        BY <1>1, <2>8, <2>9, <2>10 DEF Exact
\* Who is inside the object has its block in the cache.
<1>6. ASSUME NEW t \in Threads, NEW o \in Objects, ExitUncached(t, o)
      PROVE  AcquiresOnly' /\ Exact'
    <2>1. held[t][o] > 0
        BY <1>1, <1>6 DEF ExitUncached, MayExit
    <2>2. \E b \in Blocks : Cached(t, b, o)
        BY <2>1 DEF HeldIsOwned
    <2>3. QED
        BY <1>6, <2>2 DEF ExitUncached, NotCached
<1>7. ASSUME NEW t \in Threads, SpinLock(t)
      PROVE  AcquiresOnly' /\ Exact'
    <2>1. PICK r : r = [call[t] EXCEPT !.at = "scan", !.p = Len(list[ListOf(t)])]
        OBVIOUS
    <2>2. /\ call[t] \in Call /\ call[t].at = "spin" /\ call[t].why = "ACQUIRE"
          /\ call' = [call EXCEPT ![t] = r]
          /\ UNCHANGED <<threadCount, lockCount>>
        BY <1>1, <1>2, <1>7, <2>1 DEF SpinLock, At, AcquiresOnly
    <2>3. r.at = "scan" /\ r.why = "ACQUIRE"
        BY <2>1, <2>2 DEF Call
    <2>4. call'[t] = r /\ \A u \in Threads \ {t} : call'[u] = call[u]
        BY <1>2, <2>2
    <2>5. \A c \in Blocks : Users(c)' = Users(c)
        BY <2>2, <2>3, <2>4 DEF Users, At
    <2>6. QED
        BY <1>1, <2>2, <2>3, <2>4, <2>5, StillExact
<1>8. ASSUME NEW t \in Threads, Walk(t)
      PROVE  AcquiresOnly' /\ Exact'
    <2>1. /\ call[t] \in Call /\ call[t].at = "scan" /\ call[t].why = "ACQUIRE"
          /\ call[t].obj \in Objects /\ call[t].p \in Nat \ {0}
          /\ UNCHANGED <<object, lockCount>>
        BY <1>1, <1>2, <1>8 DEF Walk, At, AcquiresOnly, Call, TypeOK
    <2>2. PICK l \in Lists : l = ListOf(t)
        BY <2>1, SyncAssumption DEF ListOf
    <2>3. PICK b \in Blocks : b = list[l][call[t].p]
        BY <2>1, <2>2 DEF WalkIsCurrent, At, TypeOK
    <2>4. CASE object[b] = call[t].obj
        <3>1. PICK r : r = [call[t] EXCEPT !.at = "done", !.result = b]
            OBVIOUS
        <3>2. r.at = "done" /\ r.why = "ACQUIRE" /\ r.result = b
            BY <2>1, <3>1 DEF Call
        <3>3. call' = [call EXCEPT ![t] = r] /\ threadCount' = [threadCount EXCEPT ![b] = @ + 1]
            BY <1>2, <1>8, <2>1, <2>2, <2>3, <2>4, <3>1 DEF Walk, CountUse
        <3>4. call'[t] = r /\ \A u \in Threads \ {t} : call'[u] = call[u]
            BY <1>2, <3>3
        <3>5. ~(lockCount[t][b] > 0)
            BY <2>1, <2>4 DEF WalksForNew, Cached
        <3>6. t \notin Users(b) /\ Users(b)' = Users(b) \cup {t}
            BY <2>1, <3>2, <3>4, <3>5 DEF Users, At
        <3>7. \A c \in Blocks \ {b} : Users(c)' = Users(c)
            BY <2>1, <3>2, <3>4 DEF Users, At
        <3>8. /\ threadCount'[b] = threadCount[b] + 1
              /\ \A c \in Blocks \ {b} : threadCount'[c] = threadCount[c]
            BY <1>2, <3>3
        <3>9. QED
            BY <1>1, <3>2, <3>4, <3>6, <3>7, <3>8, OneMoreExact
    <2>5. CASE object[b] # call[t].obj
        <3>1. PICK f : f = IF call[t].firstUnused = None /\ Unused(b) THEN b ELSE call[t].firstUnused
            OBVIOUS
        <3>2. PICK r : r = [call[t] EXCEPT !.p = @ - 1, !.firstUnused = f]
            OBVIOUS
        <3>3. r.at = "scan" /\ r.why = "ACQUIRE"
            BY <2>1, <3>2 DEF Call
        <3>4. call' = [call EXCEPT ![t] = r] /\ UNCHANGED threadCount
            BY <1>2, <1>8, <2>1, <2>2, <2>3, <2>5, <3>1, <3>2 DEF Walk
        <3>5. call'[t] = r /\ \A u \in Threads \ {t} : call'[u] = call[u]
            BY <1>2, <3>4
        <3>6. \A c \in Blocks : Users(c)' = Users(c)
            BY <2>1, <3>3, <3>5 DEF Users, At
        <3>7. QED
            BY <1>1, <3>3, <3>4, <3>5, <3>6, StillExact
    <2>6. QED
        BY <2>4, <2>5
<1>9. ASSUME NEW t \in Threads, NotFound(t)
      PROVE  AcquiresOnly' /\ Exact'
    BY <1>1, <1>9 DEF NotFound, AtEndOfList, At, AcquiresOnly
\* Nobody uses the block that is taken.
<1>10. ASSUME NEW t \in Threads, NEW b \in Blocks, Associate(t, b), threadCount[b] = 0,
              AtEndOfList(t, "ACQUIRE")
       PROVE  AcquiresOnly' /\ Exact'
    <2>1. PICK r : r = [call[t] EXCEPT !.at = "done", !.result = b]
        OBVIOUS
    <2>2. /\ call[t] \in Call /\ call[t].at = "scan" /\ call[t].why = "ACQUIRE"
          /\ call' = [call EXCEPT ![t] = r]
          /\ threadCount' = [threadCount EXCEPT ![b] = 1]
          /\ UNCHANGED lockCount
        BY <1>2, <1>10, <2>1 DEF Associate, AtEndOfList, At
    <2>3. r.at = "done" /\ r.why = "ACQUIRE" /\ r.result = b
        BY <2>1, <2>2 DEF Call
    <2>4. call'[t] = r /\ \A u \in Threads \ {t} : call'[u] = call[u]
        BY <1>2, <2>2
    <2>5. Users(b) = {}
        BY <1>10, ZeroIsUnused
    <2>6. t \notin Users(b) /\ Users(b)' = Users(b) \cup {t}
        BY <2>2, <2>3, <2>4, <2>5 DEF Users, At
    <2>7. \A c \in Blocks \ {b} : Users(c)' = Users(c)
        BY <2>2, <2>3, <2>4 DEF Users, At
    <2>8. /\ threadCount'[b] = threadCount[b] + 1
          /\ \A c \in Blocks \ {b} : threadCount'[c] = threadCount[c]
        BY <1>2, <1>10, <2>2
    <2>9. QED
        BY <1>1, <2>3, <2>4, <2>6, <2>7, <2>8, OneMoreExact
<1>11. ASSUME NEW t \in Threads, Reuse(t)
       PROVE  AcquiresOnly' /\ Exact'
    <2>1. call[t].firstUnused \in Blocks
        BY <1>2, <1>11, CallFields DEF Reuse
    <2>2. threadCount[call[t].firstUnused] = 0
        BY <1>11 DEF Reuse, AtEndOfList, At, WalkIsCurrent
    <2>3. QED
        BY <1>10, <1>11, <2>1, <2>2 DEF Reuse
<1>12. ASSUME NEW t \in Threads, Allocate(t)
       PROVE  AcquiresOnly' /\ Exact'
    BY <1>10, <1>12 DEF Allocate, FreshIsUnused
<1>13. ASSUME NEW t \in Threads, SpinUnlock(t)
       PROVE  AcquiresOnly' /\ Exact'
    <2>1. /\ call[t] \in Call /\ call[t].at = "done" /\ call[t].why = "ACQUIRE"
          /\ call[t].result \in Blocks /\ call[t].obj \in Objects
          /\ object[call[t].result] = call[t].obj
        BY <1>1, <1>2, <1>13 DEF SpinUnlock, At, AcquiresOnly, FoundIsIts, Call, TypeOK
    <2>2. PICK b \in Blocks : b = call[t].result
        BY <2>1
    <2>3. PICK r : r = [Idle EXCEPT !.at = "lock", !.obj = call[t].obj, !.result = b]
        OBVIOUS
    <2>4. r.at = "lock"
        BY <2>3 DEF Idle
    <2>5. Acquired(t)
        BY <2>1, SyncAssumption DEF Acquired
    <2>6. /\ lockCount' = [lockCount EXCEPT ![t][b] = 1]
          /\ call' = [call EXCEPT ![t] = r]
          /\ UNCHANGED threadCount
        BY <1>13, <2>2, <2>3, <2>5 DEF SpinUnlock
    <2>7. call'[t] = r /\ \A u \in Threads \ {t} : call'[u] = call[u]
        BY <1>2, <2>6
    <2>8. \A c \in Blocks : Users(c)' = Users(c)
        BY <1>2, <2>1, <2>2, <2>4, <2>6, <2>7 DEF Users, At
    <2>9. QED
        BY <1>1, <2>4, <2>6, <2>7, <2>8, StillExact
<1>14. ASSUME NEW t \in Threads, MutexLock(t) \/ MutexUnlock(t)
       PROVE  AcquiresOnly' /\ Exact'
    <2>1. /\ call[t].at \in {"lock", "unlock"} /\ call' = [call EXCEPT ![t] = Idle]
          /\ UNCHANGED <<threadCount, lockCount>>
        BY <1>14 DEF MutexLock, MutexUnlock, Return, At
    <2>2. Idle.at = "idle"
        BY DEF Idle
    <2>3. call'[t] = Idle /\ \A u \in Threads \ {t} : call'[u] = call[u]
        BY <1>2, <2>1
    <2>4. \A c \in Blocks : Users(c)' = Users(c)
        BY <2>1, <2>2, <2>3 DEF Users, At
    <2>5. QED
        BY <1>1, <2>1, <2>2, <2>3, <2>4, StillExact
<1>15. CASE UNCHANGED vars
    BY <1>1, <1>15 DEF vars, AcquiresOnly, Exact, Users, At
<1>16. QED
    BY <1>3, <1>4, <1>5, <1>6, <1>7, <1>8, <1>9, <1>11, <1>12, <1>13, <1>14, <1>15
    DEF Next, Client, Runtime

\* As long as the client leaves only what it entered, threadCount is the
\* number of the threads that use the block, in every state, although it goes
\* down with no lock held.
THEOREM ThreadCountCorrect == Spec => []ThreadCountExact
<1>1. Init => CountInv
    <2> SUFFICES ASSUME Init PROVE AcquiresOnly /\ Exact
        BY DEF CountInv
    <2>1. \A t \in Threads : call[t].at = "idle"
        BY DEF Init, Idle
    <2>2. \A b \in Blocks : Users(b) = {} /\ threadCount[b] = 0
        BY <2>1 DEF Init, Users, At
    <2>3. QED
        BY <2>1, <2>2, FS_EmptySet DEF AcquiresOnly, Exact
<1>2. IInv /\ CountInv /\ [Next]_vars => CountInv'
    BY NextCountInv
<1>3. CountInv => ThreadCountExact
    BY DEF CountInv, Exact, ThreadCountExact
<1>4. QED
    BY <1>1, <1>2, <1>3, Invariance, PTL DEF Spec

-----------------------------------------------------------------------------
(* Refinement.                                                             *)

LEMMA InitRefines == Init => RL!Init
BY DEF Init, RL!Init

\* A step takes a lock free of others, gives up one that was held, or leaves
\* the abstract locks alone.
LEMMA NextRefines == IInv /\ [Next]_vars => [RL!Next]_held
<1> SUFFICES ASSUME IInv, [Next]_vars PROVE [RL!Next]_held
    OBVIOUS
<1>1. ASSUME NEW t \in Threads, NEW o \in Objects, ExitCached(t, o)
      PROVE  [RL!Next]_held
    <2>1. PICK b \in Blocks :
              /\ Cached(t, b, o)
              /\ \/ held' = [held EXCEPT ![t][o] = IF @ > 0 THEN @ - 1 ELSE 0]
                 \/ UNCHANGED held
        BY <1>1 DEF ExitCached
    <2>2. lockCount[t][b] > 0 /\ call[t].at = "idle" /\ lockCount[t][b] \in Nat
        BY <1>1, <2>1 DEF Cached, ExitCached, At, IInv, TypeOK
    <2>3. held[t][o] = lockCount[t][b]
        BY <2>1, <2>2 DEF IInv, HeldIsCounted, At
    <2>4. CASE held' = [held EXCEPT ![t][o] = IF @ > 0 THEN @ - 1 ELSE 0]
        <3>1. held[t][o] > 0 /\ held' = [held EXCEPT ![t][o] = @ - 1]
            BY <2>2, <2>3, <2>4
        <3>2. QED
            BY <3>1 DEF RL!Next, RL!Exit
    <2>5. QED
        BY <2>1, <2>4
<1>2. ASSUME NEW t \in Threads, MutexLock(t)
      PROVE  [RL!Next]_held
    <2>1. PICK o \in Objects : o = call[t].obj
        BY <1>2, CallFields DEF MutexLock, At, IInv, TypeOK
    <2>2. \A u \in Threads \ {t} : held[u][o] = 0
        BY <1>2, <2>1, MutexLockIInv
    <2>3. held' = [held EXCEPT ![t][o] = @ + 1]
        BY <1>2, <2>1 DEF MutexLock
    <2>4. QED
        BY <2>2, <2>3 DEF RL!Next, RL!Enter
<1>3. ASSUME NEW t \in Threads, NEW o \in Objects,
             EnterCached(t, o) \/ EnterUncached(t, o) \/ ExitUncached(t, o)
      PROVE  UNCHANGED held
    BY <1>3 DEF EnterCached, EnterUncached, ExitUncached, NotCached
<1>4. ASSUME NEW t \in Threads,
             \/ SpinLock(t) \/ Walk(t) \/ NotFound(t) \/ Reuse(t) \/ Allocate(t)
             \/ SpinUnlock(t) \/ MutexUnlock(t)
      PROVE  UNCHANGED held
    BY <1>4 DEF SpinLock, Walk, NotFound, Reuse, Allocate, Associate, SpinUnlock, MutexUnlock
<1>5. CASE UNCHANGED vars
    BY <1>5 DEF vars
<1>6. QED
    BY <1>1, <1>2, <1>3, <1>4, <1>5 DEF Next, Client, Runtime

\* objc_sync_enter and objc_sync_exit implement one recursive lock for every
\* object, however the blocks behind them are shared out and reused.
THEOREM SyncImplementsRecursiveLock == Spec => ImplementsRecursiveLock
<1>1. QED
    BY InitRefines, NextRefines, Invariance, PTL DEF Spec, ImplementsRecursiveLock, RL!Spec

=============================================================================
