------------------------------- MODULE Sync -------------------------------
(***************************************************************************)
(* @synchronized: objc_sync_enter, objc_sync_exit and the id2data table    *)
(* behind them (objc-sync.m).                                              *)
(*                                                                         *)
(* An object that is synchronized on is given a SyncData block that holds  *)
(* a recursive mutex.  Blocks live on one of a few hashed lists, each      *)
(* under a spinlock, are never freed, and are handed to another object     *)
(* once no thread uses them.  A thread keeps the blocks it uses, and how   *)
(* often it locked each, in a cache of its own, and drops a block from     *)
(* the cache, and gives up its use of it, BEFORE it unlocks the mutex.     *)
(*                                                                         *)
(* The client is whatever code calls the two functions.  It may enter and  *)
(* leave objects in any order; up to MaxMisuse times it leaves an object   *)
(* it is not in, which the API answers with an error.                      *)
(***************************************************************************)
EXTENDS Naturals, Sequences, FiniteSets

CONSTANTS
    Threads, Objects,
    Blocks,     \* the SyncData blocks calloc can return
    Lists,      \* indices of sDataLists
    HASH,       \* the list of each object
    None,       \* nil: no object, no thread, no block
    Rank,       \* the order in which the client nests @synchronized statements
    MaxLock,    \* bound on how often a thread re-enters one object
    MaxMisuse   \* bound on the exits from objects the client is not in

ASSUME SyncAssumption ==
    /\ IsFiniteSet(Threads)
    /\ None \notin Threads /\ None \notin Objects /\ None \notin Blocks
    /\ HASH \in [Objects -> Lists]
    /\ Rank \in [Objects -> Nat]
    /\ MaxLock \in Nat \ {0}
    /\ MaxMisuse \in Nat

VARIABLES
    object,       \* SyncData.object of each block; None until it is allocated
    threadCount,  \* SyncData.threadCount of each block
    owner,        \* the thread that holds the block's recursive mutex
    depth,        \* how often it holds it
    list,         \* each list's blocks, oldest first: the code's head is the last
    spin,         \* the thread in each list's spinlock
    lockCount,    \* each thread's SyncCache: 0 when the block is not in it
    call,         \* the locals of the call each thread is in
    status,       \* what each thread's last call returned
    held,         \* the client's state: how often it is inside each object
    misuses       \* how often it left an object it was not in

vars == <<object, threadCount, owner, depth, list, spin, lockCount, call,
          status, held, misuses>>

Call ==
    [at : {"idle", "spin", "scan", "done", "lock", "unlock"},
     why : {"ACQUIRE", "RELEASE"},
     obj : Objects \cup {None},
     p : Nat,                            \* blocks still to be walked
     firstUnused : Blocks \cup {None},
     result : Blocks \cup {None}]

Idle == [at |-> "idle", why |-> "ACQUIRE", obj |-> None, p |-> 0,
         firstUnused |-> None, result |-> None]

Status == {"SUCCESS", "NOT_OWNING_THREAD", "NOT_INITIALIZED"}

TypeOK ==
    /\ object \in [Blocks -> Objects \cup {None}]
    /\ threadCount \in [Blocks -> Nat]
    /\ owner \in [Blocks -> Threads \cup {None}]
    /\ depth \in [Blocks -> Nat]
    /\ list \in [Lists -> Seq(Blocks)]
    /\ spin \in [Lists -> Threads \cup {None}]
    /\ lockCount \in [Threads -> [Blocks -> Nat]]
    /\ call \in [Threads -> Call]
    /\ \A t \in Threads :
        /\ call[t].at # "idle" => call[t].obj # None
        /\ call[t].at \in {"lock", "unlock"} => call[t].result # None
    /\ status \in [Threads -> Status]
    /\ held \in [Threads -> [Objects -> Nat]]
    /\ misuses \in 0..MaxMisuse

Init ==
    /\ object = [b \in Blocks |-> None]
    /\ threadCount = [b \in Blocks |-> 0]
    /\ owner = [b \in Blocks |-> None]
    /\ depth = [b \in Blocks |-> 0]
    /\ list = [l \in Lists |-> <<>>]
    /\ spin = [l \in Lists |-> None]
    /\ lockCount = [t \in Threads |-> [b \in Blocks |-> 0]]
    /\ call = [t \in Threads |-> Idle]
    /\ status = [t \in Threads |-> "SUCCESS"]
    /\ held = [t \in Threads |-> [o \in Objects |-> 0]]
    /\ misuses = 0

-----------------------------------------------------------------------------
(* What the client asks for.                                               *)

\* The client nests objects in Rank order (all ranks equal: in any order).
MayEnter(t, o) ==
    \A q \in Objects : held[t][q] > 0 => Rank[q] <= Rank[o]

MayExit(t, o) ==
    \/ held[t][o] > 0 /\ UNCHANGED misuses
    \/ held[t][o] = 0 /\ misuses < MaxMisuse /\ misuses' = misuses + 1

At(t, where) == call[t].at = where

Return(t, what) ==
    /\ call' = [call EXCEPT ![t] = Idle]
    /\ status' = [status EXCEPT ![t] = what]

-----------------------------------------------------------------------------
(* id2data, first part: the per-thread cache.  The only shared data it     *)
(* touches is threadCount, which a RELEASE decrements with no lock held.   *)

\* b is the block of the item of t's cache that matches o.
Cached(t, b, o) == lockCount[t][b] > 0 /\ object[b] = o

\* A recursive ACQUIRE.  If the cache is found to be buggy objc_sync_enter fails.
EnterCached(t, o) ==
    /\ At(t, "idle") /\ MayEnter(t, o)
    /\ \E b \in Blocks :
        /\ Cached(t, b, o)
        /\ lockCount[t][b] < MaxLock
        /\ IF threadCount[b] > 0
           THEN /\ lockCount' = [lockCount EXCEPT ![t][b] = @ + 1]
                /\ call' = [call EXCEPT ![t] =
                                [Idle EXCEPT !.at = "lock", !.obj = o, !.result = b]]
                /\ UNCHANGED status
           ELSE Return(t, "NOT_INITIALIZED") /\ UNCHANGED lockCount
    /\ UNCHANGED <<object, threadCount, owner, depth, list, spin, held, misuses>>

\* A RELEASE of an object in the cache: the last one gives up the block.
ExitCached(t, o) ==
    /\ At(t, "idle") /\ MayExit(t, o)
    /\ \E b \in Blocks :
        /\ Cached(t, b, o)
        /\ IF threadCount[b] > 0
           THEN /\ lockCount' = [lockCount EXCEPT ![t][b] = @ - 1]
                /\ threadCount' =
                       [threadCount EXCEPT ![b] = IF lockCount[t][b] = 1 THEN @ - 1 ELSE @]
                /\ call' = [call EXCEPT ![t] =
                                [Idle EXCEPT !.at = "unlock", !.why = "RELEASE",
                                             !.obj = o, !.result = b]]
                /\ held' = [held EXCEPT ![t][o] = IF @ > 0 THEN @ - 1 ELSE 0]
                /\ UNCHANGED status
           ELSE /\ Return(t, "NOT_OWNING_THREAD")
                /\ UNCHANGED <<lockCount, threadCount, held>>
    /\ UNCHANGED <<object, owner, depth, list, spin>>

-----------------------------------------------------------------------------
(* id2data, second part: nothing in the cache, walk the list of the object *)
(* under its spinlock.                                                     *)

NotCached(t, o, usage) ==
    /\ At(t, "idle")
    /\ \A b \in Blocks : ~ Cached(t, b, o)
    /\ call' = [call EXCEPT ![t] = [Idle EXCEPT !.at = "spin", !.why = usage, !.obj = o]]
    /\ UNCHANGED <<object, threadCount, owner, depth, list, spin, lockCount, status, held>>

EnterUncached(t, o) ==
    MayEnter(t, o) /\ NotCached(t, o, "ACQUIRE") /\ UNCHANGED misuses

ExitUncached(t, o) == MayExit(t, o) /\ NotCached(t, o, "RELEASE")

ListOf(t) == HASH[call[t].obj]

\* Seeded bug: the list is walked without its spinlock.
NoSpinlock(l) == TRUE

SpinFree(l) == spin[l] = None

SpinLock(t) ==
    /\ At(t, "spin")
    /\ SpinFree(ListOf(t))
    /\ spin' = [spin EXCEPT ![ListOf(t)] = t]
    /\ call' = [call EXCEPT ![t].at = "scan", ![t].p = Len(list[ListOf(t)])]
    /\ UNCHANGED <<object, threadCount, owner, depth, list, lockCount, status, held, misuses>>

\* Seeded bug: the walk finds the block and forgets to count the thread.
CountNothing(b) == UNCHANGED threadCount

\* What the walk does about the counter of the block it was looking for.
CountUse(b) == threadCount' = [threadCount EXCEPT ![b] = @ + 1]

\* Seeded bug: a block that is in use is taken for another object.
AnyBlock(b) == TRUE

\* The first block on the list that no thread uses can be reused.
Unused(b) == threadCount[b] = 0

\* One turn of the walk: the block's object, then its threadCount, which
\* other threads may be decrementing meanwhile.
Walk(t) ==
    /\ At(t, "scan") /\ call[t].p > 0
    /\ LET b == list[ListOf(t)][call[t].p] IN
       IF object[b] = call[t].obj
       THEN /\ CountUse(b)
            /\ call' = [call EXCEPT ![t].at = "done", ![t].result = b]
       ELSE /\ call' = [call EXCEPT ![t].p = @ - 1,
                            ![t].firstUnused =
                                IF @ = None /\ Unused(b) THEN b ELSE @]
            /\ UNCHANGED threadCount
    /\ UNCHANGED <<object, owner, depth, list, spin, lockCount, status, held, misuses>>

AtEndOfList(t, usage) == At(t, "scan") /\ call[t].p = 0 /\ call[t].why = usage

\* The object has no block and the call is no ACQUIRE.
NotFound(t) ==
    /\ AtEndOfList(t, "RELEASE")
    /\ call' = [call EXCEPT ![t].at = "done"]
    /\ UNCHANGED <<object, threadCount, owner, depth, list, spin, lockCount, status, held, misuses>>

\* Block b becomes the object's.
Associate(t, b) ==
    /\ object' = [object EXCEPT ![b] = call[t].obj]
    /\ threadCount' = [threadCount EXCEPT ![b] = 1]
    /\ call' = [call EXCEPT ![t].at = "done", ![t].result = b]
    /\ UNCHANGED <<owner, depth, spin, lockCount, status, held, misuses>>

Reuse(t) ==
    /\ AtEndOfList(t, "ACQUIRE")
    /\ call[t].firstUnused # None
    /\ Associate(t, call[t].firstUnused)
    /\ UNCHANGED list

Allocate(t) ==
    /\ AtEndOfList(t, "ACQUIRE")
    /\ call[t].firstUnused = None
    /\ \E b \in Blocks :
        /\ object[b] = None
        /\ Associate(t, b)
        /\ list' = [list EXCEPT ![ListOf(t)] = Append(@, b)]

\* "Only new ACQUIRE should get here", with a block of the object.
Acquired(t) ==
    /\ call[t].result # None
    /\ call[t].why = "ACQUIRE"
    /\ object[call[t].result] = call[t].obj

\* Leave the spinlock; an ACQUIRE goes on to the mutex, and nothing else may
\* come here with a result ("id2data is buggy").
SpinUnlock(t) ==
    /\ At(t, "done")
    /\ spin' = [spin EXCEPT ![ListOf(t)] = None]
    /\ LET b == call[t].result IN
       IF Acquired(t)
       THEN /\ lockCount' = [lockCount EXCEPT ![t][b] = 1]
            /\ call' = [call EXCEPT ![t] =
                            [Idle EXCEPT !.at = "lock", !.obj = call[t].obj, !.result = b]]
            /\ UNCHANGED status
       ELSE /\ Return(t, IF call[t].why = "ACQUIRE" THEN "NOT_INITIALIZED"
                                                     ELSE "NOT_OWNING_THREAD")
            /\ UNCHANGED lockCount
    /\ UNCHANGED <<object, threadCount, owner, depth, list, held, misuses>>

-----------------------------------------------------------------------------
(* The block's recursive pthread mutex, and the end of the two calls.      *)

\* Seeded bug: the mutex does not exclude.
AlwaysLockable(t, b) == TRUE

Lockable(t, b) == owner[b] \in {None, t}

MutexLock(t) ==
    LET b == call[t].result IN
    /\ At(t, "lock")
    /\ Lockable(t, b)
    /\ owner' = [owner EXCEPT ![b] = t]
    /\ depth' = [depth EXCEPT ![b] = @ + 1]
    /\ held' = [held EXCEPT ![t][call[t].obj] = @ + 1]
    /\ Return(t, "SUCCESS")
    /\ UNCHANGED <<object, threadCount, list, spin, lockCount, misuses>>

\* Seeded bug: the mutex is not recursive, one unlock frees it.
FreedAtOnce(t, b) == None

\* Seeded bug: off by one, the last unlock does not free the mutex.
FreedTooLate(t, b) == IF depth[b] = 0 THEN None ELSE t

\* The owner after an unlock by t.
OwnerAfter(t, b) == IF depth[b] = 1 THEN None ELSE t

\* pthread_mutex_unlock answers EPERM to a thread that is not the owner.
MutexUnlock(t) ==
    LET b == call[t].result IN
    /\ At(t, "unlock")
    /\ IF owner[b] = t
       THEN /\ depth' = [depth EXCEPT ![b] = @ - 1]
            /\ owner' = [owner EXCEPT ![b] = OwnerAfter(t, b)]
            /\ Return(t, "SUCCESS")
       ELSE /\ Return(t, "NOT_OWNING_THREAD")
            /\ UNCHANGED <<owner, depth>>
    /\ UNCHANGED <<object, threadCount, list, spin, lockCount, held, misuses>>

-----------------------------------------------------------------------------

Client(t) ==
    \E o \in Objects : \/ EnterCached(t, o) \/ EnterUncached(t, o)
                       \/ ExitCached(t, o) \/ ExitUncached(t, o)

Runtime(t) ==
    \/ SpinLock(t) \/ Walk(t) \/ NotFound(t) \/ Reuse(t) \/ Allocate(t)
    \/ SpinUnlock(t) \/ MutexLock(t) \/ MutexUnlock(t)

Next == \E t \in Threads : Client(t) \/ Runtime(t)

Spec == Init /\ [][Next]_vars

\* Every thread is scheduled; the spinlock and the mutex starve nobody; and
\* the client leaves what it entered.
Fairness ==
    \A t \in Threads :
        /\ WF_vars(Runtime(t))
        /\ SF_vars(SpinLock(t)) /\ SF_vars(MutexLock(t))
        /\ \A o \in Objects : SF_vars(held[t][o] > 0 /\ ExitCached(t, o))

FairSpec == Spec /\ Fairness

-----------------------------------------------------------------------------
(* Properties.                                                             *)

\* The threads that use block b: it is in their cache, or the walk has just
\* found it for them.
Users(b) ==
    {t \in Threads : \/ lockCount[t][b] > 0
                     \/ At(t, "done") /\ call[t].why = "ACQUIRE" /\ call[t].result = b}

\* Two threads are never inside @synchronized on one object, whatever blocks
\* the object was given meanwhile (objc-sync.m:237-239).
MutualExclusion ==
    \A o \in Objects, t, u \in Threads :
        held[t][o] > 0 /\ held[u][o] > 0 => t = u

\* The spinlock "prevents multiple threads from creating multiple locks for
\* the same new object" (objc-sync.m:160).
OneBlockPerObject ==
    \A a, b \in Blocks : object[a] = object[b] /\ object[a] # None => a = b

\* "number of THREADS using this block" (objc-sync.m:37), although it is
\* decremented without the spinlock; a client that only leaves what it
\* entered keeps it exact.
ThreadCountExact ==
    misuses = 0 => \A b \in Blocks : threadCount[b] = Cardinality(Users(b))

\* A block that a thread uses is never up for reuse, misuse or not.
UsedIsCounted ==
    \A b \in Blocks : threadCount[b] >= Cardinality(Users(b))

\* The mutex's own recursion count and the thread's cache never part: apart
\* from a lock or an unlock under way they count the same statements.
DepthMatchesCache ==
    \A b \in Blocks, t \in Threads :
        owner[b] = t =>
            depth[b] = lockCount[t][b]
                         - (IF At(t, "lock") /\ call[t].result = b THEN 1 ELSE 0)
                         + (IF At(t, "unlock") /\ call[t].result = b THEN 1 ELSE 0)

\* A block is reused while its last user has yet to unlock it; still a thread
\* that waits for an object's mutex waits for a thread that is inside that
\* object, or for one that is about to unlock.
WaitsOnlyForItsObject ==
    \A t, u \in Threads :
        At(t, "lock") /\ owner[call[t].result] = u /\ u # t =>
            \/ held[u][call[t].obj] > 0
            \/ At(u, "unlock") /\ call[u].result = call[t].result

\* The table of blocks implements one recursive lock for every object.
RL == INSTANCE RecursiveLock
ImplementsRecursiveLock == RL!Spec

\* Every call returns, when the client nests in Rank order: reusing a block
\* that its last user still has locked blocks nobody for good.
CallsReturn == \A t \in Threads : ~ At(t, "idle") ~> At(t, "idle")

=============================================================================
