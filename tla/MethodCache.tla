---------------------------- MODULE MethodCache ----------------------------
(***************************************************************************)
(* Message dispatch: the messenger's lookup in a class's method cache      *)
(* (objc-msg-arm.S), lookUpMethod behind it (objc-class.m), the caches     *)
(* themselves (objc-cache.m) and the method lists they mirror              *)
(* (class_addMethod and category attachment in objc-runtime-new.m).        *)
(*                                                                         *)
(* The messenger reads a cache with no lock, one bucket at a time, while   *)
(* others clear the buckets, slide entries along or replace the whole      *)
(* cache.  All of that is done under runtimeLock, so that cacheUpdateLock, *)
(* taken inside it, is never contended here and is left out.  All classes  *)
(* are realized and initialized.  A cache entry is the method itself: to   *)
(* change a method's implementation in place touches no cache.             *)
(***************************************************************************)
EXTENDS Naturals, Sequences, FiniteSets

CONSTANTS
    Threads, Classes, Sels, None,
    Caches,       \* the blocks calloc can return for caches
    Super,        \* each class's superclass, None for a root
    HASH,         \* each selector's hash, still to be masked
    InitSize,     \* INIT_CACHE_SIZE
    Methods,      \* the selectors each class has a method for to begin with
    MaxVersion,   \* bound on the methods each class gets for a selector
    Threshold     \* garbage_threshold, in caches

MethodCacheAssumption ==
    /\ None \notin Threads \cup Classes \cup Sels \cup Caches
    /\ Super \in [Classes -> Classes \cup {None}]
    /\ \E height \in [Classes -> 0..Cardinality(Classes)] :
            \A c \in Classes : Super[c] # None => height[Super[c]] < height[c]
    /\ IsFiniteSet(Classes)
    /\ HASH \in [Sels -> Nat]
    /\ Methods \in [Classes -> SUBSET Sels]
    /\ InitSize \in Nat \ {0, 1}
    /\ MaxVersion \in Nat \ {0} /\ Threshold \in Nat

ASSUME MethodCacheAssumption

VARIABLES
    version,   \* the first method for a selector in a class's own lists, 0: none
    before,    \* history: version before the change that is in progress
    lock,      \* the thread in runtimeLock
    cache,     \* each class's cache, None: _objc_empty_cache
    grow,      \* each class's grow flag
    buckets,   \* the buckets of each block
    occupied,  \* and its counter
    garbage,   \* the caches in garbage_refs
    call       \* what each thread is doing

vars == <<version, before, lock, cache, grow, buckets, occupied, garbage, call>>

\* A method, or the forward:: entry of a selector (no class, version 0).
Entry == [cls : Classes \cup {None}, sel : Sels, version : 0..MaxVersion]
Forward(s) == [cls |-> None, sel |-> s, version |-> 0]

ASSUME NoMethod == None \notin Entry

\* expected: history, what the message may be dispatched to; todo: the classes
\* still to be flushed; then: where to go on after the change.
Call ==
    [at : {"idle", "probe", "miss", "resolve", "fill", "clear", "insert", "unlock",
           "dispatch", "flush"},
     cls : Classes \cup {None}, sel : Sels \cup {None},
     block : Caches \cup {None}, index : Nat,
     tried : BOOLEAN,
     entry : Entry \cup {None}, result : Entry \cup {None},
     expected : SUBSET Entry,
     todo : SUBSET Classes, then : {"idle", "miss"}]

Idle == [at |-> "idle", cls |-> None, sel |-> None, block |-> None, index |-> 0,
         tried |-> FALSE, entry |-> None, result |-> None, expected |-> {},
         todo |-> {}, then |-> "idle"]

TypeOK ==
    /\ version \in [Classes -> [Sels -> 0..MaxVersion]]
    /\ before \in [Classes -> [Sels -> 0..MaxVersion]]
    /\ lock \in Threads \cup {None}
    /\ cache \in [Classes -> Caches \cup {None}]
    /\ grow \in [Classes -> BOOLEAN]
    /\ buckets \in [Caches -> Seq(Entry \cup {None})]
    /\ occupied \in [Caches -> Nat]
    /\ garbage \subseteq Caches
    /\ call \in [Threads -> Call]
    /\ \A t \in Threads :
        /\ call[t].at \in {"probe", "clear"} => call[t].block # None
        /\ call[t].at \in {"fill", "insert"} => call[t].entry # None
        /\ call[t].at \in {"fill", "insert", "unlock", "dispatch"} => call[t].result # None

Init ==
    /\ version = [c \in Classes |-> [s \in Sels |-> IF s \in Methods[c] THEN 1 ELSE 0]]
    /\ before = version
    /\ lock = None
    /\ cache = [c \in Classes |-> None]
    /\ grow = [c \in Classes |-> FALSE]
    /\ buckets = [k \in Caches |-> <<>>]
    /\ occupied = [k \in Caches |-> 0]
    /\ garbage = {}
    /\ call = [t \in Threads |-> Idle]

-----------------------------------------------------------------------------

At(t, where) == call[t].at = where
Size(k) == Len(buckets[k])
Slot(k, s) == HASH[s] % Size(k)
Bucket(k, i) == buckets[k][i + 1]

\* What a message with selector s means for each class while the method lists
\* are v.
Meanings(v, s) ==
    LET up[d \in Classes] ==
            IF v[d][s] > 0 THEN [cls |-> d, sel |-> s, version |-> v[d][s]]
            ELSE IF Super[d] = None THEN Forward(s)
            ELSE up[Super[d]]
    IN  up

Resolve(v, c, s) == Meanings(v, s)[c]

\* The entry that a probe of k for s ends at when it has gone n buckets on, None
\* if it misses.
Probes(k, s) ==
    LET probe[n \in 0..Size(k)] ==
            LET e == Bucket(k, (HASH[s] + n) % Size(k)) IN
            IF n = Size(k) \/ e = None THEN None
            ELSE IF e.sel = s THEN e ELSE probe[n + 1]
    IN  probe

CacheLookup(c, s) == IF cache[c] = None THEN None ELSE Probes(cache[c], s)[0]

-----------------------------------------------------------------------------
(* The messenger: no lock.                                                 *)

\* Read the class's cache and mask.
Send(t, c, s) ==
    /\ At(t, "idle")
    /\ call' = [call EXCEPT ![t] =
           [Idle EXCEPT !.at = IF cache[c] = None THEN "miss" ELSE "probe",
                        !.cls = c, !.sel = s, !.block = cache[c],
                        !.index = IF cache[c] = None THEN 0 ELSE Slot(cache[c], s),
                        !.expected = {Resolve(version, c, s), Resolve(before, c, s)}]]
    /\ UNCHANGED <<version, before, lock, cache, grow, buckets, occupied, garbage>>

Probe(t) ==
    LET k == call[t].block
        i == call[t].index
        e == Bucket(k, i)
    IN
    /\ At(t, "probe")
    /\ call' = [call EXCEPT ![t] =
           IF e = None THEN [@ EXCEPT !.at = "miss", !.block = None, !.index = 0]
           ELSE IF e.sel = call[t].sel
           THEN [@ EXCEPT !.at = "dispatch", !.result = e, !.block = None, !.index = 0]
           ELSE [@ EXCEPT !.index = (i + 1) % Size(k)]]
    /\ UNCHANGED <<version, before, lock, cache, grow, buckets, occupied, garbage>>

\* Jump to the implementation.
Dispatch(t) ==
    /\ At(t, "dispatch")
    /\ call' = [call EXCEPT ![t] = Idle]
    /\ UNCHANGED <<version, before, lock, cache, grow, buckets, occupied, garbage>>

-----------------------------------------------------------------------------
(* lookUpMethod: holds runtimeLock from the search to the end of the fill. *)

\* "No implementation found, and method resolver didn't help. Use forwarding."
NoImplementation(s) == Forward(s)

\* Search from each class upwards, its cache before its lists.  A forward::
\* entry in a cache ends the search.
Searches(s) ==
    LET search[d \in Classes] ==
            LET cached == CacheLookup(d, s) IN
            IF cached # None THEN cached
            ELSE IF version[d][s] > 0
            THEN [cls |-> d, sel |-> s, version |-> version[d][s]]
            ELSE IF Super[d] = None THEN NoImplementation(s)
            ELSE search[Super[d]]
    IN  search

\* Search cls's own lists, and then its superclasses.
SearchSupers(c, s) ==
    IF version[c][s] > 0 THEN [cls |-> c, sel |-> s, version |-> version[c][s]]
    ELSE IF Super[c] = None THEN NoImplementation(s)
    ELSE Searches(s)[Super[c]]

\* Seeded bug: method lists are searched and caches filled during a change.
LockIgnored == TRUE

RuntimeLockFree == lock = None

Search(t) ==
    LET c == call[t].cls
        s == call[t].sel
        cached == CacheLookup(c, s)
        found == SearchSupers(c, s)
    IN
    /\ At(t, "miss") /\ RuntimeLockFree
    /\ \/ /\ cached # None
          /\ lock' = t
          /\ call' = [call EXCEPT ![t].at = "unlock", ![t].result = cached]
       \/ /\ cached = None
          /\ found # Forward(s) \/ call[t].tried
          /\ lock' = t
          /\ call' = [call EXCEPT ![t].at = "fill", ![t].result = found, ![t].entry = found]
       \/ /\ cached = None
          /\ found = Forward(s) /\ ~ call[t].tried
          /\ call' = [call EXCEPT ![t].at = "resolve", ![t].tried = TRUE]
          /\ UNCHANGED lock
    /\ UNCHANGED <<version, before, cache, grow, buckets, occupied, garbage>>

\* The method resolver, which runs with no lock, does not know the method.
NotResolved(t) ==
    /\ At(t, "resolve")
    /\ call' = [call EXCEPT ![t].at = "miss"]
    /\ UNCHANGED <<version, before, lock, cache, grow, buckets, occupied, garbage>>

\* Seeded bug: garbage is freed whoever reads it.
NeverInCritical == FALSE

\* _collecting_in_critical, compiled with TARGET_OS_WIN32.
CollectingInCritical == TRUE

\* _cache_collect_free of an old cache, which tries to free all the garbage.
Collect(k) ==
    garbage' = IF Cardinality(garbage \cup {k}) < Threshold \/ CollectingInCritical
               THEN garbage \cup {k} ELSE {}

\* "Use the cache as-is if it is less than 3/4 full"
HasRoom(k) == (occupied[k] + 1) * 4 <= Size(k) * 3

\* A new, empty cache for c that takes one entry.
Install(c, size) ==
    \E k \in Caches \ (garbage \cup {cache[d] : d \in Classes}) :
        /\ cache' = [cache EXCEPT ![c] = k]
        /\ buckets' = [buckets EXCEPT ![k] = [i \in 1..size |-> None]]
        /\ occupied' = [occupied EXCEPT ![k] = 1]

GoInsert(t, size) ==
    call' = [call EXCEPT ![t].at = "insert", ![t].index = HASH[call[t].sel] % size]

\* _cache_fill, up to the insertion: make room for an entry in the cache.
Fill(t) ==
    LET c == call[t].cls
        k == cache[c]
    IN
    /\ At(t, "fill")
    /\ IF k = None
       THEN /\ Install(c, InitSize)
            /\ grow' = [grow EXCEPT ![c] = FALSE]
            /\ GoInsert(t, InitSize)
            /\ UNCHANGED garbage
       ELSE IF HasRoom(k)
       THEN /\ occupied' = [occupied EXCEPT ![k] = @ + 1]
            /\ GoInsert(t, Size(k))
            /\ UNCHANGED <<cache, grow, buckets, garbage>>
       ELSE IF ~ grow[c]
       THEN /\ occupied' = [occupied EXCEPT ![k] = 1]
            /\ grow' = [grow EXCEPT ![c] = TRUE]
            /\ call' = [call EXCEPT ![t].at = "clear", ![t].block = k]
            /\ UNCHANGED <<cache, buckets, garbage>>
       ELSE /\ Install(c, 2 * Size(k))
            /\ grow' = [grow EXCEPT ![c] = FALSE]
            /\ Collect(k)
            /\ GoInsert(t, 2 * Size(k))
    /\ UNCHANGED <<version, before, lock>>

\* Seeded bug: what was in the slot is overwritten.
Overwrite(saved) == TRUE

\* "Done if current slot had been invalid"
InsertionDone(saved) == saved = None

\* Put the entry where the hash says and slide what was there along.
Insert(t) ==
    LET k == cache[call[t].cls]
        i == call[t].index
        saved == Bucket(k, i)
    IN
    /\ At(t, "insert")
    /\ buckets' = [buckets EXCEPT ![k][i + 1] = call[t].entry]
    /\ call' = [call EXCEPT ![t] =
           IF InsertionDone(saved) THEN [@ EXCEPT !.at = "unlock", !.entry = None, !.index = 0]
           ELSE [@ EXCEPT !.entry = saved, !.index = (i + 1) % Size(k)]]
    /\ UNCHANGED <<version, before, lock, cache, grow, occupied, garbage>>

\* done: leave runtimeLock and dispatch.
Unlock(t) ==
    /\ At(t, "unlock")
    /\ lock' = None
    /\ call' = [call EXCEPT ![t].at = "dispatch"]
    /\ UNCHANGED <<version, before, cache, grow, buckets, occupied, garbage>>

-----------------------------------------------------------------------------
(* A class gets a method that hides what it had for the selector: a        *)
(* category is attached to it, or class_addMethod adds it.                 *)

\* Seeded bug: only the class itself is flushed.
NotItsSubclasses(c) == {c}

\* Whether each class is c or below it.
Below(c) ==
    LET below[d \in Classes] == d = c \/ (Super[d] # None /\ below[Super[d]])
    IN  below

Subclasses(c) == {d \in Classes : Below(c)[d]}

\* t takes runtimeLock, changes the lists and goes on to flush the caches.
Change(t, c, s, then) ==
    LET v == [version EXCEPT ![c][s] = @ + 1] IN
    /\ lock = None
    /\ version[c][s] < MaxVersion
    /\ lock' = t
    /\ version' = v
    /\ call' = [u \in Threads |->
           IF u = t
           THEN [call[t] EXCEPT !.at = "flush", !.todo = Subclasses(c), !.then = then,
                     !.expected = IF then = "idle" THEN {}
                                  ELSE @ \cup {Resolve(v, call[t].cls, call[t].sel)}]
           ELSE IF At(u, "idle") \/ call[u].sel = None THEN call[u]
           ELSE [call[u] EXCEPT !.expected = @ \cup {Resolve(v, call[u].cls, call[u].sel)}]]
    /\ UNCHANGED <<before, cache, grow, buckets, occupied, garbage>>

NewMethod(t, c, s) == At(t, "idle") /\ Change(t, c, s, "idle")

\* The resolver adds the method that was asked for, and the search is redone.
ResolveMethod(t) ==
    LET c == call[t].cls
        s == call[t].sel
    IN  At(t, "resolve") /\ version[c][s] = 0 /\ Change(t, c, s, "miss")

\* flushCaches: one class after the other, empty caches are ignored.
Flush(t) ==
    /\ At(t, "flush")
    /\ \E c \in call[t].todo :
        /\ call' = [call EXCEPT ![t].todo = @ \ {c},
                                ![t].at = IF cache[c] = None THEN "flush" ELSE "clear",
                                ![t].block = cache[c]]
        /\ occupied' = IF cache[c] = None THEN occupied
                       ELSE [occupied EXCEPT ![cache[c]] = 0]
    /\ UNCHANGED <<version, before, lock, cache, grow, buckets, garbage>>

EndChange(t) ==
    /\ At(t, "flush") /\ call[t].todo = {}
    /\ lock' = None
    /\ before' = version
    /\ call' = [call EXCEPT ![t] =
           IF @.then = "idle" THEN Idle
           ELSE [@ EXCEPT !.at = "miss", !.then = "idle"]]
    /\ UNCHANGED <<version, cache, grow, buckets, occupied, garbage>>

\* Invalidate a bucket, to empty a cache for reuse (_cache_expand) or for a
\* flush (_cache_flush).
Clear(t) ==
    LET k == call[t].block
        i == call[t].index
    IN
    /\ At(t, "clear")
    /\ buckets' = [buckets EXCEPT ![k][i + 1] = None]
    /\ call' = [call EXCEPT ![t] =
           IF i + 1 < Size(k) THEN [@ EXCEPT !.index = i + 1]
           ELSE IF call[t].entry = None
           THEN [@ EXCEPT !.at = "flush", !.index = 0, !.block = None]
           ELSE [@ EXCEPT !.at = "insert", !.index = Slot(k, call[t].sel), !.block = None]]
    /\ UNCHANGED <<version, before, lock, cache, grow, occupied, garbage>>

-----------------------------------------------------------------------------

Client(t) ==
    \E c \in Classes, s \in Sels :
        Send(t, c, s) \/ NewMethod(t, c, s)

Runtime(t) ==
    \/ Probe(t) \/ Dispatch(t) \/ Search(t) \/ NotResolved(t) \/ ResolveMethod(t)
    \/ Fill(t) \/ Insert(t) \/ Unlock(t) \/ Flush(t) \/ EndChange(t) \/ Clear(t)

Next == \E t \in Threads : Client(t) \/ Runtime(t)

Spec == Init /\ [][Next]_vars

-----------------------------------------------------------------------------
(* Properties.                                                             *)

\* A message goes to what it meant at some moment between its sending and its
\* dispatch, although the messenger may read a cache that is being emptied,
\* shifted or was replaced: no method is dispatched to after the change that
\* hid it is over.
DispatchesCurrent ==
    \A t \in Threads : At(t, "dispatch") => call[t].result \in call[t].expected

\* "Otherwise, a category could be added but ignored indefinitely because the
\* cache was re-filled with the old value" (objc-class.m:885-888): while no
\* change is in progress every cached entry is what the message means.
CachesAreCurrent ==
    lock = None =>
        \A c \in Classes, s \in Sels :
            CacheLookup(c, s) \in {None, Resolve(version, c, s)}

\* A probe ends at an empty bucket or at its selector: every cache has an empty
\* bucket at all times, also while it is being reused or filled.  When the lock
\* is free, the counter that decides when a cache is full is right, and no
\* selector has two entries or one that its probe does not reach.
CachesAreSound ==
    /\ \A k \in Caches : buckets[k] # <<>> => \E i \in DOMAIN buckets[k] : buckets[k][i] = None
    /\ lock = None =>
         \A c \in Classes :
             LET k == cache[c]
                 full == {i \in DOMAIN buckets[k] : buckets[k][i] # None}
             IN  k # None =>
                     /\ occupied[k] = Cardinality(full)
                     /\ \A i \in full : CacheLookup(c, buckets[k][i].sel) = buckets[k][i]
                     /\ \A i, j \in full : buckets[k][i].sel = buckets[k][j].sel => i = j

\* A messenger only ever reads a cache that is installed or that waits in the
\* garbage, never one that was freed.
ReadsNoFreedCache ==
    \A t \in Threads :
        At(t, "probe") => call[t].block \in garbage \cup {cache[c] : c \in Classes}

=============================================================================
