---------------------------- MODULE SelRegistry ----------------------------
(***************************************************************************)
(* The registry of selectors (objc-sel.mm): sel_registerName, sel_getUid,  *)
(* sel_isMapped, and the registration of an image's selectors inside       *)
(* sel_lock and sel_unlock.                                                *)
(*                                                                         *)
(* A name is looked up under the read lock; if it is not there the lock is *)
(* let go and taken again to write, and the name is looked up once more    *)
(* before it is added.  The rwlock of this port is a mutex: its readers    *)
(* exclude each other too.                                                 *)
(***************************************************************************)
EXTENDS SelSet

CONSTANTS
    Threads,
    Names,                 \* the names asked for
    Registered,            \* the names sel_registerName is called with
    Asked,                 \* the names sel_isMapped is called with
    Batches,               \* the selector references of images, as sequences
    Bundles,               \* whether those images are bundles
    Builtins,              \* names in the table of the shared cache
    NUM_NONBUILTIN_SELS    \* the capacity the set is created for

\* A selector: its string, and who allocated it.
Selectors == [name : Names, by : Threads \cup {"image", "empty", "builtin"}]

Mappings == [name : Names, mapped : BOOLEAN]

\* The sets of one of the sizes.
SetsOf(idx) ==
    LET nb == __objc_sel_set_buckets[idx] IN
    [count : Nat, capacity : {__objc_sel_set_capacities[idx]}, bucketsNum : {nb},
     buckets : [0..nb - 1 -> Selectors \cup {NULL}]]

\* More names than the largest set has room for end in _objc_fatal.
ASSUME SelRegistryAssumption ==
    /\ Names \subseteq Seq(0..255) /\ IsFiniteSet(Names)
    /\ Cardinality(Names) <= __objc_sel_set_capacities[SIZE]
    /\ Registered \cup Asked \subseteq Names
    /\ Batches \subseteq Seq(Names)
    /\ Bundles \in BOOLEAN
    /\ Builtins \subseteq Names
    /\ NUM_NONBUILTIN_SELS \in 0..__objc_sel_set_capacities[SIZE]
    /\ NULL \notin Threads \cup Selectors \cup Mappings
    /\ \A idx \in 1..SIZE : NULL \notin SetsOf(idx)

VARIABLES
    builtins,   \* the table in use: empty with OBJC_DISABLE_PREOPTIMIZATION
    selectors,  \* _objc_selectors
    selLock,    \* the thread that has selLock
    pc,         \* where each thread is
    todo,       \* the names it has still to look up
    answer      \* what its call returns

vars == <<builtins, selectors, selLock, pc, todo, answer>>

TypeOK ==
    /\ builtins \in {Builtins, {}}
    /\ selectors # NULL =>
          /\ \E idx \in 1..SIZE : selectors \in SetsOf(idx)
          /\ selectors.count =
                Cardinality({i \in DOMAIN selectors.buckets :
                                selectors.buckets[i] # NULL})
    /\ selLock \in Threads \cup {NULL}
    /\ pc \in [Threads -> {"idle", "search", "read", "get", "write", "rescan",
                           "add", "isMapped", "ask", "peek", "lock", "fix", "done"}]
    /\ todo \in [Threads -> Seq(Names)]
    /\ answer \in [Threads -> Selectors \cup Mappings \cup {NULL}]

Init ==
    /\ builtins \in {Builtins, {}}
    /\ selectors = NULL
    /\ selLock = NULL
    /\ pc = [t \in Threads |-> "idle"]
    /\ todo = [t \in Threads |-> <<>>]
    /\ answer = [t \in Threads |-> NULL]

-----------------------------------------------------------------------------

Name(t) == Head(todo[t])

\* _objc_search_builtins.
SearchBuiltins(n) ==
    IF n = <<>> THEN [name |-> n, by |-> "empty"]
    ELSE IF n \in builtins THEN [name |-> n, by |-> "builtin"]
    ELSE NULL

\* __objc_sel_set_get, if there is a set.
Lookup(n) == IF selectors = NULL THEN NULL ELSE __objc_sel_set_get(selectors, n)

\* Whoever looks a name up comes out of the probe loop.
ProbeEndsFor(n) == selectors # NULL => Ends(selectors, n) # {}

Created ==
    IF selectors = NULL THEN __objc_sel_set_create(NUM_NONBUILTIN_SELS)
    ELSE selectors

\* The thread goes from one place to another, taking the lock.
Acquire(t, from, to) ==
    /\ pc[t] = from
    /\ selLock = NULL
    /\ selLock' = t
    /\ pc' = [pc EXCEPT ![t] = to]
    /\ UNCHANGED <<builtins, selectors, todo, answer>>

Goto(t, label) ==
    /\ pc' = [pc EXCEPT ![t] = label]
    /\ UNCHANGED <<todo, answer>>

Finish(t, a) ==
    /\ answer' = [answer EXCEPT ![t] = a]
    /\ pc' = [pc EXCEPT ![t] = "done"]
    /\ todo' = [todo EXCEPT ![t] = <<>>]

-----------------------------------------------------------------------------
(* The operations.                                                         *)

Begin(t, op, names) ==
    /\ pc[t] = "idle"
    /\ pc' = [pc EXCEPT ![t] = op]
    /\ todo' = [todo EXCEPT ![t] = names]
    /\ UNCHANGED <<builtins, selectors, selLock, answer>>

Call(t) ==
    \/ \E n \in Registered : Begin(t, "search", <<n>>)
    \/ \E n \in Asked : Begin(t, "isMapped", <<n>>)
    \/ \E names \in Batches : Begin(t, "lock", names)

\* sel_registerName and sel_getUid: a builtin selector needs no lock.
Search(t) ==
    /\ pc[t] = "search"
    /\ LET s == SearchBuiltins(Name(t))
       IN  IF s = NULL THEN Goto(t, "read") ELSE Finish(t, s)
    /\ UNCHANGED <<builtins, selectors, selLock>>

ReadLock(t) == Acquire(t, "read", "get")

Get(t) ==
    /\ pc[t] = "get" /\ ProbeEndsFor(Name(t))
    /\ LET s == Lookup(Name(t))
       IN  IF s = NULL THEN Goto(t, "write") ELSE Finish(t, s)
    /\ selLock' = NULL
    /\ UNCHANGED <<builtins, selectors>>

WriteLock(t) == Acquire(t, "write", "rescan")

\* Seeded bug: the name is not looked up again.
NoRescan(t) ==
    /\ pc[t] = "rescan"
    /\ Goto(t, "add")
    /\ UNCHANGED <<builtins, selectors, selLock>>

\* "Rescan in case it was added while we dropped the lock"
Rescan(t) ==
    /\ pc[t] = "rescan" /\ ProbeEndsFor(Name(t))
    /\ LET s == Lookup(Name(t))
       IN  IF s = NULL THEN Goto(t, "add") /\ UNCHANGED selLock
           ELSE Finish(t, s) /\ selLock' = NULL
    /\ UNCHANGED <<builtins, selectors>>

Add(t) ==
    /\ pc[t] = "add"
    /\ LET new == [name |-> Name(t), by |-> t]
       IN  Finish(t, new) /\ selectors' = __objc_sel_set_add(Created, new)
    /\ selLock' = NULL
    /\ UNCHANGED builtins

\* sel_isMapped.
IsMapped(t) ==
    /\ pc[t] = "isMapped"
    /\ IF SearchBuiltins(Name(t)) = NULL THEN Goto(t, "ask")
       ELSE Finish(t, [name |-> Name(t), mapped |-> TRUE])
    /\ UNCHANGED <<builtins, selectors, selLock>>

AskLock(t) == Acquire(t, "ask", "peek")

Peek(t) ==
    /\ pc[t] = "peek" /\ ProbeEndsFor(Name(t))
    /\ Finish(t, [name |-> Name(t), mapped |-> Lookup(Name(t)) # NULL])
    /\ selLock' = NULL
    /\ UNCHANGED <<builtins, selectors>>

sel_lock(t) == Acquire(t, "lock", "fix")

\* sel_registerNameNoLock: the string is copied for bundles only.
FixUp(t) ==
    /\ pc[t] = "fix" /\ todo[t] # <<>> /\ ProbeEndsFor(Name(t))
    /\ LET builtin == SearchBuiltins(Name(t))
           old == IF builtin # NULL THEN builtin ELSE Lookup(Name(t))
           new == [name |-> Name(t), by |-> IF Bundles THEN t ELSE "image"]
       IN  IF old # NULL
           THEN /\ answer' = [answer EXCEPT ![t] = old]
                /\ UNCHANGED selectors
           ELSE /\ answer' = [answer EXCEPT ![t] = new]
                /\ selectors' = __objc_sel_set_add(Created, new)
    /\ todo' = [todo EXCEPT ![t] = Tail(@)]
    /\ UNCHANGED <<builtins, selLock, pc>>

sel_unlock(t) ==
    /\ pc[t] = "fix" /\ todo[t] = <<>>
    /\ selLock' = NULL
    /\ Goto(t, "done")
    /\ UNCHANGED <<builtins, selectors>>

Return(t) ==
    /\ pc[t] = "done"
    /\ pc' = [pc EXCEPT ![t] = "idle"]
    /\ answer' = [answer EXCEPT ![t] = NULL]
    /\ UNCHANGED <<builtins, selectors, selLock, todo>>

Runtime(t) ==
    \/ Search(t) \/ ReadLock(t) \/ Get(t) \/ WriteLock(t) \/ Rescan(t)
    \/ Add(t) \/ IsMapped(t) \/ AskLock(t) \/ Peek(t)
    \/ sel_lock(t) \/ FixUp(t) \/ sel_unlock(t) \/ Return(t)

Next == \E t \in Threads : Call(t) \/ Runtime(t)

Spec == Init /\ [][Next]_vars

-----------------------------------------------------------------------------
(* Properties.                                                             *)

\* The probe loop of objc-sel-set.m ends, for any name that is looked up or
\* added at any time: no sequence of registrations fills the table.
ProbeEnds == \A n \in Names : ProbeEndsFor(n)

\* Every answer is right at some moment of the call: a name never has two
\* addresses, whatever threads and images register it at once, and a name
\* that was added is found again after the set has grown.
Interns ==
    INSTANCE Interning WITH
        sel <- [n \in Names |-> IF SearchBuiltins(n) # NULL
                                THEN SearchBuiltins(n) ELSE Lookup(n)]

ImplementsInterning == Interns!Spec

=============================================================================
