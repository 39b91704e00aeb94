----------------------------- MODULE References -----------------------------
(***************************************************************************)
(* Associated references (objc-references.mm) and the parts of             *)
(* objc-class.m and objc-runtime-new.m that decide whether an object that  *)
(* is destroyed has any: a flag of its class, set by the first association *)
(* of an instance and read by objc_destructInstance.                       *)
(*                                                                         *)
(* One spinlock, which AssociationsManager holds, guards all associations; *)
(* new values are retained before it is taken, old ones released after.    *)
(***************************************************************************)
EXTENDS Values, Functions

CONSTANTS
    Owners,     \* addresses of objects that have associations
    Classes,    \* their classes
    Keys,
    Policies    \* the policies it uses

VARIABLES
    isa,           \* the class of each object, nil if the memory is free
    hasAssociated, \* classes with RW_INSTANCES_HAVE_ASSOCIATED_OBJECTS
    associations,  \* AssociationsManager::_map
    managerLock,   \* AssociationsManager::_lock
    classesHad     \* (history) the classes of the object at each address
                   \* since the address last had no table

references == <<isa, hasAssociated, associations, managerLock, classesHad>>

\* objc_AssociationPolicy, and its parts as they are tested.
ASSIGN == 0
RETAIN_NONATOMIC == 1
COPY_NONATOMIC == 3
RETAIN == 769
COPY == 771

SetterRetains(policy) == policy % 256 = 1
SetterCopies(policy) == policy % 256 = 3
ReleasesOld(policy) == policy % 2 = 1
GetterRetains(policy) == (policy \div 256) % 2 = 1
GetterAutoreleases(policy) == (policy \div 512) % 2 = 1

Association == [policy : Policies, value : Objects]

\* The secondary table of an object: none, or from some keys to associations.
Tables == {nil} \cup UNION {[ks -> Association] : ks \in SUBSET Keys}

ASSUME ReferencesAssumption ==
    /\ nil \notin Classes
    /\ Policies \subseteq {ASSIGN, RETAIN_NONATOMIC, COPY_NONATOMIC, RETAIN, COPY}
    /\ nil \notin UNION {[ks -> Association] : ks \in SUBSET Keys}

ReferencesInit ==
    /\ isa = [o \in Owners |-> nil]
    /\ hasAssociated = {}
    /\ associations = [o \in Owners |-> nil]
    /\ managerLock = nil
    /\ classesHad = [o \in Owners |-> {}]

-----------------------------------------------------------------------------
(* The program: objects are created, used, given another class, destroyed. *)
(* It destroys an object when nobody else is using it any more.            *)

InUse(o) == \E t \in Threads : "object" \in DOMAIN call[t] /\ call[t].object = o

Destroyed(o) ==
    \E t \in Threads : /\ {"object", "free"} \subseteq DOMAIN call[t]
                       /\ call[t].object = o
                       /\ call[t].free

Live(o) == isa[o] # nil /\ ~Destroyed(o)

HasNone(o) == associations[o] = nil \/ DOMAIN associations[o] = {}

Create(t) ==
    /\ Idle(t)
    /\ \E o \in Owners, c \in Classes :
          /\ isa[o] = nil
          /\ isa' = [isa EXCEPT ![o] = c]
          /\ classesHad' = [classesHad EXCEPT ![o] =
                               {c} \cup IF associations[o] = nil THEN {} ELSE @]
    /\ UNCHANGED <<memory, call, hasAssociated, associations, managerLock>>

\* object_setClass does not look at the flag of the old class.
SetClass(t) ==
    /\ Idle(t)
    /\ \E o \in Owners, c \in Classes :
          /\ Live(o)
          /\ isa[o] # c
          /\ isa' = [isa EXCEPT ![o] = c]
          /\ classesHad' = [classesHad EXCEPT ![o] = @ \cup {c}]
    /\ UNCHANGED <<memory, call, hasAssociated, associations, managerLock>>

-----------------------------------------------------------------------------
(* _object_set_associative_reference.                                      *)

Associate(t) ==
    /\ Idle(t)
    /\ \E o \in Owners, k \in Keys, v \in Usable(t) \cup {nil}, p \in Policies :
          /\ Live(o)
          /\ Become(t, [at |-> "associate", object |-> o, key |-> k,
                        value |-> v, policy |-> p, old |-> {}])
    /\ UNCHANGED <<memory, references>>

AcquireValue(t) ==
    /\ At(t, "associate")
    /\ LET c == call[t]
       IN  \E v \in IF SetterCopies(c.policy) THEN CopiesOf(c.value)
                    ELSE {c.value} :
             /\ retainCount' = IF SetterRetains(c.policy) \/ SetterCopies(c.policy)
                               THEN Retained(v) ELSE retainCount
             /\ Become(t, [c EXCEPT !.at = "associate lock", !.value = v])
    /\ UNCHANGED <<held, pool, references>>

ManagerFree(lock) == lock = nil

Lookup(table, k) ==
    IF table # nil /\ k \in DOMAIN table THEN {<<k, table[k]>>} ELSE {}

\* The lock is taken and the old association, if any, is found.
FindOld(t) ==
    /\ At(t, "associate lock")
    /\ ManagerFree(managerLock)
    /\ managerLock' = t
    /\ LET c == call[t]
       IN  Become(t, [c EXCEPT !.at = "associate change",
                               !.old = Lookup(associations[c.object], c.key)])
    /\ UNCHANGED <<memory, isa, hasAssociated, associations, classesHad>>

NoneIsFirst(table, v) == FALSE                             \* a seeded bug

\* Only the first association of an object flags its class; nil removes an
\* association, and leaves the table.
FirstOf(table, v) == v # nil /\ table = nil

Changed(table, c) ==
    LET keys == IF table = nil THEN {} ELSE DOMAIN table
    IN  IF c.value = nil
        THEN IF table = nil THEN nil ELSE Restrict(table, keys \ {c.key})
        ELSE [k \in keys \cup {c.key} |->
                 IF k = c.key THEN [policy |-> c.policy, value |-> c.value]
                 ELSE table[k]]

ChangeTable(t) ==
    /\ At(t, "associate change")
    /\ LET c == call[t]
           table == associations[c.object]
       IN  /\ associations' = [associations EXCEPT ![c.object] = Changed(table, c)]
           /\ hasAssociated' = hasAssociated \cup
                 IF FirstOf(table, c.value) THEN {isa[c.object]} ELSE {}
           /\ Become(t, [at |-> "release", object |-> c.object, free |-> FALSE,
                         old |-> c.old])
    /\ managerLock' = nil
    /\ UNCHANGED <<memory, isa, classesHad>>

\* releaseValue, for each association that was broken.
AlwaysReleased(entry) == Released(entry.value)               \* a seeded bug

ReleaseValue(entry) ==
    IF ReleasesOld(entry.policy) THEN Released(entry.value) ELSE retainCount

ReleaseOld(t) ==
    /\ At(t, "release")
    /\ \E entry \in call[t].old :
          /\ retainCount' = ReleaseValue(entry[2])
          /\ Become(t, [call[t] EXCEPT !.old = @ \ {entry}])
    /\ UNCHANGED <<held, pool, references>>

\* The end of the call; objc_destructInstance's caller frees the memory.
Broken(t) ==
    /\ At(t, "release")
    /\ call[t].old = {}
    /\ isa' = IF call[t].free THEN [isa EXCEPT ![call[t].object] = nil] ELSE isa
    /\ Return(t)
    /\ UNCHANGED <<memory, hasAssociated, associations, managerLock, classesHad>>

-----------------------------------------------------------------------------
(* _object_get_associative_reference.  Policies that do not retain in the  *)
(* getter change nothing: the stored pointer is returned.                  *)

GetAssociated(t) ==
    /\ Idle(t)
    /\ pool[t] = {}
    /\ \E o \in Owners, k \in Keys :
          /\ Live(o)
          /\ Become(t, [at |-> "get associated", object |-> o, key |-> k])
    /\ UNCHANGED <<memory, references>>

FindAssociated(t) ==
    /\ At(t, "get associated")
    /\ ManagerFree(managerLock)
    /\ LET c == call[t]
           found == {e \in Lookup(associations[c.object], c.key) :
                        GetterRetains(e[2].policy)}
       IN  IF found = {} THEN Return(t) /\ UNCHANGED managerLock
           ELSE /\ managerLock' = t
                /\ \E e \in found :
                      Become(t, [at |-> "retain", object |-> c.object,
                                 value |-> e[2].value])
    /\ UNCHANGED <<memory, isa, hasAssociated, associations, classesHad>>

RetainAssociated(t) ==
    /\ At(t, "retain")
    /\ retainCount' = Retained(call[t].value)
    /\ managerLock' = nil
    /\ Become(t, [at |-> "autorelease", object |-> call[t].object,
                  value |-> call[t].value])
    /\ UNCHANGED <<held, pool, isa, hasAssociated, associations, classesHad>>

-----------------------------------------------------------------------------
(* _object_remove_assocations and objc_destructInstance.                   *)

RemoveAssociations(t) ==
    /\ Idle(t)
    /\ \E o \in Owners :
          /\ Live(o)
          /\ Become(t, [at |-> "remove", object |-> o, free |-> FALSE])
    /\ UNCHANGED <<memory, references>>

\* An object whose class was never flagged is freed as it is.
Dispose(t) ==
    /\ Idle(t)
    /\ \E o \in Owners :
          /\ Live(o)
          /\ ~InUse(o)
          /\ Become(t, IF isa[o] \in hasAssociated
                       THEN [at |-> "remove", object |-> o, free |-> TRUE]
                       ELSE [at |-> "release", object |-> o, free |-> TRUE,
                             old |-> {}])
    /\ UNCHANGED <<memory, references>>

RemoveTable(t) ==
    /\ At(t, "remove")
    /\ ManagerFree(managerLock)
    /\ LET c == call[t]
           table == associations[c.object]
       IN  /\ associations' = [associations EXCEPT ![c.object] = nil]
           /\ Become(t, [at |-> "release", object |-> c.object, free |-> c.free,
                 old |-> IF table = nil THEN {}
                         ELSE {<<k, table[k]>> : k \in DOMAIN table}])
    /\ UNCHANGED <<memory, isa, hasAssociated, managerLock, classesHad>>

-----------------------------------------------------------------------------

\* An object that is freed leaves no associations behind for the next one at
\* its address, unless object_setClass gave it a class with no associations
\* after its first one (objc_destructInstance: "Any associative references
\* are removed").
AssociationsEndWithTheirObject ==
    \A o \in Owners :
        isa[o] = nil => HasNone(o) \/ Cardinality(classesHad[o]) > 1

=============================================================================
