------------------------------ MODULE Objects ------------------------------
(***************************************************************************)
(* Threads that store the same values in properties and in associations:   *)
(* the two components share nothing but the values' retain counts.         *)
(***************************************************************************)
EXTENDS Accessors, References

VARIABLE uses   \* what a program's threads use

vars == <<memory, call, accessors, references, uses>>

CONSTANT Uses

ASSUME ObjectsAssumption ==
    /\ Uses \subseteq SUBSET {"properties", "structures", "associations"}
    /\ IsFiniteSet(Threads) /\ IsFiniteSet(Slots)
    /\ IsFiniteSet(Owners) /\ IsFiniteSet(Keys) /\ IsFiniteSet(Classes)

Init ==
    /\ uses \in Uses
    /\ ValuesInit
    /\ AccessorsInit
    /\ ReferencesInit

Properties(t) ==
    /\ "properties" \in uses
    /\ \/ GetProperty(t) \/ GetLock(t) \/ GetRetain(t)
       \/ SetProperty(t) \/ SetAcquire(t) \/ SetRead(t) \/ SetWrite(t)
       \/ SetRelease(t)
    /\ UNCHANGED <<references, uses>>

Structures(t) ==
    /\ "structures" \in uses
    /\ FillStruct(t) \/ CopyStruct(t) \/ CopyLock(t) \/ CopyMove(t) \/ CopyUnlock(t)
    /\ UNCHANGED <<references, uses>>

Associations(t) ==
    /\ "associations" \in uses
    /\ \/ Create(t) \/ SetClass(t)
       \/ Associate(t) \/ AcquireValue(t) \/ FindOld(t) \/ ChangeTable(t)
       \/ GetAssociated(t) \/ FindAssociated(t) \/ RetainAssociated(t)
       \/ RemoveAssociations(t) \/ Dispose(t) \/ RemoveTable(t)
       \/ ReleaseOld(t) \/ Broken(t)
    /\ UNCHANGED <<accessors, uses>>

Memory(t) ==
    /\ {"properties", "associations"} \cap uses # {}
    /\ Alloc(t) \/ LetGo(t) \/ Drain(t) \/ Autorelease(t)
    /\ UNCHANGED <<accessors, references, uses>>

Next ==
    \E t \in Threads :
        Properties(t) \/ Structures(t) \/ Associations(t) \/ Memory(t)

Spec == Init /\ [][Next]_vars

-----------------------------------------------------------------------------

\* The call carries a reference to v from one of its steps to another.
Carries(c, v) ==
    \/ /\ c.at \in {"set read", "set write", "set release", "autorelease"}
       /\ c.value = v
    \/ /\ c.at \in {"associate lock", "associate change"}
       /\ c.value = v /\ ReleasesOld(c.policy)

\* An association with key k, among these, that refers to v.
Refers(entries, k, v) ==
    \E e \in entries : e[1] = k /\ e[2].value = v /\ ReleasesOld(e[2].policy)

\* The associations that a call has broken and still to release.
Owed(c) == IF c.at = "release" THEN c.old ELSE {}

\* The references to v: from slots, threads, their pools and calls, from
\* associations, and from associations that were broken.
References(v) ==
    Cardinality({s \in Slots : ivar[s] = v})
      + Cardinality({t \in Threads : v \in held[t]})
      + Cardinality({t \in Threads : v \in pool[t]})
      + Cardinality({t \in Threads : Carries(call[t], v)})
      + Cardinality({p \in Owners \X Keys :
                        Refers(Lookup(associations[p[1]], p[2]), p[2], v)})
      + Cardinality({p \in Threads \X Keys : Refers(Owed(call[p[1]]), p[2], v)})

\* Who is about to send retain or copy, to what its call has found or been given.
AboutToRetain(t) ==
    call[t].at \in {"get retain", "retain", "set", "associate"}

\* A retain count is the number of references, and nothing is retained or
\* copied after it was freed: whatever setters, getters and removals run side
\* by side, nothing leaks and nothing is released twice (objc_setProperty and
\* _object_set_associative_reference release outside their locks what they
\* found inside them; the getters retain inside).
CountsAreReferences ==
    /\ \A v \in Objects : retainCount[v] = References(v)
    /\ \A t \in Threads :
          AboutToRetain(t) /\ call[t].value # nil => retainCount[call[t].value] > 0

TypeOK ==
    /\ retainCount \in [Objects -> Nat]
    /\ held \in [Threads -> SUBSET Objects]
    /\ pool \in [Threads -> SUBSET Objects]
    /\ ivar \in [Slots -> Objects \cup {nil}]
    /\ struct \in [Structs -> {0, 1} \X {0, 1}]
    /\ PropertyLocks \in [Stripes -> Threads \cup {nil}]
    /\ StructLocks \in [Stripes -> Threads \cup {nil}]
    /\ isa \in [Owners -> Classes \cup {nil}]
    /\ hasAssociated \subseteq Classes
    /\ \A o \in Owners : associations[o] \in Tables
    /\ managerLock \in Threads \cup {nil}
    /\ classesHad \in [Owners -> SUBSET Classes]

=============================================================================
