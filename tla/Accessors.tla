----------------------------- MODULE Accessors -----------------------------
(***************************************************************************)
(* Property accessors (objc-accessors.m): objc_getProperty,                *)
(* objc_setProperty and objc_copyStruct.  Atomic accessors lock one of an  *)
(* array of spinlocks, which the address of the ivar chooses; a copy of a  *)
(* structure locks those of both its addresses.                            *)
(*                                                                         *)
(* Nonatomic getters have no step: they return *slot and touch no count.   *)
(* Nonatomic copies of structures are left out: they are a memmove.        *)
(***************************************************************************)
EXTENDS Values

CONSTANTS
    GOODPOWER,    \* log2 of the number of locks
    Slots,        \* addresses of ivars that are retained or copied
    Nonatomic,    \* those of nonatomic properties
    User,         \* the one thread that uses each of those
    Shared,       \* addresses of structures that all threads use
    Local         \* the address of each thread's own structure

ASSUME AccessorsAssumption ==
    /\ GOODPOWER \in Nat /\ 2^GOODPOWER \in Nat \ {0}
    /\ Slots \subseteq Nat
    /\ Nonatomic \subseteq Slots
    /\ User \in [Nonatomic -> Threads]
    /\ Shared \subseteq Nat
    /\ Local \in [Threads -> Nat \ Shared]
    /\ \A t, u \in Threads : Local[t] = Local[u] => t = u
    /\ nil \notin Threads

VARIABLES
    ivar,           \* what is in each slot
    struct,         \* the two halves of each structure
    PropertyLocks,  \* the thread that has each lock
    StructLocks

accessors == <<ivar, struct, PropertyLocks, StructLocks>>

Structs == Shared \cup {Local[t] : t \in Threads}

Stripes == 0..2^GOODPOWER - 1

GOODHASH(x) == (x \div 32) % 2^GOODPOWER

AccessorsInit ==
    /\ ivar = [s \in Slots |-> nil]
    /\ struct = [a \in Structs |-> <<0, 0>>]
    /\ PropertyLocks = [i \in Stripes |-> nil]
    /\ StructLocks = [i \in Stripes |-> nil]

-----------------------------------------------------------------------------
(* objc_getProperty of an atomic property.                                 *)

\* The thread that uses a nonatomic property is the only one.
MayUse(t, s) == s \in Nonatomic => User[s] = t

NoSpinlock(lock) == TRUE                                   \* a seeded bug

SpinlockFree(lock) == lock = nil

GetProperty(t) ==
    /\ Idle(t)
    /\ pool[t] = {}
    /\ \E s \in Slots \ Nonatomic : Become(t, [at |-> "get", slot |-> s])
    /\ UNCHANGED <<memory, accessors>>

GetLock(t) ==
    /\ At(t, "get")
    /\ LET s == call[t].slot
       IN  /\ SpinlockFree(PropertyLocks[GOODHASH(s)])
           /\ PropertyLocks' = [PropertyLocks EXCEPT ![GOODHASH(s)] = t]
           /\ Become(t, [at |-> "get retain", slot |-> s, value |-> ivar[s]])
    /\ UNCHANGED <<memory, ivar, struct, StructLocks>>

GetRetain(t) ==
    /\ At(t, "get retain")
    /\ retainCount' = Retained(call[t].value)
    /\ PropertyLocks' = [PropertyLocks EXCEPT ![GOODHASH(call[t].slot)] = nil]
    /\ Become(t, [at |-> "autorelease", value |-> call[t].value])
    /\ UNCHANGED <<held, pool, ivar, struct, StructLocks>>

-----------------------------------------------------------------------------
(* objc_setProperty.                                                       *)

\* A slot that would be unchanged is left alone, read with no lock.
Unchanged(s, v, copy) == ~copy /\ ivar[s] = v

SetProperty(t) ==
    /\ Idle(t)
    /\ \E s \in Slots, v \in Usable(t) \cup {nil}, copy \in BOOLEAN :
          /\ MayUse(t, s)
          /\ ~Unchanged(s, v, copy)
          /\ Become(t, [at |-> "set", slot |-> s, value |-> v, copy |-> copy])
    /\ UNCHANGED <<memory, accessors>>

\* The new value is copied or retained.
SetAcquire(t) ==
    /\ At(t, "set")
    /\ \E v \in IF call[t].copy THEN CopiesOf(call[t].value)
                ELSE {call[t].value} :
          /\ retainCount' = Retained(v)
          /\ Become(t, [at |-> "set read", slot |-> call[t].slot, value |-> v])
    /\ UNCHANGED <<held, pool, accessors>>

SetRead(t) ==
    /\ At(t, "set read")
    /\ LET s == call[t].slot
       IN  /\ IF s \in Nonatomic THEN UNCHANGED PropertyLocks
              ELSE /\ SpinlockFree(PropertyLocks[GOODHASH(s)])
                   /\ PropertyLocks' = [PropertyLocks EXCEPT ![GOODHASH(s)] = t]
           /\ Become(t, [at |-> "set write", slot |-> s,
                         value |-> call[t].value, old |-> ivar[s]])
    /\ UNCHANGED <<memory, ivar, struct, StructLocks>>

SetWrite(t) ==
    /\ At(t, "set write")
    /\ LET s == call[t].slot
       IN  /\ ivar' = [ivar EXCEPT ![s] = call[t].value]
           /\ IF s \in Nonatomic THEN UNCHANGED PropertyLocks
              ELSE PropertyLocks' = [PropertyLocks EXCEPT ![GOODHASH(s)] = nil]
    /\ Become(t, [at |-> "set release", value |-> call[t].old])
    /\ UNCHANGED <<memory, struct, StructLocks>>

SetRelease(t) ==
    /\ At(t, "set release")
    /\ retainCount' = Released(call[t].value)
    /\ Return(t)
    /\ UNCHANGED <<held, pool, accessors>>

-----------------------------------------------------------------------------
(* objc_copyStruct.  The call carries the locks it has still to take, those *)
(* it has taken, and the halves it has moved.                              *)

SourceFirst(src, dest) ==                                  \* a seeded bug
    IF GOODHASH(src) = GOODHASH(dest) THEN <<GOODHASH(src)>>
    ELSE <<GOODHASH(src), GOODHASH(dest)>>

SourceOnly(src, dest) == <<GOODHASH(src)>>                 \* a seeded bug

\* lockfirst and locksecond: in the order of the array, and one lock if both
\* addresses have the same.
LocksInOrder(src, dest) ==
    CASE GOODHASH(src) < GOODHASH(dest) -> <<GOODHASH(src), GOODHASH(dest)>>
      [] GOODHASH(src) > GOODHASH(dest) -> <<GOODHASH(dest), GOODHASH(src)>>
      [] OTHER -> <<GOODHASH(src)>>

\* A thread gives its own structure a value, or copies to or from another's.
FillStruct(t) ==
    /\ Idle(t)
    /\ \E n \in {0, 1} :
          /\ struct[Local[t]] # <<n, n>>
          /\ struct' = [struct EXCEPT ![Local[t]] = <<n, n>>]
    /\ UNCHANGED <<memory, call, ivar, PropertyLocks, StructLocks>>

CopyStruct(t) ==
    /\ Idle(t)
    /\ \E src, dest \in Shared \cup {Local[t]} :
          /\ src # dest
          /\ Become(t, [at |-> "copy lock", src |-> src, dest |-> dest,
                        locks |-> LocksInOrder(src, dest), next |-> 1])
    /\ UNCHANGED <<memory, accessors>>

CopyLock(t) ==
    /\ At(t, "copy lock")
    /\ LET c == call[t]
           i == c.locks[c.next]
       IN  /\ SpinlockFree(StructLocks[i])
           /\ StructLocks' = [StructLocks EXCEPT ![i] = t]
           /\ Become(t, IF c.next < Len(c.locks)
                        THEN [c EXCEPT !.next = @ + 1]
                        ELSE [c EXCEPT !.at = "copy move", !.next = 1])
    /\ UNCHANGED <<memory, ivar, struct, PropertyLocks>>

CopyMove(t) ==
    /\ At(t, "copy move")
    /\ LET c == call[t]
       IN  /\ struct' = [struct EXCEPT ![c.dest][c.next] = struct[c.src][c.next]]
           /\ Become(t, IF c.next = 1 THEN [c EXCEPT !.next = 2]
                        ELSE [c EXCEPT !.at = "copy unlock", !.next = 1])
    /\ UNCHANGED <<memory, ivar, PropertyLocks, StructLocks>>

CopyUnlock(t) ==
    /\ At(t, "copy unlock")
    /\ LET c == call[t]
       IN  /\ StructLocks' = [StructLocks EXCEPT ![c.locks[c.next]] = nil]
           /\ IF c.next < Len(c.locks) THEN Become(t, [c EXCEPT !.next = @ + 1])
              ELSE Return(t)
    /\ UNCHANGED <<memory, ivar, struct, PropertyLocks>>

-----------------------------------------------------------------------------

\* A copied structure is never half of one value and half of another, outside
\* the memmove that is writing it (objc_copyStruct's two locks).
StructsAreWhole ==
    \A a \in Structs :
        \/ struct[a][1] = struct[a][2]
        \/ \E t \in Threads : At(t, "copy move") /\ call[t].dest = a

\* Of the threads that are copying structures one can always go on: threads
\* that hold one lock never wait for each other's ("order the locks by
\* address so that we don't deadlock").
CopiersDoNotDeadlock ==
    LET Copying == {t \in Threads : \E i \in Stripes : StructLocks[i] = t}
        Waits(t) == /\ At(t, "copy lock")
                    /\ StructLocks[call[t].locks[call[t].next]] # nil
    IN  Copying # {} => \E t \in Copying : ~Waits(t)

=============================================================================
