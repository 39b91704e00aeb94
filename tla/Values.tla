------------------------------- MODULE Values -------------------------------
(***************************************************************************)
(* The objects that programs store in properties and associations, as far  *)
(* as their retain counts tell them apart, and the threads that use them.  *)
(* retain, release, autorelease and copy are messages to the program's own *)
(* classes: the runtime only sends them.                                   *)
(*                                                                         *)
(* A value is freed when its count falls to zero, and its memory may then  *)
(* be that of a new value.                                                 *)
(***************************************************************************)
EXTENDS Integers, FiniteSets, Sequences

CONSTANTS
    Threads,
    Objects,      \* the values
    nil

ASSUME ValuesAssumption == nil \notin Objects

VARIABLES
    retainCount,  \* of each value
    held,         \* the values each thread has a reference to
    pool,         \* the values in each thread's autorelease pool
    call          \* what each thread is doing

memory == <<retainCount, held, pool>>

ValuesInit ==
    /\ retainCount = [v \in Objects |-> 0]
    /\ held = [t \in Threads |-> {}]
    /\ pool = [t \in Threads |-> {}]
    /\ call = [t \in Threads |-> [at |-> "idle"]]

-----------------------------------------------------------------------------

At(t, label) == call[t].at = label

Idle(t) == At(t, "idle")

Become(t, c) == call' = [call EXCEPT ![t] = c]

Return(t) == Become(t, [at |-> "idle"])

\* The values a thread may pass on or message.
Usable(t) == held[t] \cup pool[t]

\* retain and release; a message to nil does nothing.
Retained(v) ==
    IF v = nil THEN retainCount ELSE [retainCount EXCEPT ![v] = @ + 1]

Released(v) ==
    IF v = nil THEN retainCount ELSE [retainCount EXCEPT ![v] = @ - 1]

Free == {v \in Objects : retainCount[v] = 0}

\* What a copy of v may be: v again if it cannot change, a new value, or nil.
CopiesOf(v) == IF v = nil THEN {nil} ELSE {v, nil} \cup Free

-----------------------------------------------------------------------------
(* What the program does with values on its own account.                   *)

\* A value is allocated.
Alloc(t) ==
    /\ Idle(t)
    /\ \E v \in Free :
          /\ retainCount' = Retained(v)
          /\ held' = [held EXCEPT ![t] = @ \cup {v}]
    /\ UNCHANGED <<pool, call>>

\* A reference is given up.
LetGo(t) ==
    /\ Idle(t)
    /\ \E v \in held[t] :
          /\ retainCount' = Released(v)
          /\ held' = [held EXCEPT ![t] = @ \ {v}]
    /\ UNCHANGED <<pool, call>>

\* The autorelease pool is drained.
Drain(t) ==
    /\ Idle(t)
    /\ pool[t] # {}
    /\ retainCount' = [v \in Objects |->
                          retainCount[v] - IF v \in pool[t] THEN 1 ELSE 0]
    /\ pool' = [pool EXCEPT ![t] = {}]
    /\ UNCHANGED <<held, call>>

\* The last step of an atomic getter, of either kind: the reference taken
\* inside the lock goes to the pool.
Autorelease(t) ==
    /\ At(t, "autorelease")
    /\ pool' = [pool EXCEPT ![t] = @ \cup ({call[t].value} \ {nil})]
    /\ Return(t)
    /\ UNCHANGED <<retainCount, held>>

=============================================================================
