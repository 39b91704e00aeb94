--------------------------- MODULE RecursiveLock ---------------------------
(***************************************************************************)
(* What @synchronized promises (objc-sync.m:237-239 and 263-264): every    *)
(* object behaves as a recursive lock.  held[t][o] is the number of        *)
(* @synchronized(o) statements thread t is inside of.                      *)
(***************************************************************************)
EXTENDS Naturals

CONSTANTS Threads, Objects

VARIABLE held

TypeOK == held \in [Threads -> [Objects -> Nat]]

Init == held = [t \in Threads |-> [o \in Objects |-> 0]]

\* A thread gets in only while every other thread is out.
Enter(t, o) ==
    /\ \A u \in Threads \ {t} : held[u][o] = 0
    /\ held' = [held EXCEPT ![t][o] = @ + 1]

Exit(t, o) ==
    /\ held[t][o] > 0
    /\ held' = [held EXCEPT ![t][o] = @ - 1]

Next == \E t \in Threads, o \in Objects : Enter(t, o) \/ Exit(t, o)

Spec == Init /\ [][Next]_held

=============================================================================
