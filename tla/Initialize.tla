----------------------------- MODULE Initialize -----------------------------
(***************************************************************************)
(* +initialize (objc-initialize.m): _class_initialize and what it calls,   *)
(* run by several threads over a class hierarchy.                          *)
(*                                                                         *)
(* A thread is a stack of activations of _class_initialize.  The one on    *)
(* top runs; while it sends +initialize it stands for the body of that     *)
(* method, which may message other classes and so start activations of its *)
(* own.  Flags are written under classInitLock and read with and without.  *)
(***************************************************************************)
EXTENDS Naturals, Sequences, FiniteSets, SequencesExt

CONSTANTS
    Threads, Classes, None,
    Super,      \* each class's superclass, None for a root
    Bodies      \* programs: the classes that each class's +initialize messages

VARIABLES
    initializing,   \* the classes with RW_INITIALIZING set (in the metaclass)
    initialized,    \* the classes with RW_INITIALIZED set
    initList,       \* each thread's _objc_initializing_classes
    pending,        \* pendingInitializeMap: newest subclass first
    monitor,        \* who is inside classInitLock between steps
    finishing,      \* what its _finishInitializing has still to mark
    stack,          \* each thread's activations, innermost first
    messages        \* the program that runs, one of Bodies

vars == <<initializing, initialized, initList, pending, monitor, finishing, stack, messages>>

Location == {"super", "claim", "body", "lost", "recheck", "wait", "asleep",
             "finish", "return", "fatal"}

\* todo: the messages the +initialize body may still send.
Frame == [cls : Classes, at : Location, todo : SUBSET Classes]

InitializeAssumption ==
    /\ None \notin Classes /\ None \notin Threads
    /\ Super \in [Classes -> Classes \cup {None}]
    /\ Bodies \subseteq [Classes -> SUBSET Classes]

ASSUME InitializeAssumption

TypeOK ==
    /\ initializing \subseteq Classes
    /\ initialized \subseteq Classes
    /\ initList \in [Threads -> SUBSET Classes]
    /\ pending \in [Classes -> Seq(Classes)]
    /\ monitor \in Threads \cup {None}
    /\ finishing \in Seq(Classes)
    /\ stack \in [Threads -> Seq(Frame)]
    /\ messages \in Bodies

Init ==
    /\ initializing = {}
    /\ initialized = {}
    /\ initList = [t \in Threads |-> {}]
    /\ pending = [c \in Classes |-> <<>>]
    /\ monitor = None
    /\ finishing = <<>>
    /\ stack = [t \in Threads |-> <<>>]
    /\ messages \in Bodies

-----------------------------------------------------------------------------

At(t, where) == stack[t] # <<>> /\ Head(stack[t]).at = where
Cls(t) == Head(stack[t]).cls
Activation(c) == [cls |-> c, at |-> "super", todo |-> {}]

\* t's innermost activation moves on.
Goto(t, where) == stack' = [stack EXCEPT ![t] = <<[Head(@) EXCEPT !.at = where]>> \o Tail(@)]

SuperReady(c) == Super[c] = None \/ Super[c] \in initialized

\* A message to c from outside any +initialize, or from the body of one: the
\* lookup reads RW_INITIALIZED and calls _class_initialize if it is clear.
Send(t, c) ==
    /\ c \notin initialized
    /\ \/ /\ stack[t] = <<>>
          /\ stack' = [stack EXCEPT ![t] = <<Activation(c)>>]
       \/ /\ At(t, "body") /\ c \in Head(stack[t]).todo
          /\ stack' = [stack EXCEPT ![t] =
                 <<Activation(c), [Head(stack[t]) EXCEPT !.todo = @ \ {c}]>> \o Tail(@)]
    /\ UNCHANGED <<initializing, initialized, initList, pending, monitor, finishing, messages>>

\* Seeded bug: the class does not wait for its superclass.
SkipSuper(t) ==
    /\ At(t, "super")
    /\ Goto(t, "claim")
    /\ UNCHANGED <<initializing, initialized, initList, pending, monitor, finishing, messages>>

\* Initialize the superclass first.
InitializeSuper(t) ==
    /\ At(t, "super")
    /\ IF SuperReady(Cls(t))
       THEN Goto(t, "claim")
       ELSE stack' = [stack EXCEPT ![t] =
                <<Activation(Super[Cls(t)]), [Head(@) EXCEPT !.at = "claim"]>> \o Tail(@)]
    /\ UNCHANGED <<initializing, initialized, initList, pending, monitor, finishing, messages>>

\* Seeded bug: RW_INITIALIZING is set without being tested.
TestInitializedOnly(c) == c \in initialized

\* The class has been initialized or somebody is at it.
Taken(c) == c \in initialized \cup initializing

\* Test and set RW_INITIALIZING under the lock.  The winner records the class
\* in its own list and sends +initialize, itself a message to the class.
Claim(t) ==
    LET c == Cls(t) IN
    /\ At(t, "claim") /\ monitor = None
    /\ IF Taken(c)
       THEN Goto(t, "lost") /\ UNCHANGED <<initializing, initList>>
       ELSE /\ initializing' = initializing \cup {c}
            /\ initList' = [initList EXCEPT ![t] = @ \cup {c}]
            /\ IF c \in initList[t]
               THEN Goto(t, "fatal")
               ELSE stack' = [stack EXCEPT ![t] =
                        <<[cls |-> c, at |-> "body", todo |-> messages[c] \cup {c}]>>
                            \o Tail(@)]
    /\ UNCHANGED <<initialized, pending, monitor, finishing, messages>>

\* Seeded bug: every thread takes itself for the initializing one.
TakenForMine(t, c) == TRUE

\* _thisThreadIsInitializingClass
InitializingHere(t, c) == c \in initList[t]

\* Somebody else set the flag.  Both flags are read again, with no lock held
\* and one after the other.
Lost(t) ==
    /\ At(t, "lost")
    /\ IF Cls(t) \notin initializing THEN Goto(t, "recheck")
       ELSE IF InitializingHere(t, Cls(t)) THEN Goto(t, "return")
       ELSE Goto(t, "wait")
    /\ UNCHANGED <<initializing, initialized, initList, pending, monitor, finishing, messages>>

Recheck(t) ==
    /\ At(t, "recheck")
    /\ Goto(t, IF Cls(t) \in initialized THEN "return" ELSE "fatal")
    /\ UNCHANGED <<initializing, initialized, initList, pending, monitor, finishing, messages>>

\* Seeded bug: the flag is not tested again under the lock.
WaitAtOnce(t) ==
    /\ At(t, "wait") /\ monitor = None
    /\ Goto(t, "asleep")
    /\ UNCHANGED <<initializing, initialized, initList, pending, monitor, finishing, messages>>

\* Inside classInitLock: go on, or wait on the condition, which lets it go.
Wait(t) ==
    /\ At(t, "wait") /\ monitor = None
    /\ Goto(t, IF Cls(t) \in initialized THEN "return" ELSE "asleep")
    /\ UNCHANGED <<initializing, initialized, initList, pending, monitor, finishing, messages>>

\* Seeded bug: the class is finished although its superclass is not.
FinishAlways(t) ==
    /\ At(t, "body") /\ monitor = None
    /\ monitor' = t
    /\ finishing' = <<Cls(t)>>
    /\ Goto(t, "finish")
    /\ UNCHANGED <<initializing, initialized, initList, pending, messages>>

\* The +initialize method returned and so has the superclass's:
\* _finishInitializing begins.
BeginFinish(t) ==
    /\ At(t, "body") /\ monitor = None
    /\ SuperReady(Cls(t))
    /\ monitor' = t
    /\ finishing' = <<Cls(t)>>
    /\ Goto(t, "finish")
    /\ UNCHANGED <<initializing, initialized, initList, pending, messages>>

\* The superclass's +initialize, which triggered this one, still runs:
\* _finishInitializingAfter.
FinishAfter(t) ==
    LET c == Cls(t) IN
    /\ At(t, "body") /\ monitor = None
    /\ ~ SuperReady(c)
    /\ pending' = [pending EXCEPT ![Super[c]] = <<c>> \o @]
    /\ Goto(t, "return")
    /\ UNCHANGED <<initializing, initialized, initList, monitor, finishing, messages>>

\* Seeded bug: nobody is woken.
NotifyNobody(t, where) == Goto(t, where)

\* notifyAll: every sleeper is to take the lock again, t goes on as given.
NotifyAll(t, where) ==
    stack' = [u \in Threads |->
        IF u = t THEN <<[Head(stack[u]) EXCEPT !.at = where]>> \o Tail(stack[u])
        ELSE IF At(u, "asleep") THEN <<[Head(stack[u]) EXCEPT !.at = "wait"]>> \o Tail(stack[u])
        ELSE stack[u]]

\* One activation of _finishInitializing: mark the class, wake the waiters,
\* forget the class, then mark the subclasses that were waiting for it.
Finish(t) ==
    /\ At(t, "finish") /\ finishing # <<>>
    /\ LET c == Head(finishing) IN
       /\ initialized' = initialized \cup {c}
       /\ initializing' = initializing \ {c}
       /\ initList' = [initList EXCEPT ![t] = @ \ {c}]
       /\ NotifyAll(t, IF SuperReady(c) /\ c \in initList[t] THEN "finish" ELSE "fatal")
       /\ finishing' = pending[c] \o Tail(finishing)
       /\ pending' = [pending EXCEPT ![c] = <<>>]
    /\ UNCHANGED <<monitor, messages>>

EndFinish(t) ==
    /\ At(t, "finish") /\ finishing = <<>>
    /\ monitor' = None
    /\ Goto(t, "return")
    /\ UNCHANGED <<initializing, initialized, initList, pending, finishing, messages>>

\* The activation ends and the message that needed it is dispatched.
Return(t) ==
    /\ At(t, "return")
    /\ stack' = [stack EXCEPT ![t] = Tail(@)]
    /\ UNCHANGED <<initializing, initialized, initList, pending, monitor, finishing, messages>>

Runtime(t) ==
    \/ InitializeSuper(t) \/ Claim(t) \/ Lost(t) \/ Recheck(t) \/ Wait(t)
    \/ BeginFinish(t) \/ FinishAfter(t) \/ Finish(t) \/ EndFinish(t) \/ Return(t)

Next == \E t \in Threads : Runtime(t) \/ \E c \in Classes : Send(t, c)

Spec == Init /\ [][Next]_vars

\* Every thread is scheduled, and every +initialize body comes to its end.
FairSpec == Spec /\ \A t \in Threads : WF_vars(Runtime(t))

-----------------------------------------------------------------------------
(* Properties.                                                             *)

\* No thread dies of "thread-safe class init in objc runtime is buggy!",
\* "thread is already initializing this class!", "thread is not initializing
\* this class!" or of the assertion that the superclass came first.
NeverFatal == \A t \in Threads : ~ At(t, "fatal")

\* RW_INITIALIZING and RW_INITIALIZED are never both set, and while the first
\* is set exactly one thread counts the class among its own (lines 35-40).
OneInitializer ==
    /\ initializing \cap initialized = {}
    /\ \A c \in Classes :
        Cardinality({t \in Threads : c \in initList[t]}) = IF c \in initializing THEN 1 ELSE 0

\* "The initializing+initialized part of the class hierarchy will be a
\* contiguous subtree starting at the root" (lines 88-93), and within it a
\* class and its superclass that are both under way belong to one thread.
ContiguousSubtree ==
    \A c \in Classes :
        LET s == Super[c] IN
        /\ c \in initialized => SuperReady(c)
        /\ \A t \in Threads :
            c \in initList[t] => SuperReady(c) \/ s \in initList[t]

\* "During initialization, that thread is allowed to send messages to that
\* class, but other threads have to wait" (lines 108-110): a message goes
\* through only to a class that is initialized or is being initialized here.
OthersWait ==
    \A t \in Threads :
        At(t, "return") => Cls(t) \in initialized \/ Cls(t) \in initList[t]

\* A thread sleeps only while another one has still to finish the class: the
\* broadcast is never lost between the unlocked test and the wait.
SleepersAreWoken ==
    \A t \in Threads :
        At(t, "asleep") =>
            /\ Cls(t) \notin initialized
            /\ \E u \in Threads \ {t} : Cls(t) \in initList[u]

\* Each class with the classes above it.
Lines ==
    LET up[n \in Nat] ==
            IF n = 0 THEN {<<c, Super[c]>> : c \in Classes}
            ELSE {<<p[1], Super[p[2]]>> : p \in {q \in up[n - 1] : q[2] # None}}
    IN UNION {up[n] : n \in 0..Cardinality(Classes)}

\* No +initialize method messages a class that is neither above nor below its own.
OwnLine ==
    \A c \in Classes : \A d \in messages[c] : <<c, d>> \in Lines \/ <<d, c>> \in Lines

\* Every message is dispatched in the end, by a program that stays on its own
\* lines: no thread is stuck "while a superclass waits for its subclass which
\* waits for the superclass".
AllDispatched == \A t \in Threads : OwnLine /\ stack[t] # <<>> ~> stack[t] = <<>>

=============================================================================
