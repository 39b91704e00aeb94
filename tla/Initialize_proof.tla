-------------------------- MODULE Initialize_proof --------------------------
(***************************************************************************)
(* Proofs about Initialize, for all threads, all class hierarchies and all *)
(* programs: whatever +initialize methods message, each class is           *)
(* initialized by one thread, after its superclass, and the others wait.   *)
(***************************************************************************)
EXTENDS Initialize, TLAPS, FiniteSetTheorems, SequenceTheorems

-----------------------------------------------------------------------------
(* The inductive invariant.                                                *)

Activations(t) == 1..Len(stack[t])

Occurs(c, s) == \E j \in 1..Len(s) : s[j] = c

NoneTwice(s) == \A j, k \in 1..Len(s) : s[j] = s[k] => j = k

\* A class that is being initialized is on the list of one thread, and only
\* such a class is on a list.
ListsAreExact ==
    /\ initializing \cap initialized = {}
    /\ \A c \in Classes : c \in initializing <=> \E t \in Threads : c \in initList[t]
    /\ \A t, u \in Threads : \A c \in Classes : c \in initList[t] /\ c \in initList[u] => t = u

\* Only the innermost activation runs.
OthersAreSuspended ==
    \A t \in Threads : \A i \in Activations(t) :
        i > 1 => stack[t][i].at \in {"claim", "body"}

\* A class is claimed after its superclass: it has come to its end, or the
\* thread is at it, or the activation for it is the one that runs.
SuperclassFirst ==
    \A t \in Threads : \A i \in Activations(t) :
        stack[t][i].at = "claim" =>
            \/ SuperReady(stack[t][i].cls)
            \/ Super[stack[t][i].cls] \in initList[t]
            \/ i > 1 /\ stack[t][i - 1].cls = Super[stack[t][i].cls]

\* Each +initialize body that runs is of a class of its thread, which is not
\* finished before the body ends.
BodiesAreOwn ==
    \A t \in Threads : \A i \in Activations(t) :
        stack[t][i].at = "body" =>
            /\ stack[t][i].cls \in initList[t]
            /\ ~ Occurs(stack[t][i].cls, finishing)
            /\ \A s \in Classes : ~ Occurs(stack[t][i].cls, pending[s])
            /\ \A j \in Activations(t) :
                  stack[t][j].at = "body" /\ stack[t][j].cls = stack[t][i].cls => i = j

\* A subclass that is pending is in the list of its superclass, once, and
\* both are of the same thread, which has still to finish them.
PendingIsOwn ==
    \A s \in Classes :
        /\ NoneTwice(pending[s])
        /\ \A c \in Classes :
            Occurs(c, pending[s]) =>
                /\ Super[c] = s /\ s \notin initialized
                /\ ~ Occurs(c, finishing)
                /\ \E t \in Threads : c \in initList[t] /\ s \in initList[t]

\* Who is inside classInitLock finishes its own classes, once each, whose
\* superclasses are finished.
FinishingIsOwn ==
    /\ \A t \in Threads : At(t, "finish") <=> monitor = t
    /\ monitor = None => finishing = <<>>
    /\ NoneTwice(finishing)
    /\ \A c \in Classes : Occurs(c, finishing) => SuperReady(c) /\ c \in initList[monitor]

\* What the innermost activation knows of its class.
Known ==
    \A t \in Threads :
        /\ At(t, "lost") => Cls(t) \in initializing \cup initialized
        /\ At(t, "recheck") => Cls(t) \in initialized
        /\ At(t, "wait") \/ At(t, "asleep") =>
              Cls(t) \in (initializing \cup initialized) \ initList[t]
        /\ At(t, "finish") => Cls(t) \in initialized \cup initList[t]

IInv ==
    /\ TypeOK /\ ListsAreExact /\ OthersAreSuspended /\ SuperclassFirst /\ BodiesAreOwn
    /\ PendingIsOwn /\ FinishingIsOwn /\ Known
    /\ NeverFatal /\ ContiguousSubtree /\ OthersWait /\ SleepersAreWoken

-----------------------------------------------------------------------------
(* Lemmas about the stack of a thread.                                     *)

LEMMA ReplaceTop ==
    ASSUME NEW S, NEW s \in Seq(S), s # <<>>, NEW f \in S, NEW r, r = <<f>> \o Tail(s)
    PROVE  /\ r \in Seq(S) /\ r # <<>> /\ Len(r) = Len(s) /\ Len(s) \in Nat \ {0}
           /\ r[1] = f /\ Head(r) = f /\ Head(s) = s[1]
           /\ \A i \in 2..Len(s) : r[i] = s[i]
<1>1. Tail(s) \in Seq(S) /\ Len(Tail(s)) = Len(s) - 1 /\ Len(s) \in Nat \ {0}
    BY HeadTailProperties, EmptySeq
<1>2. \A i \in 1..Len(s) - 1 : Tail(s)[i] = s[i + 1]
    BY <1>1, HeadTailProperties
<1>3. <<f>> \in Seq(S) /\ Len(<<f>>) = 1 /\ <<f>>[1] = f
    OBVIOUS
<1>4. r \in Seq(S) /\ Len(r) = Len(s)
    BY <1>1, <1>3, ConcatProperties
<1>5. \A i \in 1..Len(s) : r[i] = IF i <= 1 THEN <<f>>[i] ELSE Tail(s)[i - 1]
    BY <1>1, <1>3, ConcatProperties
<1>6. r[1] = f
    BY <1>1, <1>3, <1>5
<1>7. \A i \in 2..Len(s) : r[i] = s[i]
    BY <1>1, <1>2, <1>5
<1>8. r # <<>>
    BY <1>1, <1>4
<1>9. QED
    BY <1>1, <1>4, <1>6, <1>7, <1>8

LEMMA PushTop ==
    ASSUME NEW S, NEW s \in Seq(S), s # <<>>, NEW a \in S, NEW f \in S,
           NEW r, r = <<a, f>> \o Tail(s)
    PROVE  /\ r \in Seq(S) /\ r # <<>> /\ Len(r) = Len(s) + 1 /\ Len(s) \in Nat \ {0}
           /\ r[1] = a /\ r[2] = f /\ Head(r) = a /\ Head(s) = s[1]
           /\ \A i \in 3..Len(s) + 1 : r[i] = s[i - 1]
<1>1. Tail(s) \in Seq(S) /\ Len(Tail(s)) = Len(s) - 1 /\ Len(s) \in Nat \ {0}
    BY HeadTailProperties, EmptySeq
<1>2. \A i \in 1..Len(s) - 1 : Tail(s)[i] = s[i + 1]
    BY <1>1, HeadTailProperties
<1>3. <<a, f>> \in Seq(S) /\ Len(<<a, f>>) = 2 /\ <<a, f>>[1] = a /\ <<a, f>>[2] = f
    OBVIOUS
<1>4. r \in Seq(S) /\ Len(r) = Len(s) + 1
    BY <1>1, <1>3, ConcatProperties
<1>5. \A i \in 1..Len(s) + 1 : r[i] = IF i <= 2 THEN <<a, f>>[i] ELSE Tail(s)[i - 2]
    BY <1>1, <1>3, ConcatProperties
<1>6. r[1] = a /\ r[2] = f
    BY <1>1, <1>3, <1>5
<1>7. \A i \in 3..Len(s) + 1 : r[i] = s[i - 1]
  <2> SUFFICES ASSUME NEW i \in 3..Len(s) + 1
               PROVE  r[i] = s[i - 1]
    OBVIOUS
  <2>1. r[i] = Tail(s)[i - 2] /\ i - 2 \in 1..Len(s) - 1
    BY <1>1, <1>5
  <2>2. Tail(s)[i - 2] = s[(i - 2) + 1]
    BY <1>2, <2>1
  <2>3. (i - 2) + 1 = i - 1
    BY <1>1
  <2>4. QED
    BY <2>1, <2>2, <2>3
<1>8. r # <<>>
    BY <1>1, <1>4
<1>9. QED
    BY <1>1, <1>4, <1>6, <1>7, <1>8

LEMMA PopTop ==
    ASSUME NEW S, NEW s \in Seq(S), s # <<>>
    PROVE  /\ Tail(s) \in Seq(S) /\ Len(Tail(s)) = Len(s) - 1 /\ Len(s) \in Nat \ {0}
           /\ Tail(s) # <<>> => Head(Tail(s)) = s[2] /\ Len(s) > 1
           /\ \A i \in 1..Len(s) - 1 : Tail(s)[i] = s[i + 1]
<1>1. Tail(s) \in Seq(S) /\ Len(Tail(s)) = Len(s) - 1 /\ Len(s) \in Nat \ {0}
    BY HeadTailProperties, EmptySeq
<1>2. \A i \in 1..Len(s) - 1 : Tail(s)[i] = s[i + 1]
    BY <1>1, HeadTailProperties
<1>3. Tail(s) # <<>> => Head(Tail(s)) = s[2] /\ Len(s) > 1
    BY <1>1, <1>2
<1>4. QED
    BY <1>1, <1>2, <1>3

\* What Goto does.
LEMMA GotoStack ==
    ASSUME TypeOK, NEW t \in Threads, NEW w \in Location, stack[t] # <<>>, Goto(t, w)
    PROVE  /\ stack' \in [Threads -> Seq(Frame)]
           /\ \A u \in Threads \ {t} : stack'[u] = stack[u]
           /\ Len(stack'[t]) = Len(stack[t]) /\ Len(stack[t]) \in Nat \ {0}
           /\ stack'[t] # <<>> /\ stack'[t][1] = Head(stack'[t]) /\ stack[t][1] = Head(stack[t])
           /\ stack'[t][1].at = w /\ stack'[t][1].cls = stack[t][1].cls
           /\ \A i \in 2..Len(stack[t]) : stack'[t][i] = stack[t][i]
<1>1. stack \in [Threads -> Seq(Frame)] /\ stack[t] \in Seq(Frame)
    BY DEF TypeOK
<1>2. Head(stack[t]) \in Frame
    BY <1>1, HeadTailProperties
<1> DEFINE f == [Head(stack[t]) EXCEPT !.at = w]
<1>3. f \in Frame /\ f.at = w /\ f.cls = Head(stack[t]).cls
    BY <1>2 DEF Frame
<1>4. stack' = [stack EXCEPT ![t] = <<f>> \o Tail(stack[t])]
    BY DEF Goto
<1>5. stack'[t] = <<f>> \o Tail(stack[t])
    BY <1>1, <1>4
<1> HIDE DEF f
<1>6. /\ stack'[t] \in Seq(Frame) /\ stack'[t] # <<>> /\ Len(stack'[t]) = Len(stack[t])
      /\ Len(stack[t]) \in Nat \ {0}
      /\ stack'[t][1] = f /\ Head(stack'[t]) = f /\ Head(stack[t]) = stack[t][1]
      /\ \A i \in 2..Len(stack[t]) : stack'[t][i] = stack[t][i]
    BY <1>1, <1>3, <1>5, ReplaceTop
<1>7. stack' \in [Threads -> Seq(Frame)] /\ \A u \in Threads \ {t} : stack'[u] = stack[u]
  <2>1. \A u \in Threads \ {t} : stack'[u] = stack[u] /\ stack[u] \in Seq(Frame)
    BY <1>1, <1>4
  <2>2. DOMAIN stack' = Threads /\ stack' = [u \in Threads |-> stack'[u]]
    BY <1>1, <1>4
  <2>3. QED
    BY <1>6, <2>1, <2>2
<1>8. QED
    BY <1>3, <1>6, <1>7

\* What the innermost activation is, read off its place in the stack.
LEMMA TopOf ==
    ASSUME TypeOK, NEW t \in Threads
    PROVE  /\ stack[t] \in Seq(Frame) /\ Len(stack[t]) \in Nat
           /\ stack[t] # <<>> <=> 1 \in Activations(t)
           /\ stack[t] # <<>> => /\ Head(stack[t]) = stack[t][1] /\ stack[t][1] \in Frame
                                 /\ Cls(t) = stack[t][1].cls /\ Cls(t) \in Classes
           /\ \A i \in Activations(t) : stack[t][i] \in Frame /\ stack[t][i].cls \in Classes
<1>1. stack[t] \in Seq(Frame)
    BY DEF TypeOK
<1>2. Len(stack[t]) \in Nat /\ \A i \in Activations(t) : stack[t][i] \in Frame
    BY <1>1, LenProperties, ElementOfSeq DEF Activations
<1>3. \A i \in Activations(t) : stack[t][i].cls \in Classes
    BY <1>2 DEF Frame
<1>4. stack[t] # <<>> <=> 1 \in Activations(t)
    BY <1>1, <1>2 DEF Activations
<1>5. stack[t] # <<>> => Head(stack[t]) = stack[t][1]
    BY <1>1
<1>6. QED
    BY <1>1, <1>2, <1>3, <1>4, <1>5 DEF Cls

-----------------------------------------------------------------------------
(* The steps preserve the invariant.  A step that only has the innermost   *)
(* activation go from one place to another:                                *)

Allowed(t, w) ==
    /\ w \in Location \ {"body", "finish", "fatal"}
    /\ w = "claim" => SuperReady(Cls(t)) \/ Super[Cls(t)] \in initList[t]
    /\ w = "lost" => Cls(t) \in initializing \cup initialized
    /\ w = "recheck" => Cls(t) \in initialized
    /\ w \in {"wait", "asleep"} => Cls(t) \in (initializing \cup initialized) \ initList[t]
    /\ w = "asleep" => Cls(t) \notin initialized
    /\ w = "return" => Cls(t) \in initialized \/ Cls(t) \in initList[t]

LEMMA GotoIInv ==
    ASSUME IInv, NEW t \in Threads, NEW w, stack[t] # <<>>, Goto(t, w), ~ At(t, "finish"), Allowed(t, w),
           UNCHANGED <<initializing, initialized, initList, pending, monitor, finishing, messages>>
    PROVE  IInv'
<1> USE DEF IInv
<1>0. w \in Location
    BY DEF Allowed
<1>1. /\ stack' \in [Threads -> Seq(Frame)]
      /\ \A u \in Threads \ {t} : stack'[u] = stack[u]
      /\ Len(stack'[t]) = Len(stack[t]) /\ Len(stack[t]) \in Nat \ {0}
      /\ stack'[t] # <<>> /\ stack'[t][1] = Head(stack'[t]) /\ stack[t][1] = Head(stack[t])
      /\ stack'[t][1].at = w /\ stack'[t][1].cls = stack[t][1].cls
      /\ \A i \in 2..Len(stack[t]) : stack'[t][i] = stack[t][i]
    BY <1>0, GotoStack
<1>2. TypeOK'
    BY <1>1 DEF TypeOK
<1>3. \A u \in Threads : Activations(u)' = Activations(u)
    BY <1>1 DEF Activations
<1>4. \A u \in Threads : \A i \in Activations(u) :
          /\ stack'[u][i].cls = stack[u][i].cls
          /\ ~(u = t /\ i = 1) => stack'[u][i] = stack[u][i]
    BY <1>1 DEF Activations
<1>5. /\ \A u \in Threads \ {t} : \A v : At(u, v)' = At(u, v) /\ Cls(u)' = Cls(u)
      /\ \A v : At(t, v)' <=> v = w
      /\ Cls(t)' = Cls(t)
    BY <1>1 DEF At, Cls
<1>6. \A c : SuperReady(c)' = SuperReady(c)
    BY DEF SuperReady
<1>7. ListsAreExact'
    BY DEF ListsAreExact
<1>8. OthersAreSuspended'
    BY <1>3, <1>4 DEF OthersAreSuspended
<1>9. SuperclassFirst'
  <2> SUFFICES ASSUME NEW u \in Threads, NEW i \in Activations(u), stack'[u][i].at = "claim"
               PROVE  \/ SuperReady(stack[u][i].cls)
                      \/ Super[stack[u][i].cls] \in initList[u]
                      \/ i > 1 /\ stack'[u][i - 1].cls = Super[stack[u][i].cls]
    BY <1>3, <1>4, <1>6 DEF SuperclassFirst
  <2>1. CASE u = t /\ i = 1
    BY <1>1, <2>1, TopOf DEF Allowed
  <2>2. CASE ~(u = t /\ i = 1)
    <3>1. \/ SuperReady(stack[u][i].cls)
          \/ Super[stack[u][i].cls] \in initList[u]
          \/ i > 1 /\ stack[u][i - 1].cls = Super[stack[u][i].cls]
      BY <1>4, <2>2 DEF SuperclassFirst
    <3>2. i > 1 => i - 1 \in Activations(u)
      BY TopOf DEF Activations
    <3>3. QED
      BY <1>4, <3>1, <3>2
  <2>3. QED
    BY <2>1, <2>2
<1>10. BodiesAreOwn'
  <2>1. \A u \in Threads : \A i \in Activations(u) :
            stack'[u][i].at = "body" => stack[u][i].at = "body"
    BY <1>1, <1>4 DEF Allowed
  <2>2. QED
    BY <1>3, <1>4, <2>1 DEF BodiesAreOwn, Occurs
<1>11. PendingIsOwn'
    BY DEF PendingIsOwn, Occurs, NoneTwice
<1>12. FinishingIsOwn'
    BY <1>5, <1>6 DEF FinishingIsOwn, Occurs, NoneTwice, Allowed
<1>13. Known' /\ NeverFatal' /\ OthersWait'
    BY <1>5 DEF Known, NeverFatal, OthersWait, Allowed
<1>14. ContiguousSubtree'
    BY <1>6 DEF ContiguousSubtree
<1>15. SleepersAreWoken'
  <2> SUFFICES ASSUME NEW u \in Threads, At(u, "asleep")'
               PROVE  /\ Cls(u) \notin initialized
                      /\ \E v \in Threads \ {u} : Cls(u) \in initList[v]
    BY <1>5 DEF SleepersAreWoken
  <2>1. CASE u = t
    <3>1. Cls(t) \in initializing \ initList[t] /\ Cls(t) \notin initialized
      BY <1>5, <2>1 DEF Allowed
    <3>2. Cls(t) \in Classes
      BY TopOf
    <3>3. QED
      BY <2>1, <3>1, <3>2 DEF ListsAreExact
  <2>2. CASE u # t
    BY <1>5, <2>2 DEF SleepersAreWoken
  <2>3. QED
    BY <2>1, <2>2
<1>16. QED
    BY <1>2, <1>7, <1>8, <1>9, <1>10, <1>11, <1>12, <1>13, <1>14, <1>15

\* A step that starts an activation for c, from outside or from the body on
\* top, or has the one on top wait to claim its class until its superclass is
\* through.
LEMMA ActivateIInv ==
    ASSUME IInv, NEW t \in Threads, NEW c \in Classes,
           stack' \in [Threads -> Seq(Frame)],
           \A u \in Threads \ {t} : stack'[u] = stack[u],
           Len(stack'[t]) = Len(stack[t]) + 1,
           stack'[t] # <<>>,
           stack'[t][1] = Activation(c),
           \A i \in Activations(t) : stack'[t][i + 1].cls = stack[t][i].cls,
           \A i \in Activations(t) : i > 1 => stack'[t][i + 1].at = stack[t][i].at,
           \/ stack[t] = <<>>
           \/ At(t, "body") /\ stack'[t][2].at = "body"
           \/ At(t, "super") /\ stack'[t][2].at = "claim" /\ Super[Cls(t)] = c,
           UNCHANGED <<initializing, initialized, initList, pending, monitor, finishing, messages>>
    PROVE  IInv'
<1> USE DEF IInv
<1>1. TypeOK'
    BY DEF TypeOK
<1>2. /\ Len(stack[t]) \in Nat
      /\ \A u \in Threads \ {t} : Activations(u)' = Activations(u)
      /\ Activations(t)' = 1..Len(stack[t]) + 1
    BY TopOf DEF Activations
<1>3. \A i \in Activations(t)' : i > 1 => i - 1 \in Activations(t) /\ (i - 1) + 1 = i
    BY <1>2 DEF Activations
<1>4. stack[t] # <<>> => stack[t][1] = Head(stack[t]) /\ Cls(t) = stack[t][1].cls
    BY TopOf
<1>5. \A i \in Activations(t)' :
          /\ i = 1 => stack'[t][i].at = "super"
          /\ i > 1 => stack'[t][i].cls = stack[t][i - 1].cls
          /\ i > 2 => stack'[t][i].at = stack[t][i - 1].at
          /\ i = 2 => \/ stack'[t][i].at = "body" /\ stack[t][i - 1].at = "body"
                      \/ stack'[t][i].at = "claim" /\ Super[stack[t][i - 1].cls] = c
  <2> SUFFICES ASSUME NEW i \in Activations(t)'
               PROVE  /\ i = 1 => stack'[t][i].at = "super"
                      /\ i > 1 => stack'[t][i].cls = stack[t][i - 1].cls
                      /\ i > 2 => stack'[t][i].at = stack[t][i - 1].at
                      /\ i = 2 => \/ stack'[t][i].at = "body" /\ stack[t][i - 1].at = "body"
                                  \/ stack'[t][i].at = "claim" /\ Super[stack[t][i - 1].cls] = c
    OBVIOUS
  <2>1. i = 1 => stack'[t][i].at = "super"
    BY DEF Activation
  <2>2. i > 1 => stack'[t][i].cls = stack[t][i - 1].cls
    BY <1>3
  <2>3. i > 2 => stack'[t][i].at = stack[t][i - 1].at
    <3> HAVE i > 2
    <3>1. i > 1 /\ i - 1 > 1
      BY <1>2
    <3>2. QED
      BY <1>3, <3>1
  <2>4. ASSUME i = 2
        PROVE  \/ stack'[t][i].at = "body" /\ stack[t][i - 1].at = "body"
               \/ stack'[t][i].at = "claim" /\ Super[stack[t][i - 1].cls] = c
    <3>1. stack[t] # <<>> /\ i - 1 = 1
      BY <1>2, <2>4, TopOf DEF Activations
    <3>2. QED
      BY <1>4, <2>4, <3>1 DEF At
  <2>5. QED
    BY <2>1, <2>2, <2>3, <2>4
<1>6. /\ \A u \in Threads \ {t} : \A v : At(u, v)' = At(u, v) /\ Cls(u)' = Cls(u)
      /\ \A v : At(t, v)' <=> v = "super"
      /\ ~ At(t, "finish")
  <2>1. Head(stack'[t]) = stack'[t][1]
    BY TopOf, <1>1 DEF TypeOK
  <2>2. QED
    BY <2>1 DEF At, Cls, Activation
<1>7. \A d : SuperReady(d)' = SuperReady(d)
    BY DEF SuperReady
<1>8. ListsAreExact'
    BY DEF ListsAreExact
<1>9. OthersAreSuspended'
  <2> SUFFICES ASSUME NEW u \in Threads, NEW i \in Activations(u)', i > 1
               PROVE  stack'[u][i].at \in {"claim", "body"}
    BY DEF OthersAreSuspended
  <2>1. CASE u # t
    BY <1>2, <2>1 DEF OthersAreSuspended
  <2>2. CASE u = t /\ i = 2
    BY <1>5, <2>2
  <2>3. CASE u = t /\ i > 2
    <3>1. i - 1 \in Activations(t) /\ i - 1 > 1
      BY <1>2, <1>3, <2>3
    <3>2. QED
      BY <1>5, <2>3, <3>1 DEF OthersAreSuspended
  <2>4. QED
    BY <1>2, <2>1, <2>2, <2>3
<1>10. SuperclassFirst'
  <2> SUFFICES ASSUME NEW u \in Threads, NEW i \in Activations(u)', stack'[u][i].at = "claim"
               PROVE  \/ SuperReady(stack'[u][i].cls)
                      \/ Super[stack'[u][i].cls] \in initList[u]
                      \/ i > 1 /\ stack'[u][i - 1].cls = Super[stack'[u][i].cls]
    BY <1>7 DEF SuperclassFirst
  <2>1. CASE u # t
    BY <1>2, <2>1 DEF SuperclassFirst
  <2>2. CASE u = t /\ i = 1
    BY <1>5, <2>2
  <2>3. CASE u = t /\ i = 2
    <3>1. Super[stack'[t][i].cls] = c \/ stack'[t][i].at = "body"
      BY <1>5, <2>3
    <3>2. stack'[t][i - 1].cls = c
      BY <2>3 DEF Activation
    <3>3. QED
      BY <2>3, <3>1, <3>2
  <2>4. CASE u = t /\ i > 2
    <3>1. /\ i - 1 \in Activations(t) /\ i - 1 > 1 /\ i > 1
          /\ i - 1 \in Activations(t)'
      BY <1>2, <1>3, <2>4
    <3>2. stack[t][i - 1].at = "claim"
      BY <1>5, <2>4, <3>1
    <3>3. \/ SuperReady(stack[t][i - 1].cls)
          \/ Super[stack[t][i - 1].cls] \in initList[t]
          \/ stack[t][(i - 1) - 1].cls = Super[stack[t][i - 1].cls]
      BY <3>1, <3>2 DEF SuperclassFirst
    <3>4. stack'[t][i].cls = stack[t][i - 1].cls /\ stack'[t][i - 1].cls = stack[t][(i - 1) - 1].cls
      BY <1>5, <3>1, <2>4
    <3>5. QED
      BY <2>4, <3>1, <3>3, <3>4
  <2>5. QED
    BY <1>2, <2>1, <2>2, <2>3, <2>4
<1>11. BodiesAreOwn'
  <2>1. \A i \in Activations(t)' : stack'[t][i].at = "body" =>
            /\ i > 1 /\ i - 1 \in Activations(t)
            /\ stack[t][i - 1].at = "body" /\ stack'[t][i].cls = stack[t][i - 1].cls
    BY <1>2, <1>3, <1>5
  <2> SUFFICES ASSUME NEW u \in Threads, NEW i \in Activations(u)', stack'[u][i].at = "body"
               PROVE  /\ stack'[u][i].cls \in initList[u]
                      /\ ~ Occurs(stack'[u][i].cls, finishing)
                      /\ \A s \in Classes : ~ Occurs(stack'[u][i].cls, pending[s])
                      /\ \A j \in Activations(u)' :
                            stack'[u][j].at = "body" /\ stack'[u][j].cls = stack'[u][i].cls => i = j
    BY DEF BodiesAreOwn, Occurs
  <2>2. CASE u # t
    BY <1>2, <2>2 DEF BodiesAreOwn
  <2>3. CASE u = t
    <3>1. /\ i - 1 \in Activations(t) /\ stack[t][i - 1].at = "body"
          /\ stack'[t][i].cls = stack[t][i - 1].cls
      BY <2>1, <2>3
    <3>2. /\ stack[t][i - 1].cls \in initList[t]
          /\ ~ Occurs(stack[t][i - 1].cls, finishing)
          /\ \A s \in Classes : ~ Occurs(stack[t][i - 1].cls, pending[s])
      BY <3>1 DEF BodiesAreOwn
    <3>3. ASSUME NEW j \in Activations(t)', stack'[t][j].at = "body",
                 stack'[t][j].cls = stack'[t][i].cls
          PROVE  i = j
      <4>1. /\ j - 1 \in Activations(t) /\ stack[t][j - 1].at = "body"
            /\ stack'[t][j].cls = stack[t][j - 1].cls
        BY <2>1, <3>3
      <4>2. i - 1 = j - 1
        BY <3>1, <3>3, <4>1 DEF BodiesAreOwn
      <4>3. QED
        BY <1>2, <2>3, <4>2
    <3>4. QED
      BY <2>3, <3>1, <3>2, <3>3
  <2>4. QED
    BY <2>2, <2>3
<1>12. PendingIsOwn'
    BY DEF PendingIsOwn, Occurs, NoneTwice
<1>13. FinishingIsOwn'
    BY <1>6, <1>7 DEF FinishingIsOwn, Occurs, NoneTwice
<1>14. Known' /\ NeverFatal' /\ OthersWait' /\ SleepersAreWoken'
    BY <1>6 DEF Known, NeverFatal, OthersWait, SleepersAreWoken
<1>15. ContiguousSubtree'
    BY <1>7 DEF ContiguousSubtree
<1>16. QED
    BY <1>1, <1>8, <1>9, <1>10, <1>11, <1>12, <1>13, <1>14, <1>15

\* The thread that sets RW_INITIALIZING puts the class in its list and starts
\* the body of its +initialize.
LEMMA ClaimWonIInv ==
    ASSUME IInv, NEW t \in Threads, Claim(t), ~ Taken(Cls(t))
    PROVE  IInv'
<1> USE DEF IInv
<1> DEFINE c == Cls(t)
           f == [cls |-> c, at |-> "body", todo |-> messages[c] \cup {c}]
<1>1. stack[t] # <<>> /\ At(t, "claim") /\ monitor = None /\ Head(stack[t]).at = "claim"
    BY DEF Claim, At
<1>2. /\ stack[t] \in Seq(Frame) /\ c \in Classes /\ stack[t][1].at = "claim" /\ stack[t][1].cls = c
      /\ 1 \in Activations(t) /\ \A i \in Activations(t) : stack[t][i].cls \in Classes
    BY <1>1, TopOf
<1>3. c \notin initializing /\ c \notin initialized /\ \A u \in Threads : c \notin initList[u]
    BY <1>2 DEF Taken, ListsAreExact
<1>4. /\ initializing' = initializing \cup {c}
      /\ initList' = [initList EXCEPT ![t] = @ \cup {c}]
      /\ stack' = [stack EXCEPT ![t] = <<f>> \o Tail(@)]
      /\ UNCHANGED <<initialized, pending, monitor, finishing, messages>>
    BY <1>3 DEF Claim
<1>5. initList \in [Threads -> SUBSET Classes] /\ stack \in [Threads -> Seq(Frame)]
    BY DEF TypeOK
<1>6. f \in Frame /\ f.at = "body" /\ f.cls = c
  <2>1. messages \in [Classes -> SUBSET Classes] /\ c \in Classes
    BY <1>2, InitializeAssumption DEF TypeOK, InitializeAssumption
  <2>2. messages[c] \cup {c} \in SUBSET Classes
    BY <2>1
  <2>3. QED
    BY <2>1, <2>2 DEF Frame, Location
<1>7. stack'[t] = <<f>> \o Tail(stack[t])
    BY <1>4, <1>5
<1> HIDE DEF f
<1>8. /\ stack'[t] \in Seq(Frame) /\ stack'[t] # <<>> /\ Len(stack'[t]) = Len(stack[t])
      /\ Len(stack[t]) \in Nat \ {0}
      /\ stack'[t][1] = f /\ Head(stack'[t]) = f
      /\ \A i \in 2..Len(stack[t]) : stack'[t][i] = stack[t][i]
    BY <1>1, <1>2, <1>6, <1>7, ReplaceTop
<1>9. \A u \in Threads \ {t} : stack'[u] = stack[u] /\ stack[u] \in Seq(Frame)
    BY <1>4, <1>5
<1>10. /\ initList' \in [Threads -> SUBSET Classes]
       /\ initList'[t] = initList[t] \cup {c}
       /\ \A u \in Threads \ {t} : initList'[u] = initList[u]
       /\ \A u \in Threads : initList[u] \subseteq initList'[u]
       /\ \A u \in Threads : \A d : d # c => (d \in initList'[u] <=> d \in initList[u])
    BY <1>2, <1>4, <1>5
<1> HIDE DEF c
<1>11. TypeOK'
  <2>1. stack' \in [Threads -> Seq(Frame)]
    <3>1. DOMAIN stack' = Threads /\ stack' = [u \in Threads |-> stack'[u]]
      BY <1>4, <1>5
    <3>2. QED
      BY <1>8, <1>9, <3>1
  <2>2. QED
    BY <1>2, <1>4, <1>10, <2>1 DEF TypeOK
<1>12. \A u \in Threads : Activations(u)' = Activations(u)
    BY <1>8, <1>9 DEF Activations
<1>13. \A u \in Threads : \A i \in Activations(u) :
           /\ stack'[u][i].cls = stack[u][i].cls
           /\ ~(u = t /\ i = 1) => stack'[u][i] = stack[u][i]
    BY <1>2, <1>6, <1>8, <1>9 DEF Activations
<1>14. /\ \A u \in Threads \ {t} : \A v : At(u, v)' = At(u, v) /\ Cls(u)' = Cls(u)
       /\ \A v : At(t, v)' <=> v = "body"
       /\ \A v : At(t, v) <=> v = "claim"
    BY <1>1, <1>6, <1>8, <1>9 DEF At, Cls
<1>15. \A d : SuperReady(d)' = SuperReady(d)
    BY <1>4 DEF SuperReady
<1>16. SuperReady(c) \/ Super[c] \in initList[t]
    BY <1>2 DEF SuperclassFirst
<1>17. ListsAreExact'
  <2>1. (initializing \cap initialized = {})'
    BY <1>3, <1>4 DEF ListsAreExact
  <2>2. ASSUME NEW d \in Classes
        PROVE  d \in initializing' <=> \E u \in Threads : d \in initList'[u]
    <3>1. CASE d = c
      BY <1>4, <1>10, <3>1
    <3>2. CASE d # c
      BY <1>4, <1>10, <3>2 DEF ListsAreExact
    <3>3. QED
      BY <3>1, <3>2
  <2>3. ASSUME NEW u \in Threads, NEW v \in Threads, NEW d \in Classes,
               d \in initList'[u], d \in initList'[v]
        PROVE  u = v
    <3>1. CASE d = c
      BY <1>3, <1>10, <2>3, <3>1
    <3>2. CASE d # c
      BY <1>10, <2>3, <3>2 DEF ListsAreExact
    <3>3. QED
      BY <3>1, <3>2
  <2>4. QED
    BY <2>1, <2>2, <2>3 DEF ListsAreExact
<1>18. OthersAreSuspended'
    BY <1>12, <1>13 DEF OthersAreSuspended
<1>19. SuperclassFirst'
  <2> SUFFICES ASSUME NEW u \in Threads, NEW i \in Activations(u), stack'[u][i].at = "claim"
               PROVE  \/ SuperReady(stack[u][i].cls)
                      \/ Super[stack[u][i].cls] \in initList'[u]
                      \/ i > 1 /\ stack'[u][i - 1].cls = Super[stack[u][i].cls]
    BY <1>12, <1>13, <1>15 DEF SuperclassFirst
  <2>1. ~(u = t /\ i = 1)
    BY <1>6, <1>8
  <2>2. \/ SuperReady(stack[u][i].cls)
        \/ Super[stack[u][i].cls] \in initList[u]
        \/ i > 1 /\ stack[u][i - 1].cls = Super[stack[u][i].cls]
    BY <1>13, <2>1 DEF SuperclassFirst
  <2>3. i > 1 => i - 1 \in Activations(u)
    BY TopOf DEF Activations
  <2>4. QED
    BY <1>10, <1>13, <2>2, <2>3
<1>20. /\ ~ Occurs(c, finishing)
       /\ \A s \in Classes : ~ Occurs(c, pending[s])
  <2>1. finishing = <<>>
    BY <1>1 DEF FinishingIsOwn
  <2>2. QED
    BY <1>2, <1>3, <2>1 DEF PendingIsOwn, Occurs
<1>21. BodiesAreOwn'
  <2>1. \A u \in Threads : \A i \in Activations(u) :
            stack'[u][i].at = "body" => \/ u = t /\ i = 1
                                        \/ /\ stack[u][i].at = "body"
                                           /\ stack[u][i].cls \in initList[u]
                                           /\ stack[u][i].cls # c
    BY <1>3, <1>13 DEF BodiesAreOwn
  <2> SUFFICES ASSUME NEW u \in Threads, NEW i \in Activations(u), stack'[u][i].at = "body"
               PROVE  /\ stack[u][i].cls \in initList'[u]
                      /\ ~ Occurs(stack[u][i].cls, finishing)
                      /\ \A s \in Classes : ~ Occurs(stack[u][i].cls, pending[s])
                      /\ \A j \in Activations(u) :
                            stack'[u][j].at = "body" /\ stack[u][j].cls = stack[u][i].cls => i = j
    <3>1. /\ \A d : Occurs(d, finishing)' = Occurs(d, finishing)
          /\ \A d : \A s \in Classes : Occurs(d, pending[s])' = Occurs(d, pending[s])
      BY <1>4 DEF Occurs
    <3>2. QED
      BY <1>12, <1>13, <3>1 DEF BodiesAreOwn
  <2>2. CASE u = t /\ i = 1
    BY <1>2, <1>10, <1>20, <2>1, <2>2
  <2>3. CASE ~(u = t /\ i = 1)
    <3>1. stack[u][i].at = "body" /\ stack[u][i].cls # c
      BY <2>1, <2>3
    <3>2. /\ stack[u][i].cls \in initList[u]
          /\ ~ Occurs(stack[u][i].cls, finishing)
          /\ \A s \in Classes : ~ Occurs(stack[u][i].cls, pending[s])
      BY <3>1 DEF BodiesAreOwn
    <3>3. ASSUME NEW j \in Activations(u), stack'[u][j].at = "body", stack[u][j].cls = stack[u][i].cls
          PROVE  i = j
      <4>1. stack[u][j].at = "body"
        BY <1>2, <2>1, <3>1, <3>3
      <4>2. QED
        BY <3>1, <3>3, <4>1 DEF BodiesAreOwn
    <3>4. QED
      BY <1>10, <3>2, <3>3
  <2>4. QED
    BY <2>2, <2>3
<1>22. PendingIsOwn'
    BY <1>4, <1>10 DEF PendingIsOwn, Occurs, NoneTwice
<1>23. FinishingIsOwn'
  <2>1. finishing = <<>> /\ finishing' = <<>>
    BY <1>1, <1>4 DEF FinishingIsOwn
  <2>2. \A u \in Threads : At(u, "finish")' <=> monitor' = u
    BY <1>1, <1>4, <1>14 DEF FinishingIsOwn
  <2>3. QED
    BY <2>1, <2>2 DEF FinishingIsOwn, Occurs, NoneTwice
<1>24. Known' /\ NeverFatal' /\ OthersWait'
    BY <1>4, <1>10, <1>14 DEF Known, NeverFatal, OthersWait
<1>25. SleepersAreWoken'
    BY <1>4, <1>10, <1>14 DEF SleepersAreWoken
<1>26. ContiguousSubtree'
  <2> SUFFICES ASSUME NEW d \in Classes
               PROVE  /\ d \in initialized => SuperReady(d)
                      /\ \A u \in Threads :
                          d \in initList'[u] => SuperReady(d) \/ Super[d] \in initList'[u]
    BY <1>4, <1>15 DEF ContiguousSubtree
  <2>1. CASE d = c
    BY <1>3, <1>10, <1>16, <2>1
  <2>2. CASE d # c
    BY <1>10, <2>2 DEF ContiguousSubtree
  <2>3. QED
    BY <2>1, <2>2
<1>27. QED
    BY <1>11, <1>17, <1>18, <1>19, <1>21, <1>22, <1>23, <1>24, <1>25, <1>26

\* What Goto does, for each activation of each thread and for the innermost.
LEMMA GotoFacts ==
    ASSUME TypeOK, NEW t \in Threads, NEW w \in Location, stack[t] # <<>>, Goto(t, w)
    PROVE  /\ stack' \in [Threads -> Seq(Frame)]
           /\ \A u \in Threads : Activations(u)' = Activations(u)
           /\ \A u \in Threads : \A i \in Activations(u) :
                 /\ stack'[u][i].cls = stack[u][i].cls
                 /\ ~(u = t /\ i = 1) => stack'[u][i] = stack[u][i]
           /\ 1 \in Activations(t) /\ stack'[t][1].at = w
           /\ \A u \in Threads \ {t} : \A v : At(u, v)' = At(u, v) /\ Cls(u)' = Cls(u)
           /\ \A v : At(t, v)' <=> v = w
           /\ Cls(t)' = Cls(t)
<1>1. /\ stack' \in [Threads -> Seq(Frame)]
      /\ \A u \in Threads \ {t} : stack'[u] = stack[u]
      /\ Len(stack'[t]) = Len(stack[t]) /\ Len(stack[t]) \in Nat \ {0}
      /\ stack'[t] # <<>> /\ stack'[t][1] = Head(stack'[t]) /\ stack[t][1] = Head(stack[t])
      /\ stack'[t][1].at = w /\ stack'[t][1].cls = stack[t][1].cls
      /\ \A i \in 2..Len(stack[t]) : stack'[t][i] = stack[t][i]
    BY GotoStack
<1>2. \A u \in Threads : Activations(u)' = Activations(u)
    BY <1>1 DEF Activations
<1>3. \A u \in Threads : \A i \in Activations(u) :
          /\ stack'[u][i].cls = stack[u][i].cls
          /\ ~(u = t /\ i = 1) => stack'[u][i] = stack[u][i]
    BY <1>1 DEF Activations
<1>4. /\ \A u \in Threads \ {t} : \A v : At(u, v)' = At(u, v) /\ Cls(u)' = Cls(u)
      /\ \A v : At(t, v)' <=> v = w
      /\ Cls(t)' = Cls(t)
    BY <1>1 DEF At, Cls
<1>5. 1 \in Activations(t)
    BY <1>1 DEF Activations
<1>6. QED
    BY <1>1, <1>2, <1>3, <1>4, <1>5

\* What such a step, to any place but "claim", leaves in order.
LEMMA GotoKeeps ==
    ASSUME IInv, NEW t \in Threads, NEW w \in Location \ {"claim"}, stack[t] # <<>>, Goto(t, w),
           UNCHANGED <<initializing, initialized, initList>>
    PROVE  ListsAreExact' /\ OthersAreSuspended' /\ SuperclassFirst' /\ ContiguousSubtree'
<1> USE DEF IInv
<1>1. /\ \A u \in Threads : Activations(u)' = Activations(u)
      /\ \A u \in Threads : \A i \in Activations(u) :
            /\ stack'[u][i].cls = stack[u][i].cls
            /\ ~(u = t /\ i = 1) => stack'[u][i] = stack[u][i]
      /\ stack'[t][1].at = w
    BY GotoFacts
<1>2. \A c : SuperReady(c)' = SuperReady(c)
    BY DEF SuperReady
<1>3. ListsAreExact'
    BY DEF ListsAreExact
<1>4. OthersAreSuspended'
    BY <1>1 DEF OthersAreSuspended
<1>5. SuperclassFirst'
  <2> SUFFICES ASSUME NEW u \in Threads, NEW i \in Activations(u), stack'[u][i].at = "claim"
               PROVE  \/ SuperReady(stack[u][i].cls)
                      \/ Super[stack[u][i].cls] \in initList[u]
                      \/ i > 1 /\ stack'[u][i - 1].cls = Super[stack[u][i].cls]
    BY <1>1, <1>2 DEF SuperclassFirst
  <2>1. \/ SuperReady(stack[u][i].cls)
        \/ Super[stack[u][i].cls] \in initList[u]
        \/ i > 1 /\ stack[u][i - 1].cls = Super[stack[u][i].cls]
    BY <1>1 DEF SuperclassFirst
  <2>2. i > 1 => i - 1 \in Activations(u)
    BY TopOf DEF Activations
  <2>3. QED
    BY <1>1, <2>1, <2>2
<1>6. ContiguousSubtree'
    BY <1>2 DEF ContiguousSubtree
<1>7. QED
    BY <1>3, <1>4, <1>5, <1>6

\* A step after which fewer bodies run, of classes neither being finished nor
\* pending.
LEMMA BodiesKept ==
    ASSUME TypeOK, BodiesAreOwn,
           \A u \in Threads : Activations(u)' = Activations(u),
           \A u \in Threads : \A i \in Activations(u) : stack'[u][i].cls = stack[u][i].cls,
           \A u \in Threads : \A i \in Activations(u) : stack'[u][i].at = "body" =>
              /\ stack[u][i].at = "body" /\ stack[u][i].cls \in initList'[u]
              /\ ~ Occurs(stack[u][i].cls, finishing')
              /\ \A s \in Classes : ~ Occurs(stack[u][i].cls, pending'[s])
    PROVE  BodiesAreOwn'
<1> SUFFICES ASSUME NEW u \in Threads, NEW i \in Activations(u)', stack'[u][i].at = "body"
             PROVE  /\ stack'[u][i].cls \in initList'[u]
                    /\ ~ Occurs(stack'[u][i].cls, finishing')
                    /\ \A s \in Classes : ~ Occurs(stack'[u][i].cls, pending'[s])
                    /\ \A j \in Activations(u)' :
                          stack'[u][j].at = "body" /\ stack'[u][j].cls = stack'[u][i].cls => i = j
    BY DEF BodiesAreOwn, Occurs
<1>1. /\ i \in Activations(u) /\ stack[u][i].at = "body" /\ stack'[u][i].cls = stack[u][i].cls
      /\ stack[u][i].cls \in initList'[u]
      /\ ~ Occurs(stack[u][i].cls, finishing')
      /\ \A s \in Classes : ~ Occurs(stack[u][i].cls, pending'[s])
    OBVIOUS
<1>2. ASSUME NEW j \in Activations(u)', stack'[u][j].at = "body", stack'[u][j].cls = stack'[u][i].cls
      PROVE  i = j
  <2>1. /\ j \in Activations(u) /\ stack[u][j].at = "body"
        /\ stack[u][j].cls = stack[u][i].cls
    BY <1>1, <1>2
  <2>2. QED
    BY <1>1, <2>1 DEF BodiesAreOwn
<1>3. QED
    BY <1>1, <1>2

\* A body comes to its end, and its class with it.
LEMMA BeginFinishIInv ==
    ASSUME IInv, NEW t \in Threads, BeginFinish(t)
    PROVE  IInv'
<1> USE DEF IInv
<1>a. PICK c : c = Cls(t)
    OBVIOUS
<1>1. /\ stack[t] # <<>> /\ At(t, "body") /\ Head(stack[t]).at = "body"
      /\ monitor = None /\ monitor' = t /\ SuperReady(c) /\ finishing' = <<c>>
      /\ Goto(t, "finish") /\ "finish" \in Location \ {"claim"}
      /\ UNCHANGED <<initializing, initialized, initList, pending, messages>>
    BY <1>a DEF BeginFinish, At, Location
<1>2. /\ c \in Classes /\ 1 \in Activations(t) /\ stack[t][1].at = "body" /\ stack[t][1].cls = c
      /\ \A u \in Threads : \A i \in Activations(u) : stack[u][i].cls \in Classes
    BY <1>1, <1>a, TopOf
<1>3. /\ stack' \in [Threads -> Seq(Frame)]
      /\ \A u \in Threads : Activations(u)' = Activations(u)
      /\ \A u \in Threads : \A i \in Activations(u) :
            /\ stack'[u][i].cls = stack[u][i].cls
            /\ ~(u = t /\ i = 1) => stack'[u][i] = stack[u][i]
      /\ stack'[t][1].at = "finish"
      /\ \A u \in Threads \ {t} : \A v : At(u, v)' = At(u, v) /\ Cls(u)' = Cls(u)
      /\ \A v : At(t, v)' <=> v = "finish"
      /\ Cls(t)' = c
    BY <1>1, <1>a, GotoFacts
<1>4. /\ c \in initList[t]
      /\ \A s \in Classes : ~ Occurs(c, pending[s])
      /\ \A j \in Activations(t) : stack[t][j].at = "body" /\ stack[t][j].cls = c => j = 1
    BY <1>2 DEF BodiesAreOwn
<1>5. \A d : Occurs(d, finishing)' <=> d = c
    BY <1>1 DEF Occurs
<1>6. \A d : \A s \in Classes : Occurs(d, pending[s])' = Occurs(d, pending[s])
    BY <1>1 DEF Occurs
<1>7. \A d : SuperReady(d)' = SuperReady(d)
    BY <1>1 DEF SuperReady
<1>8. TypeOK'
    BY <1>1, <1>2, <1>3 DEF TypeOK
<1>9. ListsAreExact' /\ OthersAreSuspended' /\ SuperclassFirst' /\ ContiguousSubtree'
    BY <1>1, GotoKeeps
<1>10. BodiesAreOwn'
  <2>1. \A u \in Threads : \A i \in Activations(u) : stack'[u][i].at = "body" =>
            ~(u = t /\ i = 1) /\ stack[u][i].at = "body" /\ stack[u][i].cls # c
    BY <1>2, <1>3, <1>4 DEF BodiesAreOwn, ListsAreExact
  <2>2. \A u \in Threads : \A i \in Activations(u) : stack'[u][i].at = "body" =>
            /\ ~ Occurs(stack[u][i].cls, finishing')
            /\ \A s \in Classes : ~ Occurs(stack[u][i].cls, pending'[s])
    BY <1>1, <1>5, <1>6, <2>1 DEF BodiesAreOwn
  <2>3. QED
    BY <1>1, <1>3, <2>1, <2>2, BodiesKept DEF BodiesAreOwn
<1>11. PendingIsOwn'
  <2>1. \A s \in Classes : NoneTwice(pending[s])' = NoneTwice(pending[s])
    BY <1>1 DEF NoneTwice
  <2>2. QED
    BY <1>1, <1>4, <1>5, <1>6, <2>1 DEF PendingIsOwn
<1>12. FinishingIsOwn'
  <2>1. \A u \in Threads : At(u, "finish")' <=> monitor' = u
    BY <1>1, <1>3, InitializeAssumption DEF FinishingIsOwn, InitializeAssumption
  <2>2. monitor' # None /\ NoneTwice(finishing)'
    BY <1>1, InitializeAssumption DEF NoneTwice, InitializeAssumption
  <2>3. QED
    BY <1>1, <1>4, <1>5, <1>7, <2>1, <2>2 DEF FinishingIsOwn
<1>13. Known' /\ NeverFatal' /\ OthersWait'
  <2>1. \A u \in Threads \ {t} :
            /\ \A v : At(u, v)' <=> At(u, v)
            /\ Cls(u)' = Cls(u)
    BY <1>3
  <2>2. Known'
    BY <1>1, <1>3, <1>4, <2>1 DEF Known
  <2>3. NeverFatal'
    BY <1>1, <1>3, <1>4, <2>1 DEF NeverFatal
  <2>4. OthersWait'
    BY <1>1, <1>3, <1>4, <2>1 DEF OthersWait
  <2>5. QED
    BY <2>2, <2>3, <2>4
<1>14. SleepersAreWoken'
    BY <1>1, <1>3 DEF SleepersAreWoken
<1>15. QED
    BY <1>8, <1>9, <1>10, <1>11, <1>12, <1>13, <1>14

\* A body comes to its end before that of its superclass does.
LEMMA FinishAfterIInv ==
    ASSUME IInv, NEW t \in Threads, FinishAfter(t)
    PROVE  IInv'
<1> USE DEF IInv
<1>a. PICK c : c = Cls(t)
    OBVIOUS
<1>b. PICK s : s = Super[c]
    OBVIOUS
<1>1. /\ stack[t] # <<>> /\ At(t, "body") /\ Head(stack[t]).at = "body"
      /\ monitor = None /\ ~ SuperReady(c)
      /\ pending' = [pending EXCEPT ![s] = <<c>> \o @]
      /\ Goto(t, "return") /\ "return" \in Location \ {"claim"}
      /\ UNCHANGED <<initializing, initialized, initList, monitor, finishing, messages>>
    BY <1>a, <1>b DEF FinishAfter, At, Location
<1>2. /\ c \in Classes /\ 1 \in Activations(t) /\ stack[t][1].at = "body" /\ stack[t][1].cls = c
      /\ \A u \in Threads : \A i \in Activations(u) : stack[u][i].cls \in Classes
    BY <1>1, <1>a, TopOf
<1>3. s \in Classes /\ s \notin initialized
    BY <1>1, <1>2, <1>b, InitializeAssumption DEF SuperReady, InitializeAssumption
<1>4. /\ stack' \in [Threads -> Seq(Frame)]
      /\ \A u \in Threads : Activations(u)' = Activations(u)
      /\ \A u \in Threads : \A i \in Activations(u) :
            /\ stack'[u][i].cls = stack[u][i].cls
            /\ ~(u = t /\ i = 1) => stack'[u][i] = stack[u][i]
      /\ stack'[t][1].at = "return"
      /\ \A u \in Threads \ {t} : \A v : At(u, v)' = At(u, v) /\ Cls(u)' = Cls(u)
      /\ \A v : At(t, v)' <=> v = "return"
      /\ Cls(t)' = c
    BY <1>1, <1>a, GotoFacts
<1>5. /\ c \in initList[t] /\ ~ Occurs(c, finishing)
      /\ \A d \in Classes : ~ Occurs(c, pending[d])
      /\ \A j \in Activations(t) : stack[t][j].at = "body" /\ stack[t][j].cls = c => j = 1
    BY <1>2 DEF BodiesAreOwn
<1>6. s \in initList[t]
    BY <1>1, <1>2, <1>5, <1>b DEF ContiguousSubtree
<1>7. pending \in [Classes -> Seq(Classes)] /\ pending' \in [Classes -> Seq(Classes)]
    BY <1>1, <1>2, <1>3 DEF TypeOK
<1>8. pending'[s] = <<c>> \o pending[s] /\ \A d \in Classes \ {s} : pending'[d] = pending[d]
    BY <1>1, <1>3, <1>7
<1>9. /\ Len(pending'[s]) = Len(pending[s]) + 1 /\ Len(pending[s]) \in Nat
      /\ pending'[s][1] = c
      /\ \A i \in 1..Len(pending[s]) : pending'[s][i + 1] = pending[s][i]
      /\ \A i \in 2..Len(pending[s]) + 1 : /\ i - 1 \in 1..Len(pending[s])
                                           /\ pending'[s][i] = pending[s][i - 1]
  <2>1. <<c>> \in Seq(Classes) /\ pending[s] \in Seq(Classes)
    BY <1>2, <1>3, <1>7
  <2>2. Len(<<c>>) = 1 /\ <<c>>[1] = c /\ Len(pending[s]) \in Nat
    BY <2>1, LenProperties
  <2>3. /\ Len(pending'[s]) = Len(<<c>>) + Len(pending[s])
        /\ \A i \in 1..Len(<<c>>) + Len(pending[s]) :
              pending'[s][i] = IF i <= Len(<<c>>) THEN <<c>>[i] ELSE pending[s][i - Len(<<c>>)]
    BY <1>8, <2>1, ConcatProperties
  <2>4. \A i \in 1..Len(pending[s]) : pending'[s][i + 1] = pending[s][i]
    <3> SUFFICES ASSUME NEW i \in 1..Len(pending[s])
                 PROVE  pending'[s][i + 1] = pending[s][i]
      OBVIOUS
    <3>1. i + 1 \in 1..1 + Len(pending[s]) /\ ~(i + 1 <= 1) /\ (i + 1) - 1 = i
      BY <2>2
    <3>2. pending'[s][i + 1] = pending[s][(i + 1) - 1]
      BY <2>2, <2>3, <3>1
    <3>3. QED
      BY <3>1, <3>2
  <2>5. QED
    BY <2>2, <2>3, <2>4
<1>10. /\ \A d \in Classes \ {s} : \A e : Occurs(e, pending[d])' = Occurs(e, pending[d])
       /\ \A e : Occurs(e, pending[s])' <=> e = c \/ Occurs(e, pending[s])
  <2>1. \A d \in Classes \ {s} : \A e : Occurs(e, pending[d])' = Occurs(e, pending[d])
    BY <1>8 DEF Occurs
  <2>2. ASSUME NEW e, e = c \/ Occurs(e, pending[s])
        PROVE  Occurs(e, pending[s])'
    <3>1. CASE e = c
      BY <1>9, <3>1 DEF Occurs
    <3>2. CASE e # c
      <4>1. PICK i \in 1..Len(pending[s]) : pending[s][i] = e
        BY <2>2, <3>2 DEF Occurs
      <4>2. i + 1 \in 1..Len(pending'[s]) /\ pending'[s][i + 1] = e
        BY <1>9, <4>1
      <4>3. QED
        BY <4>2 DEF Occurs
    <3>3. QED
      BY <3>1, <3>2
  <2>3. ASSUME NEW e, Occurs(e, pending[s])', e # c
        PROVE  Occurs(e, pending[s])
    <3>1. PICK i \in 1..Len(pending'[s]) : pending'[s][i] = e
      BY <2>3 DEF Occurs
    <3>2. i # 1
      BY <1>9, <2>3, <3>1
    <3>3. i - 1 \in 1..Len(pending[s]) /\ pending[s][i - 1] = e
      BY <1>9, <3>1, <3>2
    <3>4. QED
      BY <3>3 DEF Occurs
  <2>4. QED
    BY <2>1, <2>2, <2>3
<1>11. \A d \in Classes : NoneTwice(pending[d])'
  <2>1. \A d \in Classes : NoneTwice(pending[d])
    BY DEF PendingIsOwn
  <2>2. \A d \in Classes \ {s} : NoneTwice(pending[d])'
    BY <1>8, <2>1 DEF NoneTwice
  <2>3. NoneTwice(pending[s])'
    <3> SUFFICES ASSUME NEW j \in 1..Len(pending'[s]), NEW k \in 1..Len(pending'[s]),
                        pending'[s][j] = pending'[s][k]
                 PROVE  j = k
      BY DEF NoneTwice
    <3>1. \A i \in 1..Len(pending[s]) : pending[s][i] # c
      BY <1>3, <1>5 DEF Occurs
    <3>2. \A i \in 1..Len(pending'[s]) : i # 1 => pending'[s][i] # c
      <4> SUFFICES ASSUME NEW i \in 1..Len(pending'[s]), i # 1
                   PROVE  pending'[s][i] # c
        OBVIOUS
      <4>1. i \in 2..Len(pending[s]) + 1
        BY <1>9
      <4>2. QED
        BY <1>9, <3>1, <4>1
    <3>3. CASE j = 1 \/ k = 1
      BY <1>9, <3>2, <3>3
    <3>4. CASE j # 1 /\ k # 1
      <4>1. j - 1 \in 1..Len(pending[s]) /\ k - 1 \in 1..Len(pending[s])
        BY <1>9, <3>4
      <4>2. pending[s][j - 1] = pending[s][k - 1]
        BY <1>9, <3>4
      <4>3. j - 1 = k - 1
        BY <1>3, <2>1, <4>1, <4>2 DEF NoneTwice
      <4>4. QED
        BY <4>3
    <3>5. QED
      BY <3>3, <3>4
  <2>4. QED
    BY <2>2, <2>3
<1>12. \A d : Occurs(d, finishing)' = Occurs(d, finishing)
    BY <1>1 DEF Occurs
<1>13. \A d : SuperReady(d)' = SuperReady(d)
    BY <1>1 DEF SuperReady
<1>14. TypeOK'
    BY <1>1, <1>4, <1>7 DEF TypeOK
<1>15. ListsAreExact' /\ OthersAreSuspended' /\ SuperclassFirst' /\ ContiguousSubtree'
    BY <1>1, GotoKeeps
<1>16. BodiesAreOwn'
  <2>1. \A u \in Threads : \A i \in Activations(u) : stack'[u][i].at = "body" =>
            ~(u = t /\ i = 1) /\ stack[u][i].at = "body" /\ stack[u][i].cls # c
    BY <1>2, <1>4, <1>5 DEF BodiesAreOwn, ListsAreExact
  <2>2. \A u \in Threads : \A i \in Activations(u) : stack'[u][i].at = "body" =>
            /\ ~ Occurs(stack[u][i].cls, finishing')
            /\ \A d \in Classes : ~ Occurs(stack[u][i].cls, pending'[d])
    BY <1>1, <1>10, <1>12, <2>1 DEF BodiesAreOwn
  <2>3. QED
    BY <1>1, <1>4, <2>1, <2>2, BodiesKept DEF BodiesAreOwn
<1>17. PendingIsOwn'
  <2>1. QED
    BY <1>1, <1>3, <1>5, <1>6, <1>10, <1>11, <1>12, <1>b DEF PendingIsOwn
<1>18. FinishingIsOwn'
  <2>1. \A u \in Threads : ~ At(u, "finish") /\ ~ At(u, "finish")' /\ monitor # u
    <3>1. \A u \in Threads : monitor # u
      BY <1>1, InitializeAssumption DEF InitializeAssumption
    <3>2. QED
      BY <1>4, <3>1 DEF FinishingIsOwn
  <2>2. NoneTwice(finishing)' = NoneTwice(finishing)
    BY <1>1 DEF NoneTwice
  <2>3. QED
    BY <1>1, <1>12, <1>13, <2>1, <2>2 DEF FinishingIsOwn
<1>19. Known' /\ NeverFatal' /\ OthersWait'
  <2>1. \A u \in Threads \ {t} :
            /\ \A v : At(u, v)' <=> At(u, v)
            /\ Cls(u)' = Cls(u)
    BY <1>4
  <2>2. Known'
    BY <1>1, <1>4, <1>5, <2>1 DEF Known
  <2>3. NeverFatal'
    BY <1>1, <1>4, <1>5, <2>1 DEF NeverFatal
  <2>4. OthersWait'
    BY <1>1, <1>4, <1>5, <2>1 DEF OthersWait
  <2>5. QED
    BY <2>2, <2>3, <2>4
<1>20. SleepersAreWoken'
    BY <1>1, <1>4 DEF SleepersAreWoken
<1>21. QED
    BY <1>14, <1>15, <1>16, <1>17, <1>18, <1>19, <1>20

\* The lock is let go.
LEMMA EndFinishIInv ==
    ASSUME IInv, NEW t \in Threads, EndFinish(t)
    PROVE  IInv'
<1> USE DEF IInv
<1>1. /\ stack[t] # <<>> /\ At(t, "finish") /\ Head(stack[t]).at = "finish"
      /\ finishing = <<>> /\ monitor' = None
      /\ Goto(t, "return") /\ "return" \in Location \ {"claim"}
      /\ UNCHANGED <<initializing, initialized, initList, pending, finishing, messages>>
    BY DEF EndFinish, At, Location
<1>2. /\ stack' \in [Threads -> Seq(Frame)]
      /\ \A u \in Threads : Activations(u)' = Activations(u)
      /\ \A u \in Threads : \A i \in Activations(u) :
            /\ stack'[u][i].cls = stack[u][i].cls
            /\ ~(u = t /\ i = 1) => stack'[u][i] = stack[u][i]
      /\ stack'[t][1].at = "return"
      /\ \A u \in Threads \ {t} : \A v : At(u, v)' = At(u, v) /\ Cls(u)' = Cls(u)
      /\ \A v : At(t, v)' <=> v = "return"
      /\ Cls(t)' = Cls(t)
    BY <1>1, GotoFacts
<1>3. monitor = t
    BY <1>1 DEF FinishingIsOwn
<1>4. /\ \A d : Occurs(d, finishing)' = Occurs(d, finishing)
      /\ \A d : \A s \in Classes : Occurs(d, pending[s])' = Occurs(d, pending[s])
    BY <1>1 DEF Occurs
<1>5. TypeOK'
    BY <1>1, <1>2 DEF TypeOK
<1>6. ListsAreExact' /\ OthersAreSuspended' /\ SuperclassFirst' /\ ContiguousSubtree'
    BY <1>1, GotoKeeps
<1>7. BodiesAreOwn'
  <2>1. \A u \in Threads : \A i \in Activations(u) : stack'[u][i].at = "body" => stack[u][i].at = "body"
    BY <1>2
  <2>2. \A u \in Threads : \A i \in Activations(u) : stack'[u][i].at = "body" =>
            /\ stack[u][i].cls \in initList'[u]
            /\ ~ Occurs(stack[u][i].cls, finishing')
            /\ \A s \in Classes : ~ Occurs(stack[u][i].cls, pending'[s])
    BY <1>1, <2>1 DEF BodiesAreOwn
  <2>3. QED
    BY <1>2, <2>1, <2>2, BodiesKept
<1>8. PendingIsOwn'
    BY <1>1 DEF PendingIsOwn, Occurs, NoneTwice
<1>9. FinishingIsOwn'
  <2>1. \A u \in Threads : ~ At(u, "finish")' /\ monitor' # u
    BY <1>1, <1>2, <1>3, InitializeAssumption DEF FinishingIsOwn, InitializeAssumption
  <2>2. finishing' = <<>>
    BY <1>1
  <2>3. QED
    BY <2>1, <2>2 DEF FinishingIsOwn, Occurs, NoneTwice
<1>10. Cls(t) \in initialized \cup initList[t]
    BY <1>1 DEF Known
<1>11. \A u \in Threads \ {t} : /\ \A v : At(u, v)' <=> At(u, v)
                               /\ Cls(u)' = Cls(u)
    BY <1>2
<1>12. Known'
    BY <1>1, <1>2, <1>11 DEF Known
<1>13. NeverFatal'
    BY <1>2, <1>11 DEF NeverFatal
<1>14. OthersWait'
    BY <1>1, <1>2, <1>10, <1>11 DEF OthersWait
<1>15. SleepersAreWoken'
    BY <1>1, <1>2 DEF SleepersAreWoken
<1>16. QED
    BY <1>5, <1>6, <1>7, <1>8, <1>9, <1>12, <1>13, <1>14, <1>15

\* An activation ends and the one below it goes on.
LEMMA ReturnIInv ==
    ASSUME IInv, NEW t \in Threads, Return(t)
    PROVE  IInv'
<1> USE DEF IInv
<1>1. /\ stack[t] # <<>> /\ At(t, "return")
      /\ stack' = [stack EXCEPT ![t] = Tail(@)]
      /\ UNCHANGED <<initializing, initialized, initList, pending, monitor, finishing, messages>>
    BY DEF Return, At
<1>2. stack \in [Threads -> Seq(Frame)]
    BY DEF TypeOK
<1>3. stack'[t] = Tail(stack[t]) /\ \A u \in Threads \ {t} : stack'[u] = stack[u]
    BY <1>1, <1>2
<1>4. /\ stack'[t] \in Seq(Frame) /\ Len(stack'[t]) = Len(stack[t]) - 1 /\ Len(stack[t]) \in Nat \ {0}
      /\ stack'[t] # <<>> => Head(stack'[t]) = stack[t][2] /\ Len(stack[t]) > 1
      /\ \A i \in 1..Len(stack[t]) - 1 : stack'[t][i] = stack[t][i + 1]
    BY <1>1, <1>2, <1>3, PopTop
<1>5. TypeOK'
  <2>1. DOMAIN stack' = Threads /\ stack' = [u \in Threads |-> stack'[u]]
    BY <1>1, <1>2
  <2>2. stack' \in [Threads -> Seq(Frame)]
    BY <1>2, <1>3, <1>4, <2>1
  <2>3. QED
    BY <1>1, <2>2 DEF TypeOK
<1>6. /\ \A u \in Threads \ {t} : Activations(u)' = Activations(u)
      /\ \A i \in Activations(t)' : /\ i + 1 \in Activations(t) /\ i + 1 > 1
                                    /\ stack'[t][i] = stack[t][i + 1]
                                    /\ i > 1 => i - 1 \in Activations(t)' /\ (i - 1) + 1 = (i + 1) - 1
                                    /\ i = 1 => (i + 1) - 1 = 1
  <2>1. \A u \in Threads \ {t} : Activations(u)' = Activations(u)
    BY <1>3 DEF Activations
  <2>2. \A i \in Activations(t)' : i \in 1..Len(stack[t]) - 1
    BY <1>4 DEF Activations
  <2>3. QED
    BY <1>4, <2>1, <2>2 DEF Activations
<1>7. \A u \in Threads \ {t} : /\ \A v : At(u, v)' <=> At(u, v)
                               /\ Cls(u)' = Cls(u)
    BY <1>3 DEF At, Cls
<1>8. \A v : At(t, v)' => v \in {"claim", "body"}
  <2> SUFFICES ASSUME NEW v, At(t, v)'
               PROVE  v \in {"claim", "body"}
    OBVIOUS
  <2>1. stack'[t] # <<>> /\ Head(stack'[t]).at = v
    BY DEF At
  <2>2. stack[t][2].at = v /\ Len(stack[t]) > 1
    BY <1>4, <2>1
  <2>3. 2 \in Activations(t) /\ 2 > 1
    BY <1>4, <2>2 DEF Activations
  <2>4. QED
    BY <2>2, <2>3 DEF OthersAreSuspended
<1>9. ~ At(t, "finish")
    BY <1>1 DEF At
<1>10. \A d : SuperReady(d)' = SuperReady(d)
    BY <1>1 DEF SuperReady
<1>11. Cls(t) = stack[t][1].cls /\ (Cls(t) \in initialized \/ Cls(t) \in initList[t])
    BY <1>1, TopOf DEF OthersWait
<1>12. OthersAreSuspended'
  <2> SUFFICES ASSUME NEW u \in Threads, NEW i \in Activations(u)', i > 1
               PROVE  stack'[u][i].at \in {"claim", "body"}
    BY DEF OthersAreSuspended
  <2>1. CASE u # t
    BY <1>3, <1>6, <2>1 DEF OthersAreSuspended
  <2>2. CASE u = t
    BY <1>6, <2>2 DEF OthersAreSuspended
  <2>3. QED
    BY <2>1, <2>2
<1>13. SuperclassFirst'
  <2> SUFFICES ASSUME NEW u \in Threads, NEW i \in Activations(u)', stack'[u][i].at = "claim"
               PROVE  \/ SuperReady(stack'[u][i].cls)
                      \/ Super[stack'[u][i].cls] \in initList[u]
                      \/ i > 1 /\ stack'[u][i - 1].cls = Super[stack'[u][i].cls]
    BY <1>1, <1>10 DEF SuperclassFirst
  <2>1. CASE u # t
    BY <1>3, <1>6, <2>1 DEF SuperclassFirst
  <2>2. CASE u = t
    <3>1. /\ i + 1 \in Activations(t) /\ i + 1 > 1 /\ stack'[t][i] = stack[t][i + 1]
          /\ stack[t][i + 1].at = "claim"
      BY <1>6, <2>2
    <3>2. \/ SuperReady(stack[t][i + 1].cls)
          \/ Super[stack[t][i + 1].cls] \in initList[t]
          \/ stack[t][(i + 1) - 1].cls = Super[stack[t][i + 1].cls]
      BY <3>1 DEF SuperclassFirst
    <3>3. CASE i = 1
      <4>1. (i + 1) - 1 = 1
        BY <3>3
      <4>2. stack[t][1].cls = Super[stack[t][i + 1].cls] =>
                SuperReady(stack[t][i + 1].cls) \/ Super[stack[t][i + 1].cls] \in initList[t]
        BY <1>11 DEF SuperReady
      <4>3. QED
        BY <2>2, <3>1, <3>2, <4>1, <4>2
    <3>4. CASE i # 1
      <4>1. i > 1
        BY <1>4, <2>2, <3>4 DEF Activations
      <4>2. stack'[t][i - 1] = stack[t][(i + 1) - 1]
        BY <1>6, <2>2, <4>1
      <4>3. QED
        BY <2>2, <3>1, <3>2, <4>1, <4>2
    <3>5. QED
      BY <3>3, <3>4
  <2>3. QED
    BY <2>1, <2>2
<1>14. BodiesAreOwn'
  <2>1. /\ \A d : Occurs(d, finishing)' = Occurs(d, finishing)
        /\ \A d : \A s \in Classes : Occurs(d, pending[s])' = Occurs(d, pending[s])
    BY <1>1 DEF Occurs
  <2> SUFFICES ASSUME NEW u \in Threads, NEW i \in Activations(u)', stack'[u][i].at = "body"
               PROVE  /\ stack'[u][i].cls \in initList[u]
                      /\ ~ Occurs(stack'[u][i].cls, finishing)
                      /\ \A s \in Classes : ~ Occurs(stack'[u][i].cls, pending[s])
                      /\ \A j \in Activations(u)' :
                            stack'[u][j].at = "body" /\ stack'[u][j].cls = stack'[u][i].cls => i = j
    BY <1>1, <2>1 DEF BodiesAreOwn
  <2>2. CASE u # t
    BY <1>3, <1>6, <2>2 DEF BodiesAreOwn
  <2>3. CASE u = t
    <3>1. i + 1 \in Activations(t) /\ stack'[t][i] = stack[t][i + 1] /\ stack[t][i + 1].at = "body"
      BY <1>6, <2>3
    <3>2. /\ stack[t][i + 1].cls \in initList[t]
          /\ ~ Occurs(stack[t][i + 1].cls, finishing)
          /\ \A s \in Classes : ~ Occurs(stack[t][i + 1].cls, pending[s])
      BY <3>1 DEF BodiesAreOwn
    <3>3. ASSUME NEW j \in Activations(t)', stack'[t][j].at = "body",
                 stack'[t][j].cls = stack'[t][i].cls
          PROVE  i = j
      <4>1. j + 1 \in Activations(t) /\ stack'[t][j] = stack[t][j + 1] /\ stack[t][j + 1].at = "body"
        BY <1>6, <3>3
      <4>2. i + 1 = j + 1
        BY <3>1, <3>3, <4>1 DEF BodiesAreOwn
      <4>3. i \in Int /\ j \in Int
        BY <1>4, <2>3 DEF Activations
      <4>4. QED
        BY <4>2, <4>3
    <3>4. QED
      BY <2>3, <3>1, <3>2, <3>3
  <2>4. QED
    BY <2>2, <2>3
<1>15. ListsAreExact'
    BY <1>1 DEF ListsAreExact
<1>16. PendingIsOwn'
    BY <1>1 DEF PendingIsOwn, Occurs, NoneTwice
<1>17. FinishingIsOwn'
  <2>1. \A u \in Threads : At(u, "finish")' <=> At(u, "finish")
    BY <1>7, <1>8, <1>9
  <2>2. QED
    BY <1>1, <1>10, <2>1 DEF FinishingIsOwn, Occurs, NoneTwice
<1>18. ContiguousSubtree'
    BY <1>1, <1>10 DEF ContiguousSubtree
<1>19. Known'
    BY <1>1, <1>7, <1>8 DEF Known
<1>20. NeverFatal'
    BY <1>7, <1>8 DEF NeverFatal
<1>21. OthersWait'
    BY <1>1, <1>7, <1>8 DEF OthersWait
<1>22. SleepersAreWoken'
    BY <1>1, <1>7, <1>8 DEF SleepersAreWoken
<1>23. QED
    BY <1>5, <1>12, <1>13, <1>14, <1>15, <1>16, <1>17, <1>18, <1>19, <1>20, <1>21, <1>22

\* What is in a sequence without its first element, and in two put together.
LEMMA OccursTail ==
    ASSUME NEW S, NEW f \in Seq(S), f # <<>>, NoneTwice(f)
    PROVE  /\ NoneTwice(Tail(f)) /\ Occurs(Head(f), f)
           /\ \A d : Occurs(d, Tail(f)) <=> Occurs(d, f) /\ d # Head(f)
<1>1. /\ Len(Tail(f)) = Len(f) - 1 /\ Len(f) \in Nat \ {0} /\ Head(f) = f[1]
      /\ \A i \in 1..Len(f) - 1 : Tail(f)[i] = f[i + 1]
    BY HeadTailProperties, EmptySeq
<1>2. \A i \in 1..Len(Tail(f)) : i + 1 \in 1..Len(f) /\ i + 1 # 1 /\ Tail(f)[i] = f[i + 1]
    BY <1>1
<1>3. NoneTwice(Tail(f))
  <2> SUFFICES ASSUME NEW j \in 1..Len(Tail(f)), NEW k \in 1..Len(Tail(f)), Tail(f)[j] = Tail(f)[k]
               PROVE  j = k
    BY DEF NoneTwice
  <2>1. j + 1 = k + 1
    BY <1>2 DEF NoneTwice
  <2>2. QED
    BY <2>1
<1>4. Occurs(Head(f), f)
    BY <1>1 DEF Occurs
<1>5. ASSUME NEW d, Occurs(d, Tail(f))
      PROVE  Occurs(d, f) /\ d # Head(f)
  <2>1. PICK i \in 1..Len(Tail(f)) : Tail(f)[i] = d
    BY <1>5 DEF Occurs
  <2>2. i + 1 \in 1..Len(f) /\ i + 1 # 1 /\ f[i + 1] = d
    BY <1>2, <2>1
  <2>3. 1 \in 1..Len(f)
    BY <1>1
  <2>4. QED
    BY <1>1, <2>2, <2>3 DEF Occurs, NoneTwice
<1>6. ASSUME NEW d, Occurs(d, f), d # Head(f)
      PROVE  Occurs(d, Tail(f))
  <2>1. PICK i \in 1..Len(f) : f[i] = d
    BY <1>6 DEF Occurs
  <2>2. i # 1
    BY <1>1, <1>6, <2>1
  <2>3. i - 1 \in 1..Len(Tail(f)) /\ (i - 1) + 1 = i
    BY <1>1, <2>2
  <2>4. Tail(f)[i - 1] = d
    BY <1>2, <2>1, <2>3
  <2>5. QED
    BY <2>3, <2>4 DEF Occurs
<1>7. QED
    BY <1>3, <1>4, <1>5, <1>6

LEMMA OccursConcat ==
    ASSUME NEW S, NEW p \in Seq(S), NEW q \in Seq(S)
    PROVE  /\ \A d : Occurs(d, p \o q) <=> Occurs(d, p) \/ Occurs(d, q)
           /\ NoneTwice(p) /\ NoneTwice(q) /\ (\A d : ~(Occurs(d, p) /\ Occurs(d, q)))
                => NoneTwice(p \o q)
<1> DEFINE r == p \o q
<1>1. /\ Len(p) \in Nat /\ Len(q) \in Nat /\ Len(r) = Len(p) + Len(q)
      /\ \A i \in 1..Len(p) + Len(q) : r[i] = IF i <= Len(p) THEN p[i] ELSE q[i - Len(p)]
    BY ConcatProperties, LenProperties
<1> HIDE DEF r
<1>2. \A i \in 1..Len(r) : \/ i \in 1..Len(p) /\ r[i] = p[i]
                           \/ i - Len(p) \in 1..Len(q) /\ r[i] = q[i - Len(p)]
    BY <1>1
<1>3. ASSUME NEW d, Occurs(d, r)
      PROVE  Occurs(d, p) \/ Occurs(d, q)
    BY <1>2, <1>3 DEF Occurs
<1>4. ASSUME NEW d, Occurs(d, p)
      PROVE  Occurs(d, r)
  <2>1. PICK i \in 1..Len(p) : p[i] = d
    BY <1>4 DEF Occurs
  <2>2. i \in 1..Len(r) /\ r[i] = d
    BY <1>1, <2>1
  <2>3. QED
    BY <2>2 DEF Occurs
<1>5. ASSUME NEW d, Occurs(d, q)
      PROVE  Occurs(d, r)
  <2>1. PICK i \in 1..Len(q) : q[i] = d
    BY <1>5 DEF Occurs
  <2>2. i + Len(p) \in 1..Len(p) + Len(q) /\ ~(i + Len(p) <= Len(p)) /\ (i + Len(p)) - Len(p) = i
    BY <1>1, <2>1
  <2>3. r[i + Len(p)] = q[(i + Len(p)) - Len(p)] /\ i + Len(p) \in 1..Len(r)
    BY <1>1, <2>2
  <2>4. r[i + Len(p)] = d
    BY <2>1, <2>2, <2>3
  <2>5. QED
    BY <2>3, <2>4 DEF Occurs
<1>6. ASSUME NoneTwice(p), NoneTwice(q), \A d : ~(Occurs(d, p) /\ Occurs(d, q))
      PROVE  NoneTwice(r)
  <2> SUFFICES ASSUME NEW j \in 1..Len(r), NEW k \in 1..Len(r), r[j] = r[k]
               PROVE  j = k
    BY DEF NoneTwice
  <2>1. CASE j \in 1..Len(p) /\ r[j] = p[j] /\ k \in 1..Len(p) /\ r[k] = p[k]
    BY <1>6, <2>1 DEF NoneTwice
  <2>2. CASE /\ j - Len(p) \in 1..Len(q) /\ r[j] = q[j - Len(p)]
             /\ k - Len(p) \in 1..Len(q) /\ r[k] = q[k - Len(p)]
    <3>1. j - Len(p) = k - Len(p)
      BY <1>6, <2>2 DEF NoneTwice
    <3>2. QED
      BY <1>1, <3>1
  <2>3. CASE j \in 1..Len(p) /\ r[j] = p[j] /\ k - Len(p) \in 1..Len(q) /\ r[k] = q[k - Len(p)]
    BY <1>6, <2>3 DEF Occurs
  <2>4. CASE k \in 1..Len(p) /\ r[k] = p[k] /\ j - Len(p) \in 1..Len(q) /\ r[j] = q[j - Len(p)]
    BY <1>6, <2>4 DEF Occurs
  <2>5. QED
    BY <1>2, <2>1, <2>2, <2>3, <2>4
<1>7. QED
    BY <1>3, <1>4, <1>5, <1>6 DEF r

\* What NotifyAll does: the sleepers are to take the lock again.
LEMMA NotifyFacts ==
    ASSUME TypeOK, NEW t \in Threads, At(t, "finish"), NotifyAll(t, "finish")
    PROVE  /\ stack' \in [Threads -> Seq(Frame)]
           /\ \A u \in Threads : Activations(u)' = Activations(u)
           /\ \A u \in Threads : \A i \in Activations(u) :
                 /\ stack'[u][i].cls = stack[u][i].cls
                 /\ i > 1 => stack'[u][i] = stack[u][i]
                 /\ stack'[u][i].at \in {"claim", "body"} => stack'[u][i].at = stack[u][i].at
           /\ \A u \in Threads :
                 /\ stack[u] # <<>> => Cls(u)' = Cls(u)
                 /\ \A v : At(u, v)' => stack[u] # <<>>
                 /\ ~ At(u, "asleep")'
                 /\ At(u, "wait")' => At(u, "wait") \/ At(u, "asleep")
                 /\ \A v : v \notin {"wait", "asleep"} => (At(u, v)' <=> At(u, v))
<1>1. stack \in [Threads -> Seq(Frame)] /\ DOMAIN stack' = Threads
    BY DEF TypeOK, NotifyAll
<1>2. stack[t] # <<>> /\ Head(stack[t]).at = "finish"
    BY DEF At
<1>3. ASSUME NEW u \in Threads
      PROVE  /\ stack'[u] \in Seq(Frame)
             /\ Activations(u)' = Activations(u)
             /\ \A i \in Activations(u) :
                   /\ stack'[u][i].cls = stack[u][i].cls
                   /\ i > 1 => stack'[u][i] = stack[u][i]
                   /\ stack'[u][i].at \in {"claim", "body"} => stack'[u][i].at = stack[u][i].at
             /\ stack[u] # <<>> => Cls(u)' = Cls(u)
             /\ \A v : At(u, v)' => stack[u] # <<>>
             /\ ~ At(u, "asleep")'
             /\ At(u, "wait")' => At(u, "wait") \/ At(u, "asleep")
             /\ \A v : v \notin {"wait", "asleep"} => (At(u, v)' <=> At(u, v))
  <2>1. CASE u # t /\ ~ At(u, "asleep")
    <3>1. stack'[u] = stack[u]
      BY <2>1 DEF NotifyAll
    <3>2. \A v : At(u, v)' <=> At(u, v)
      BY <3>1 DEF At
    <3>3. QED
      BY <1>1, <2>1, <3>1, <3>2 DEF Activations, At, Cls
  <2>2. CASE u = t \/ At(u, "asleep")
    <3>1. PICK w : w = IF u = t THEN "finish" ELSE "wait"
      OBVIOUS
    <3>2. PICK f : f = [Head(stack[u]) EXCEPT !.at = w]
      OBVIOUS
    <3>3. stack[u] # <<>> /\ stack[u] \in Seq(Frame) /\ stack'[u] = <<f>> \o Tail(stack[u])
      BY <1>1, <1>2, <2>2, <3>1, <3>2 DEF NotifyAll, At
    <3>4. Head(stack[u]) \in Frame /\ w \in Location
      BY <3>1, <3>3, HeadTailProperties DEF Location
    <3>5. f \in Frame /\ f.at = w /\ f.cls = Head(stack[u]).cls
      BY <3>2, <3>4 DEF Frame
    <3>6. /\ stack'[u] \in Seq(Frame) /\ stack'[u] # <<>> /\ Len(stack'[u]) = Len(stack[u])
          /\ Len(stack[u]) \in Nat \ {0}
          /\ stack'[u][1] = f /\ Head(stack'[u]) = f /\ Head(stack[u]) = stack[u][1]
          /\ \A i \in 2..Len(stack[u]) : stack'[u][i] = stack[u][i]
      BY <3>3, <3>5, ReplaceTop
    <3>7. Activations(u)' = Activations(u)
      BY <3>6 DEF Activations
    <3>8. \A i \in Activations(u) :
              /\ i > 1 => stack'[u][i] = stack[u][i]
              /\ i = 1 => stack'[u][i] = f
      BY <3>6 DEF Activations
    <3>9. \A i \in Activations(u) : i > 1 \/ i = 1
      BY <3>6 DEF Activations
    <3>10. w \notin {"claim", "body", "asleep"}
      BY <3>1
    <3>11. \A i \in Activations(u) :
              /\ stack'[u][i].cls = stack[u][i].cls
              /\ stack'[u][i].at \in {"claim", "body"} => stack'[u][i].at = stack[u][i].at
      BY <3>5, <3>6, <3>8, <3>9, <3>10
    <3>12. Cls(u)' = Cls(u)
      BY <3>5, <3>6 DEF Cls
    <3>13. \A v : At(u, v)' <=> v = w
      BY <3>5, <3>6 DEF At
    <3>14. At(u, "wait")' => At(u, "asleep")
      BY <2>2, <3>1, <3>13
    <3>15. \A v : v \notin {"wait", "asleep"} => (At(u, v)' <=> At(u, v))
      <4>1. CASE u = t
        BY <1>2, <3>1, <3>13, <4>1 DEF At
      <4>2. CASE u # t
        BY <2>2, <3>1, <3>13, <4>2 DEF At
      <4>3. QED
        BY <4>1, <4>2
    <3>16. QED
      BY <3>3, <3>6, <3>7, <3>8, <3>10, <3>11, <3>12, <3>13, <3>14, <3>15
  <2>3. QED
    BY <2>1, <2>2
<1>4. stack' \in [Threads -> Seq(Frame)]
  <2>1. stack' = [u \in Threads |-> stack'[u]]
    BY DEF NotifyAll
  <2>2. QED
    BY <1>1, <1>3, <2>1
<1>5. QED
    BY <1>3, <1>4

\* A class is marked, and the subclasses that were pending on it are next.
LEMMA FinishIInv ==
    ASSUME IInv, NEW t \in Threads, Finish(t)
    PROVE  IInv'
<1> USE DEF IInv
<1>1. PICK c : c = Head(finishing)
    OBVIOUS
<1>2. /\ At(t, "finish") /\ finishing # <<>> /\ finishing \in Seq(Classes)
      /\ pending \in [Classes -> Seq(Classes)] /\ initList \in [Threads -> SUBSET Classes]
    BY DEF Finish, TypeOK
<1>3. monitor = t /\ NoneTwice(finishing)
    BY <1>2 DEF FinishingIsOwn
<1>4. /\ c \in Classes /\ Tail(finishing) \in Seq(Classes)
      /\ NoneTwice(Tail(finishing)) /\ Occurs(c, finishing)
      /\ \A d : Occurs(d, Tail(finishing)) <=> Occurs(d, finishing) /\ d # c
    BY <1>1, <1>2, <1>3, OccursTail, HeadTailProperties
<1>5. SuperReady(c) /\ c \in initList[t] /\ c \in initializing
    BY <1>3, <1>4 DEF FinishingIsOwn, ListsAreExact
<1>6. /\ initialized' = initialized \cup {c}
      /\ initializing' = initializing \ {c}
      /\ initList' = [initList EXCEPT ![t] = @ \ {c}]
      /\ NotifyAll(t, "finish")
      /\ finishing' = pending[c] \o Tail(finishing)
      /\ pending' = [pending EXCEPT ![c] = <<>>]
      /\ UNCHANGED <<monitor, messages>>
    BY <1>1, <1>5 DEF Finish
<1>7. /\ stack' \in [Threads -> Seq(Frame)]
      /\ \A u \in Threads : Activations(u)' = Activations(u)
      /\ \A u \in Threads : \A i \in Activations(u) :
            /\ stack'[u][i].cls = stack[u][i].cls
            /\ i > 1 => stack'[u][i] = stack[u][i]
            /\ stack'[u][i].at \in {"claim", "body"} => stack'[u][i].at = stack[u][i].at
      /\ \A u \in Threads :
            /\ stack[u] # <<>> => Cls(u)' = Cls(u)
            /\ \A v : At(u, v)' => stack[u] # <<>>
            /\ ~ At(u, "asleep")'
            /\ At(u, "wait")' => At(u, "wait") \/ At(u, "asleep")
            /\ \A v : v \notin {"wait", "asleep"} => (At(u, v)' <=> At(u, v))
    BY <1>2, <1>6, NotifyFacts
<1>8. /\ initList' \in [Threads -> SUBSET Classes]
      /\ initList'[t] = initList[t] \ {c}
      /\ \A u \in Threads \ {t} : initList'[u] = initList[u] /\ c \notin initList[u]
      /\ \A u \in Threads : \A d : d \in initList'[u] <=> d \in initList[u] /\ d # c
  <2>1. /\ initList' \in [Threads -> SUBSET Classes]
        /\ initList'[t] = initList[t] \ {c}
        /\ \A u \in Threads \ {t} : initList'[u] = initList[u]
    BY <1>2, <1>6
  <2>2. \A u \in Threads \ {t} : c \notin initList[u]
    BY <1>4, <1>5 DEF ListsAreExact
  <2>3. QED
    BY <2>1, <2>2
<1>9. /\ pending' \in [Classes -> Seq(Classes)] /\ pending'[c] = <<>>
      /\ \A s \in Classes \ {c} : pending'[s] = pending[s]
      /\ \A s \in Classes : pending[s] \in Seq(Classes)
    BY <1>2, <1>4, <1>6
<1>10. \A d : Occurs(d, pending[c]) => ~ Occurs(d, finishing) /\ d \in Classes /\ Super[d] = c
  <2>1. ASSUME NEW d, Occurs(d, pending[c])
        PROVE  d \in Classes
    <3>1. PICK j \in 1..Len(pending[c]) : pending[c][j] = d
      BY <2>1 DEF Occurs
    <3>2. QED
      BY <1>4, <1>9, <3>1, ElementOfSeq
  <2>2. QED
    BY <1>4, <2>1 DEF PendingIsOwn
<1>11. /\ finishing' \in Seq(Classes) /\ NoneTwice(finishing')
       /\ \A d : Occurs(d, finishing') <=> Occurs(d, pending[c]) \/ (Occurs(d, finishing) /\ d # c)
  <2>1. NoneTwice(pending[c])
    BY <1>4 DEF PendingIsOwn
  <2>2. \A d : ~(Occurs(d, pending[c]) /\ Occurs(d, Tail(finishing)))
    BY <1>4, <1>10
  <2>3. finishing' \in Seq(Classes)
    BY <1>4, <1>6, <1>9, ConcatProperties
  <2>4. QED
    BY <1>4, <1>6, <1>9, <2>1, <2>2, <2>3, OccursConcat
<1>12. \A d : ~ Occurs(d, <<>>)
    BY DEF Occurs
<1>13. /\ \A d : SuperReady(d) => SuperReady(d)'
       /\ \A d : Super[d] = c => SuperReady(d)'
    BY <1>6 DEF SuperReady
<1>14. TypeOK'
    BY <1>4, <1>6, <1>7, <1>8, <1>9, <1>11 DEF TypeOK
<1>15. ListsAreExact'
  <2>1. initializing' \cap initialized' = {}
    BY <1>6 DEF ListsAreExact
  <2>2. \A d \in Classes : d \in initializing' <=> \E u \in Threads : d \in initList'[u]
    BY <1>6, <1>8 DEF ListsAreExact
  <2>3. \A u, v \in Threads : \A d \in Classes : d \in initList'[u] /\ d \in initList'[v] => u = v
    BY <1>8 DEF ListsAreExact
  <2>4. QED
    BY <2>1, <2>2, <2>3 DEF ListsAreExact
<1>16. OthersAreSuspended'
    BY <1>7 DEF OthersAreSuspended
<1>17. SuperclassFirst'
  <2> SUFFICES ASSUME NEW u \in Threads, NEW i \in Activations(u), stack'[u][i].at = "claim"
               PROVE  \/ SuperReady(stack[u][i].cls)'
                      \/ Super[stack[u][i].cls] \in initList'[u]
                      \/ i > 1 /\ stack'[u][i - 1].cls = Super[stack[u][i].cls]
    BY <1>6, <1>7 DEF SuperclassFirst, SuperReady
  <2>1. \/ SuperReady(stack[u][i].cls)
        \/ Super[stack[u][i].cls] \in initList[u]
        \/ i > 1 /\ stack[u][i - 1].cls = Super[stack[u][i].cls]
    BY <1>7 DEF SuperclassFirst
  <2>2. i > 1 => i - 1 \in Activations(u)
    BY TopOf DEF Activations
  <2>3. QED
    BY <1>6, <1>7, <1>8, <2>1, <2>2 DEF SuperReady
<1>18. BodiesAreOwn'
  <2>1. \A u \in Threads : \A i \in Activations(u) : stack'[u][i].at = "body" => stack[u][i].at = "body"
    BY <1>7
  <2>2. \A u \in Threads : \A i \in Activations(u) : stack'[u][i].at = "body" =>
            /\ stack[u][i].cls \in initList[u]
            /\ ~ Occurs(stack[u][i].cls, finishing)
            /\ \A s \in Classes : ~ Occurs(stack[u][i].cls, pending[s])
    BY <2>1 DEF BodiesAreOwn
  <2>3. \A u \in Threads : \A i \in Activations(u) : stack'[u][i].at = "body" =>
            /\ stack[u][i].cls \in initList'[u]
            /\ ~ Occurs(stack[u][i].cls, finishing')
            /\ \A s \in Classes : ~ Occurs(stack[u][i].cls, pending'[s])
    <3> SUFFICES ASSUME NEW u \in Threads, NEW i \in Activations(u), stack'[u][i].at = "body",
                        NEW d, d = stack[u][i].cls
                 PROVE  /\ d \in initList'[u]
                        /\ ~ Occurs(d, finishing')
                        /\ \A s \in Classes : ~ Occurs(d, pending'[s])
      OBVIOUS
    <3>1. d \in initList[u] /\ ~ Occurs(d, finishing) /\ \A s \in Classes : ~ Occurs(d, pending[s])
      BY <2>2
    <3>2. ~ Occurs(d, finishing') /\ d # c
      BY <1>4, <1>11, <3>1
    <3>3. \A s \in Classes : ~ Occurs(d, pending'[s])
      BY <1>9, <1>12, <3>1
    <3>4. QED
      BY <1>8, <3>1, <3>2, <3>3
  <2>4. QED
    BY <1>7, <2>1, <2>3, BodiesKept
<1>19. PendingIsOwn'
  <2> SUFFICES ASSUME NEW s \in Classes
               PROVE  /\ NoneTwice(pending'[s])
                      /\ \A d \in Classes :
                          Occurs(d, pending'[s]) =>
                              /\ Super[d] = s /\ s \notin initialized'
                              /\ ~ Occurs(d, finishing')
                              /\ \E u \in Threads : d \in initList'[u] /\ s \in initList'[u]
    BY DEF PendingIsOwn, Occurs, NoneTwice
  <2>1. CASE s = c
    BY <1>9, <1>12, <2>1 DEF NoneTwice
  <2>2. CASE s # c
    <3>1. pending'[s] = pending[s] /\ NoneTwice(pending[s])
      BY <1>9, <2>2 DEF PendingIsOwn
    <3>2. ASSUME NEW d \in Classes, Occurs(d, pending[s])
          PROVE  /\ Super[d] = s /\ s \notin initialized'
                 /\ ~ Occurs(d, finishing')
                 /\ \E u \in Threads : d \in initList'[u] /\ s \in initList'[u]
      <4>1. /\ Super[d] = s /\ s \notin initialized /\ ~ Occurs(d, finishing)
            /\ \E u \in Threads : d \in initList[u] /\ s \in initList[u]
        BY <3>2 DEF PendingIsOwn
      <4>2. d # c
        BY <1>4, <4>1
      <4>3. QED
        BY <1>6, <1>8, <1>10, <1>11, <2>2, <4>1, <4>2
    <3>3. QED
      BY <3>1, <3>2
  <2>3. QED
    BY <2>1, <2>2
<1>20. FinishingIsOwn'
  <2>1. \A u \in Threads : At(u, "finish")' <=> monitor' = u
    BY <1>6, <1>7 DEF FinishingIsOwn
  <2>2. monitor' = t /\ t # None
    BY <1>3, <1>6, InitializeAssumption DEF InitializeAssumption
  <2>3. ASSUME NEW d \in Classes, Occurs(d, finishing')
        PROVE  SuperReady(d)' /\ d \in initList'[t]
    <3>1. CASE Occurs(d, pending[c])
      <4>1. \E u \in Threads : d \in initList[u] /\ c \in initList[u]
        BY <1>4, <3>1 DEF PendingIsOwn
      <4>2. d \in initList[t]
        BY <1>8, <4>1
      <4>3. d # c
        BY <1>4, <1>10, <3>1
      <4>4. QED
        BY <1>8, <1>10, <1>13, <3>1, <4>2, <4>3
    <3>2. CASE Occurs(d, finishing) /\ d # c
      BY <1>3, <1>8, <1>13, <3>2 DEF FinishingIsOwn
    <3>3. QED
      BY <1>11, <2>3, <3>1, <3>2
  <2>4. NoneTwice(finishing)' /\ \A d : Occurs(d, finishing)' <=> Occurs(d, finishing')
    BY <1>11 DEF NoneTwice, Occurs
  <2>5. QED
    BY <2>1, <2>2, <2>3, <2>4 DEF FinishingIsOwn
<1>21. ContiguousSubtree'
  <2> SUFFICES ASSUME NEW d \in Classes
               PROVE  /\ d \in initialized' => SuperReady(d)'
                      /\ \A u \in Threads :
                          d \in initList'[u] => SuperReady(d)' \/ Super[d] \in initList'[u]
    BY DEF ContiguousSubtree, SuperReady
  <2>1. d \in initialized' => SuperReady(d)'
    BY <1>5, <1>6, <1>13 DEF ContiguousSubtree
  <2>2. \A u \in Threads : d \in initList'[u] => SuperReady(d)' \/ Super[d] \in initList'[u]
    BY <1>8, <1>13 DEF ContiguousSubtree
  <2>3. QED
    BY <2>1, <2>2
<1>22. /\ initializing \cup initialized \subseteq initializing' \cup initialized'
       /\ \A u \in Threads : initialized \cup initList[u] \subseteq initialized' \cup initList'[u]
       /\ \A u \in Threads : initList'[u] \subseteq initList[u]
       /\ initialized \subseteq initialized'
    BY <1>6, <1>8
<1>23. Known'
  <2> SUFFICES ASSUME NEW u \in Threads
               PROVE  /\ At(u, "lost")' => Cls(u)' \in initializing' \cup initialized'
                      /\ At(u, "recheck")' => Cls(u)' \in initialized'
                      /\ At(u, "wait")' => Cls(u)' \in (initializing' \cup initialized') \ initList'[u]
                      /\ At(u, "finish")' => Cls(u)' \in initialized' \cup initList'[u]
    BY <1>7 DEF Known
  <2>1. At(u, "lost")' => Cls(u)' \in initializing' \cup initialized'
    BY <1>7, <1>22 DEF Known
  <2>2. At(u, "recheck")' => Cls(u)' \in initialized'
    BY <1>7, <1>22 DEF Known
  <2>3. At(u, "wait")' => Cls(u)' \in (initializing' \cup initialized') \ initList'[u]
    BY <1>7, <1>22 DEF Known
  <2>4. At(u, "finish")' => Cls(u)' \in initialized' \cup initList'[u]
    BY <1>7, <1>22 DEF Known
  <2>5. QED
    BY <2>1, <2>2, <2>3, <2>4
<1>24. NeverFatal'
    BY <1>7 DEF NeverFatal
<1>25. OthersWait'
  <2> SUFFICES ASSUME NEW u \in Threads, At(u, "return")'
               PROVE  Cls(u)' \in initialized' \cup initList'[u]
    BY DEF OthersWait
  <2>1. At(u, "return") /\ Cls(u)' = Cls(u)
    BY <1>7
  <2>2. QED
    BY <1>22, <2>1 DEF OthersWait
<1>26. SleepersAreWoken'
    BY <1>7 DEF SleepersAreWoken
<1>27. QED
    BY <1>14, <1>15, <1>16, <1>17, <1>18, <1>19, <1>20, <1>21, <1>23, <1>24, <1>25, <1>26

-----------------------------------------------------------------------------
(* The theorems.                                                           *)

LEMMA InitIInv == Init => IInv
<1> SUFFICES ASSUME Init
             PROVE  IInv
    OBVIOUS
<1>1. \A t \in Threads : stack[t] = <<>> /\ Activations(t) = {}
    BY DEF Init, Activations
<1>2. \A t \in Threads : \A v : ~ At(t, v)
    BY <1>1 DEF At
<1>3. TypeOK
    BY DEF Init, TypeOK
<1>4. \A c : ~ Occurs(c, <<>>)
    BY DEF Occurs
<1>5. \A s \in Classes : pending[s] = <<>>
    BY DEF Init
<1>6. NoneTwice(<<>>)
    BY DEF NoneTwice
<1>7. ListsAreExact
    BY DEF Init, ListsAreExact
<1>8. OthersAreSuspended /\ SuperclassFirst /\ BodiesAreOwn
    BY <1>1 DEF OthersAreSuspended, SuperclassFirst, BodiesAreOwn
<1>9. PendingIsOwn
    BY <1>4, <1>5, <1>6 DEF PendingIsOwn
<1>10. FinishingIsOwn
    BY <1>2, <1>4, <1>6, InitializeAssumption DEF Init, FinishingIsOwn, InitializeAssumption
<1>11. Known /\ NeverFatal /\ OthersWait /\ SleepersAreWoken
    BY <1>2 DEF Known, NeverFatal, OthersWait, SleepersAreWoken
<1>12. ContiguousSubtree
    BY DEF Init, ContiguousSubtree
<1>13. QED
    BY <1>3, <1>7, <1>8, <1>9, <1>10, <1>11, <1>12 DEF IInv

LEMMA SendIInv ==
    ASSUME IInv, NEW t \in Threads, NEW c \in Classes, Send(t, c)
    PROVE  IInv'
<1>1. /\ UNCHANGED <<initializing, initialized, initList, pending, monitor, finishing, messages>>
      /\ stack \in [Threads -> Seq(Frame)] /\ stack[t] \in Seq(Frame)
    BY DEF Send, IInv, TypeOK
<1>2. Activation(c) \in Frame
    BY DEF Activation, Frame, Location
<1>3. CASE /\ stack[t] = <<>>
           /\ stack' = [stack EXCEPT ![t] = <<Activation(c)>>]
  <2>1. stack'[t] = <<Activation(c)>> /\ \A u \in Threads \ {t} : stack'[u] = stack[u]
    BY <1>1, <1>3
  <2>2. stack' \in [Threads -> Seq(Frame)]
    BY <1>1, <1>2, <1>3
  <2>3. /\ Len(stack[t]) = 0 /\ Len(stack'[t]) = Len(stack[t]) + 1 /\ stack'[t] # <<>>
        /\ stack'[t][1] = Activation(c) /\ Activations(t) = {}
    BY <1>3, <2>1 DEF Activations
  <2>4. QED
    BY <1>1, <1>3, <2>1, <2>2, <2>3, ActivateIInv
<1>4. CASE /\ At(t, "body") /\ c \in Head(stack[t]).todo
           /\ stack' = [stack EXCEPT ![t] =
                  <<Activation(c), [Head(stack[t]) EXCEPT !.todo = @ \ {c}]>> \o Tail(@)]
  <2>1. PICK f : f = [Head(stack[t]) EXCEPT !.todo = @ \ {c}]
    OBVIOUS
  <2>2. stack[t] # <<>> /\ Head(stack[t]) \in Frame /\ Head(stack[t]).at = "body"
    BY <1>1, <1>4, HeadTailProperties DEF At
  <2>3. f \in Frame /\ f.at = "body" /\ f.cls = Head(stack[t]).cls
    BY <2>1, <2>2 DEF Frame
  <2>4. stack'[t] = <<Activation(c), f>> \o Tail(stack[t]) /\ \A u \in Threads \ {t} : stack'[u] = stack[u]
    <3>1. stack' = [stack EXCEPT ![t] = <<Activation(c), f>> \o Tail(@)]
      BY <1>4, <2>1
    <3>2. QED
      BY <1>1, <3>1
  <2>5. /\ stack'[t] \in Seq(Frame) /\ stack'[t] # <<>> /\ Len(stack'[t]) = Len(stack[t]) + 1
        /\ Len(stack[t]) \in Nat \ {0}
        /\ stack'[t][1] = Activation(c) /\ stack'[t][2] = f /\ Head(stack[t]) = stack[t][1]
        /\ \A i \in 3..Len(stack[t]) + 1 : stack'[t][i] = stack[t][i - 1]
    BY <1>1, <1>2, <2>2, <2>3, <2>4, PushTop
  <2>6. stack' \in [Threads -> Seq(Frame)]
    <3>1. DOMAIN stack' = Threads /\ stack' = [u \in Threads |-> stack'[u]]
      BY <1>1, <1>4
    <3>2. QED
      BY <1>1, <2>4, <2>5, <3>1
  <2>7. \A i \in Activations(t) : i > 1 => stack'[t][i + 1] = stack[t][i]
    <3> SUFFICES ASSUME NEW i \in Activations(t), i > 1
                 PROVE  stack'[t][i + 1] = stack[t][i]
      OBVIOUS
    <3>1. i + 1 \in 3..Len(stack[t]) + 1 /\ (i + 1) - 1 = i
      BY <2>5 DEF Activations
    <3>2. stack'[t][i + 1] = stack[t][(i + 1) - 1]
      BY <2>5, <3>1
    <3>3. QED
      BY <3>1, <3>2
  <2>8. \A i \in Activations(t) : stack'[t][i + 1].cls = stack[t][i].cls
    <3>1. \A i \in Activations(t) : i > 1 \/ (i = 1 /\ i + 1 = 2)
      BY <2>5 DEF Activations
    <3>2. stack'[t][2].cls = stack[t][1].cls
      BY <2>3, <2>5
    <3>3. QED
      BY <2>7, <3>1, <3>2
  <2>9. QED
    BY <1>1, <1>4, <2>3, <2>4, <2>5, <2>6, <2>7, <2>8, ActivateIInv
<1>5. QED
    BY <1>3, <1>4 DEF Send

LEMMA InitializeSuperIInv ==
    ASSUME IInv, NEW t \in Threads, InitializeSuper(t)
    PROVE  IInv'
<1>1. /\ UNCHANGED <<initializing, initialized, initList, pending, monitor, finishing, messages>>
      /\ At(t, "super") /\ ~ At(t, "finish")
      /\ stack[t] # <<>> /\ Head(stack[t]).at = "super"
      /\ stack \in [Threads -> Seq(Frame)] /\ stack[t] \in Seq(Frame)
    BY DEF InitializeSuper, At, IInv, TypeOK
<1>2. Cls(t) \in Classes
    BY <1>1, TopOf DEF IInv
<1>3. CASE SuperReady(Cls(t))
  <2>1. Goto(t, "claim") /\ Allowed(t, "claim")
    BY <1>3 DEF InitializeSuper, Allowed, Location
  <2>2. QED
    BY <1>1, <2>1, GotoIInv
<1>4. CASE ~ SuperReady(Cls(t))
  <2>1. PICK s : s = Super[Cls(t)]
    OBVIOUS
  <2>2. s \in Classes
    BY <1>2, <1>4, <2>1, InitializeAssumption DEF SuperReady, InitializeAssumption
  <2>3. Activation(s) \in Frame
    BY <2>2 DEF Activation, Frame, Location
  <2>4. PICK f : f = [Head(stack[t]) EXCEPT !.at = "claim"]
    OBVIOUS
  <2>5. Head(stack[t]) \in Frame
    BY <1>1, HeadTailProperties
  <2>6. f \in Frame /\ f.at = "claim" /\ f.cls = Head(stack[t]).cls
    BY <2>4, <2>5 DEF Frame, Location
  <2>7. stack' = [stack EXCEPT ![t] = <<Activation(s), f>> \o Tail(@)]
    BY <1>4, <2>1, <2>4 DEF InitializeSuper
  <2>8. stack'[t] = <<Activation(s), f>> \o Tail(stack[t]) /\ \A u \in Threads \ {t} : stack'[u] = stack[u]
    BY <1>1, <2>7
  <2>9. /\ stack'[t] \in Seq(Frame) /\ stack'[t] # <<>> /\ Len(stack'[t]) = Len(stack[t]) + 1
        /\ Len(stack[t]) \in Nat \ {0}
        /\ stack'[t][1] = Activation(s) /\ stack'[t][2] = f /\ Head(stack[t]) = stack[t][1]
        /\ \A i \in 3..Len(stack[t]) + 1 : stack'[t][i] = stack[t][i - 1]
    BY <1>1, <2>3, <2>6, <2>8, PushTop
  <2>10. stack' \in [Threads -> Seq(Frame)]
    <3>1. DOMAIN stack' = Threads /\ stack' = [u \in Threads |-> stack'[u]]
      BY <1>1, <2>7
    <3>2. QED
      BY <1>1, <2>8, <2>9, <3>1
  <2>11. \A i \in Activations(t) : i > 1 => stack'[t][i + 1] = stack[t][i]
    <3> SUFFICES ASSUME NEW i \in Activations(t), i > 1
                 PROVE  stack'[t][i + 1] = stack[t][i]
      OBVIOUS
    <3>1. i + 1 \in 3..Len(stack[t]) + 1 /\ (i + 1) - 1 = i
      BY <2>9 DEF Activations
    <3>2. stack'[t][i + 1] = stack[t][(i + 1) - 1]
      BY <2>9, <3>1
    <3>3. QED
      BY <3>1, <3>2
  <2>12. \A i \in Activations(t) : stack'[t][i + 1].cls = stack[t][i].cls
    <3>1. \A i \in Activations(t) : i > 1 \/ (i = 1 /\ i + 1 = 2)
      BY <2>9 DEF Activations
    <3>2. stack'[t][2].cls = stack[t][1].cls
      BY <2>6, <2>9
    <3>3. QED
      BY <2>11, <3>1, <3>2
  <2>13. QED
    BY <1>1, <2>1, <2>2, <2>6, <2>8, <2>9, <2>10, <2>11, <2>12, ActivateIInv
<1>5. QED
    BY <1>3, <1>4

LEMMA StepIInv == IInv /\ [Next]_vars => IInv'
<1> SUFFICES ASSUME IInv, [Next]_vars
             PROVE  IInv'
    OBVIOUS
<1>1. ASSUME NEW t \in Threads, NEW c \in Classes, Send(t, c)
      PROVE  IInv'
    BY <1>1, SendIInv
<1>2. ASSUME NEW t \in Threads, InitializeSuper(t)
      PROVE  IInv'
    BY <1>2, InitializeSuperIInv
<1>3. ASSUME NEW t \in Threads, Claim(t)
      PROVE  IInv'
  <2>1. CASE Taken(Cls(t))
    <3>1. /\ stack[t] # <<>> /\ ~ At(t, "finish") /\ Goto(t, "lost")
          /\ UNCHANGED <<initializing, initialized, initList, pending, monitor, finishing, messages>>
      BY <1>3, <2>1 DEF Claim, At
    <3>2. Allowed(t, "lost")
      BY <2>1 DEF Allowed, Taken, Location
    <3>3. QED
      BY <3>1, <3>2, GotoIInv
  <2>2. CASE ~ Taken(Cls(t))
    BY <1>3, <2>2, ClaimWonIInv
  <2>3. QED
    BY <2>1, <2>2
<1>4. ASSUME NEW t \in Threads, Lost(t)
      PROVE  IInv'
  <2>1. /\ stack[t] # <<>> /\ ~ At(t, "finish") /\ At(t, "lost")
        /\ UNCHANGED <<initializing, initialized, initList, pending, monitor, finishing, messages>>
    BY <1>4 DEF Lost, At
  <2>2. Cls(t) \in initializing \cup initialized
    BY <2>1 DEF IInv, Known
  <2>3. PICK w \in {"recheck", "return", "wait"} :
            /\ Goto(t, w)
            /\ w = "recheck" => Cls(t) \notin initializing
            /\ w = "return" => Cls(t) \in initList[t]
            /\ w = "wait" => Cls(t) \in initializing \ initList[t]
    BY <1>4 DEF Lost, InitializingHere
  <2>4. Allowed(t, w)
    BY <2>2, <2>3 DEF Allowed, Location
  <2>5. QED
    BY <2>1, <2>3, <2>4, GotoIInv
<1>5. ASSUME NEW t \in Threads, Recheck(t)
      PROVE  IInv'
  <2>1. /\ stack[t] # <<>> /\ ~ At(t, "finish") /\ At(t, "recheck")
        /\ UNCHANGED <<initializing, initialized, initList, pending, monitor, finishing, messages>>
    BY <1>5 DEF Recheck, At
  <2>2. Cls(t) \in initialized
    BY <2>1 DEF IInv, Known
  <2>3. Goto(t, "return") /\ Allowed(t, "return")
    BY <1>5, <2>2 DEF Recheck, Allowed, Location
  <2>4. QED
    BY <2>1, <2>3, GotoIInv
<1>6. ASSUME NEW t \in Threads, Wait(t)
      PROVE  IInv'
  <2>1. /\ stack[t] # <<>> /\ ~ At(t, "finish") /\ At(t, "wait")
        /\ UNCHANGED <<initializing, initialized, initList, pending, monitor, finishing, messages>>
    BY <1>6 DEF Wait, At
  <2>2. Cls(t) \in (initializing \cup initialized) \ initList[t]
    BY <2>1 DEF IInv, Known
  <2>3. PICK w \in {"return", "asleep"} :
            /\ Goto(t, w)
            /\ w = "return" => Cls(t) \in initialized
            /\ w = "asleep" => Cls(t) \notin initialized
    BY <1>6 DEF Wait
  <2>4. Allowed(t, w)
    BY <2>2, <2>3 DEF Allowed, Location
  <2>5. QED
    BY <2>1, <2>3, <2>4, GotoIInv
<1>7. ASSUME NEW t \in Threads, BeginFinish(t) \/ FinishAfter(t) \/ Finish(t) \/ EndFinish(t) \/ Return(t)
      PROVE  IInv'
    BY <1>7, BeginFinishIInv, FinishAfterIInv, FinishIInv, EndFinishIInv, ReturnIInv
<1>8. CASE UNCHANGED vars
  <2> USE <1>8 DEF vars, IInv
  <2>1. TypeOK' /\ ListsAreExact' /\ OthersAreSuspended'
    BY DEF TypeOK, ListsAreExact, OthersAreSuspended, Activations
  <2>2. SuperclassFirst' /\ BodiesAreOwn'
    BY DEF SuperclassFirst, BodiesAreOwn, Activations, SuperReady, Occurs
  <2>3. PendingIsOwn' /\ FinishingIsOwn'
    BY DEF PendingIsOwn, FinishingIsOwn, NoneTwice, Occurs, At, SuperReady
  <2>4. Known' /\ NeverFatal' /\ OthersWait' /\ SleepersAreWoken'
    BY DEF Known, NeverFatal, OthersWait, SleepersAreWoken, At, Cls
  <2>5. ContiguousSubtree'
    BY DEF ContiguousSubtree, SuperReady
  <2>6. QED
    BY <2>1, <2>2, <2>3, <2>4, <2>5
<1>9. QED
    BY <1>1, <1>2, <1>3, <1>4, <1>5, <1>6, <1>7, <1>8 DEF Next, Runtime

\* IInv holds in every state that the program reaches.
THEOREM InvariantHolds == Spec => []IInv
<1>1. Init => IInv
    BY InitIInv
<1>2. IInv /\ [Next]_vars => IInv'
    BY StepIInv
<1>3. QED
    BY <1>1, <1>2, PTL DEF Spec

\* The variables keep their types.
THEOREM TypeCorrect == Spec => []TypeOK
<1>1. IInv => TypeOK
    BY DEF IInv
<1>2. QED
    BY <1>1, InvariantHolds, PTL

\* Whatever the +initialize methods message and however the threads
\* interleave, _class_initialize reaches none of its _objc_fatal calls and
\* none of its assertions fails.
THEOREM NeverFatalCorrect == Spec => []NeverFatal
<1>1. IInv => NeverFatal
    BY DEF IInv
<1>2. QED
    BY <1>1, InvariantHolds, PTL

\* A class that is being initialized is on the list of exactly one thread and
\* is not marked initialized; one that is not is on no list.
THEOREM OneInitializerCorrect == Spec => []OneInitializer
<1>1. IInv => OneInitializer
  <2> SUFFICES ASSUME IInv
               PROVE  OneInitializer
    OBVIOUS
  <2>1. ASSUME NEW c \in Classes
        PROVE  Cardinality({t \in Threads : c \in initList[t]}) = IF c \in initializing THEN 1 ELSE 0
    <3>1. CASE c \in initializing
      <4>1. PICK t \in Threads : c \in initList[t]
        BY <3>1 DEF IInv, ListsAreExact
      <4>2. {u \in Threads : c \in initList[u]} = {t}
        BY <4>1 DEF IInv, ListsAreExact
      <4>3. QED
        BY <3>1, <4>2, FS_Singleton
    <3>2. CASE c \notin initializing
      <4>1. {u \in Threads : c \in initList[u]} = {}
        BY <3>2 DEF IInv, ListsAreExact
      <4>2. QED
        BY <3>2, <4>1, FS_EmptySet
    <3>3. QED
      BY <3>1, <3>2
  <2>2. QED
    BY <2>1 DEF IInv, ListsAreExact, OneInitializer
<1>2. QED
    BY <1>1, InvariantHolds, PTL

\* An initialized class has an initialized superclass, and a thread that is at
\* a class is at its superclass too unless that one is initialized.
THEOREM ContiguousSubtreeCorrect == Spec => []ContiguousSubtree
<1>1. IInv => ContiguousSubtree
    BY DEF IInv
<1>2. QED
    BY <1>1, InvariantHolds, PTL

\* No message goes through to a class that another thread is initializing.
THEOREM OthersWaitCorrect == Spec => []OthersWait
<1>1. IInv => OthersWait
    BY DEF IInv
<1>2. QED
    BY <1>1, InvariantHolds, PTL

\* A thread that sleeps on the condition of classInitLock waits for a class
\* that another thread has still to finish: no wake-up is lost.
THEOREM SleepersAreWokenCorrect == Spec => []SleepersAreWoken
<1>1. IInv => SleepersAreWoken
    BY DEF IInv
<1>2. QED
    BY <1>1, InvariantHolds, PTL

=============================================================================
