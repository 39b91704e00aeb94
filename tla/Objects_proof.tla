--------------------------- MODULE Objects_proof ----------------------------
(***************************************************************************)
(* Theorems about Objects and the Accessors and References it composes:    *)
(* structures are copied whole and without deadlock, retain counts are the *)
(* references there are, associations end with their object.               *)
(***************************************************************************)
EXTENDS Objects, Inductions

-----------------------------------------------------------------------------
(* The locks of structures.                                                *)

Copies == {"copy lock", "copy move", "copy unlock"}

LockLists == {LocksInOrder(src, dest) : src \in Structs, dest \in Structs}

CopyCall == [at : Copies, src : Structs, dest : Structs, locks : LockLists, next : {1, 2}]

\* The locks that a call of objc_copyStruct, of one or two, has at each place.
Taken(c) ==
    IF c.at = "copy lock" THEN IF c.next = 2 THEN {c.locks[1]} ELSE {}
    ELSE IF c.at = "copy move" THEN {c.locks[1], c.locks[Len(c.locks)]}
    ELSE IF c.at = "copy unlock" THEN {c.locks[c.next], c.locks[Len(c.locks)]}
    ELSE {}

\* l has the locks of both addresses, in the order of the array.
InOrder(l, src, dest) ==
    /\ Len(l) \in {1, 2}
    /\ Len(l) = 2 => l[1] < l[2]
    /\ l[1] \in Stripes /\ l[Len(l)] \in Stripes
    /\ {GOODHASH(src), GOODHASH(dest)} = {l[1], l[Len(l)]}

StructTypes ==
    /\ struct \in [Structs -> {0, 1} \X {0, 1}]
    /\ StructLocks \in [Stripes -> Threads \cup {nil}]
    /\ DOMAIN call = Threads

CopyOK(t, c) ==
    c.at \in Copies =>
        /\ c \in CopyCall
        /\ {c.src, c.dest} \subseteq Shared \cup {Local[t]} /\ c.src # c.dest
        /\ c.locks = LocksInOrder(c.src, c.dest)
        /\ c.at # "copy move" /\ c.next = 2 => Len(c.locks) = 2

CopiesOK == \A t \in Threads : CopyOK(t, call[t])

\* A thread has the locks that its copying is in the middle of using.
LocksOK == \A t \in Threads, i \in Stripes : StructLocks[i] = t <=> i \in Taken(call[t])

HalfMoved(c) == c.at = "copy move" /\ c.next = 2

\* Only a structure that half is moved to may be in two parts.
WholeOK ==
    \A a \in Structs :
        \/ struct[a][1] = struct[a][2]
        \/ \E t \in Threads : HalfMoved(call[t]) /\ call[t].dest = a

\* What was moved is still what it was moved from.
MovedOK ==
    \A t \in Threads : HalfMoved(call[t]) =>
        struct[call[t].dest][1] = struct[call[t].src][1]

StructInv == StructTypes /\ CopiesOK /\ LocksOK /\ WholeOK /\ MovedOK

LEMMA TakenIs ==
    ASSUME NEW c
    PROVE  /\ c.at = "copy lock" /\ c.next # 2 => Taken(c) = {}
           /\ c.at = "copy lock" /\ c.next = 2 => Taken(c) = {c.locks[1]}
           /\ c.at = "copy move" => Taken(c) = {c.locks[1], c.locks[Len(c.locks)]}
           /\ c.at = "copy unlock" => Taken(c) = {c.locks[c.next], c.locks[Len(c.locks)]}
           /\ c.at \notin Copies => Taken(c) = {}
<1>1. ASSUME c.at = "copy lock", c.next # 2
      PROVE  Taken(c) = {}
    BY <1>1 DEF Taken
<1>2. ASSUME c.at = "copy lock", c.next = 2
      PROVE  Taken(c) = {c.locks[1]}
    BY <1>2 DEF Taken
<1>3. ASSUME c.at = "copy move"
      PROVE  Taken(c) = {c.locks[1], c.locks[Len(c.locks)]}
    BY <1>3 DEF Taken
<1>4. ASSUME c.at = "copy unlock"
      PROVE  Taken(c) = {c.locks[c.next], c.locks[Len(c.locks)]}
    BY <1>4 DEF Taken
<1>5. ASSUME c.at \notin Copies
      PROVE  Taken(c) = {}
    BY <1>5 DEF Taken, Copies
<1>6. QED
    BY <1>1, <1>2, <1>3, <1>4, <1>5

LEMMA StripeOf ==
    ASSUME NEW x \in Nat
    PROVE  GOODHASH(x) \in Stripes
<1>1. PICK n \in Nat \ {0} : n = 2^GOODPOWER
    BY AccessorsAssumption DEF AccessorsAssumption
<1>2. x \div 32 \in Nat
    OBVIOUS
<1>3. PICK y \in Nat : y = x \div 32
    BY <1>2
<1>4. y % n \in 0..n - 1
    OBVIOUS
<1>5. QED
    BY <1>1, <1>3, <1>4 DEF GOODHASH, Stripes

LEMMA StripesAreNumbers ==
    /\ Stripes \subseteq Nat
    /\ \E n \in Nat : Stripes = 0..n
<1>1. PICK n \in Nat \ {0} : n = 2^GOODPOWER
    BY AccessorsAssumption
<1>2. QED
    BY <1>1 DEF Stripes

LEMMA LocalsArePrivate ==
    /\ Structs \subseteq Nat
    /\ \A t \in Threads : Local[t] \in Structs /\ Local[t] \notin Shared
    /\ \A t, u \in Threads : Local[t] = Local[u] => t = u
    /\ Shared \subseteq Structs /\ nil \notin Threads
BY AccessorsAssumption DEF Structs

\* lockfirst and locksecond are the locks of both addresses, in order.
LEMMA LocksAreInOrder ==
    ASSUME NEW src \in Structs, NEW dest \in Structs
    PROVE  InOrder(LocksInOrder(src, dest), src, dest)
<1>1. PICK a \in Stripes, b \in Stripes : a = GOODHASH(src) /\ b = GOODHASH(dest)
    BY StripeOf, LocalsArePrivate
<1>2. a \in Nat /\ b \in Nat
    BY <1>1, StripesAreNumbers
<1>3. PICK l : l = LocksInOrder(src, dest)
    OBVIOUS
<1>4. CASE a < b
  <2>1. l = <<a, b>>
    BY <1>1, <1>2, <1>3, <1>4 DEF LocksInOrder
  <2>2. Len(l) = 2 /\ l[1] = a /\ l[2] = b
    BY <2>1
  <2>3. QED
    BY <1>1, <1>2, <1>3, <1>4, <2>2 DEF InOrder
<1>5. CASE b < a
  <2>1. l = <<b, a>>
    BY <1>1, <1>2, <1>3, <1>5 DEF LocksInOrder
  <2>2. Len(l) = 2 /\ l[1] = b /\ l[2] = a
    BY <2>1
  <2>3. QED
    BY <1>1, <1>2, <1>3, <1>5, <2>2 DEF InOrder
<1>6. CASE a = b
  <2>1. l = <<a>>
    BY <1>1, <1>2, <1>3, <1>6 DEF LocksInOrder
  <2>2. Len(l) = 1 /\ l[1] = a
    BY <2>1
  <2>3. QED
    BY <1>1, <1>2, <1>3, <1>6, <2>2 DEF InOrder
<1>7. QED
    BY <1>2, <1>4, <1>5, <1>6

\* Two threads that move at once have no structure in common.
LEMMA MoversAreApart ==
    ASSUME StructInv, NEW t \in Threads, NEW u \in Threads, t # u,
           At(t, "copy move"), At(u, "copy move")
    PROVE  call[t].dest # call[u].dest /\ call[t].dest # call[u].src
<1>1. ASSUME NEW v \in {t, u}
      PROVE  /\ call[v].src \in Structs /\ call[v].dest \in Structs
             /\ GOODHASH(call[v].src) \in Taken(call[v]) /\ GOODHASH(call[v].dest) \in Taken(call[v])
  <2>1. call[v].at = "copy move"
    BY DEF At
  <2>2. /\ call[v] \in CopyCall
        /\ call[v].locks = LocksInOrder(call[v].src, call[v].dest)
    BY <2>1 DEF StructInv, CopiesOK, CopyOK, Copies
  <2>3. call[v].src \in Structs /\ call[v].dest \in Structs
    BY <2>2 DEF CopyCall
  <2>4. InOrder(call[v].locks, call[v].src, call[v].dest)
    BY <2>2, <2>3, LocksAreInOrder
  <2>5. Taken(call[v]) = {GOODHASH(call[v].src), GOODHASH(call[v].dest)}
    BY <2>1, <2>4, TakenIs DEF InOrder
  <2>6. QED
    BY <2>3, <2>5
<1>2. ASSUME NEW i \in Stripes, i \in Taken(call[t])
      PROVE  i \notin Taken(call[u])
    BY <1>2 DEF StructInv, LocksOK
<1>3. GOODHASH(call[t].dest) \in Stripes
    BY <1>1, StripeOf, LocalsArePrivate
<1>4. QED
    BY <1>1, <1>2, <1>3

LEMMA InitStructInv == Init => StructInv
<1> SUFFICES ASSUME Init
             PROVE  StructInv
    OBVIOUS
<1>1. /\ struct = [a \in Structs |-> <<0, 0>>]
      /\ StructLocks = [i \in Stripes |-> nil]
      /\ call = [t \in Threads |-> [at |-> "idle"]]
    BY DEF Init, AccessorsInit, ValuesInit
<1>2. ASSUME NEW t \in Threads
      PROVE  call[t].at = "idle"
    BY <1>1
<1>3. StructTypes
    BY <1>1 DEF StructTypes
<1>4. CopiesOK /\ MovedOK
    BY <1>2 DEF CopiesOK, CopyOK, Copies, MovedOK, HalfMoved
<1>5. LocksOK
    BY <1>1, <1>2, LocalsArePrivate, TakenIs DEF LocksOK, Copies
<1>6. WholeOK
    BY <1>1 DEF WholeOK
<1>7. QED
    BY <1>3, <1>4, <1>5, <1>6 DEF StructInv

\* A step of a thread that copies no structure, before or after.
LEMMA OtherStep ==
    ASSUME StructInv, UNCHANGED <<struct, StructLocks>>,
           NEW t \in Threads, NEW c, c.at \notin Copies, call[t].at \notin Copies,
           call' = [call EXCEPT ![t] = c]
    PROVE  StructInv'
<1>1. DOMAIN call' = Threads /\ call'[t] = c /\ \A u \in Threads \ {t} : call'[u] = call[u]
    BY DEF StructInv, StructTypes
<1>2. StructTypes'
    BY <1>1 DEF StructInv, StructTypes
<1>3. CopiesOK'
    BY <1>1 DEF StructInv, CopiesOK, CopyOK
<1>4. \A i \in Stripes : i \notin Taken(c) /\ i \notin Taken(call[t])
    BY TakenIs
<1>5. LocksOK'
    BY <1>1, <1>4 DEF StructInv, LocksOK
<1>7. ~ HalfMoved(c) /\ ~ HalfMoved(call[t])
    BY DEF HalfMoved, Copies
<1>8. WholeOK'
  <2> SUFFICES ASSUME NEW a \in Structs
               PROVE  \/ struct'[a][1] = struct'[a][2]
                      \/ \E u \in Threads : HalfMoved(call'[u]) /\ call'[u].dest = a
    BY DEF WholeOK
  <2>1. CASE struct[a][1] = struct[a][2]
    BY <2>1
  <2>2. ASSUME NEW u \in Threads, HalfMoved(call[u]) /\ call[u].dest = a
        PROVE  HalfMoved(call'[u]) /\ call'[u].dest = a
    BY <1>1, <1>7, <2>2
  <2>3. QED
    BY <2>1, <2>2 DEF StructInv, WholeOK
<1>9. MovedOK'
    BY <1>1, <1>7 DEF StructInv, MovedOK
<1>10. QED
    BY <1>2, <1>3, <1>5, <1>8, <1>9 DEF StructInv

LEMMA SameStructs == StructInv /\ UNCHANGED <<struct, StructLocks, call>> => StructInv'
BY DEF StructInv, StructTypes, CopiesOK, LocksOK, WholeOK, MovedOK

\* The steps of objc_copyStruct.
LEMMA FillStructInv ==
    ASSUME StructInv, NEW t \in Threads, FillStruct(t)
    PROVE  StructInv'
<1>1. PICK n \in {0, 1} : struct' = [struct EXCEPT ![Local[t]] = <<n, n>>]
    BY DEF FillStruct
<1>2. call' = call /\ StructLocks' = StructLocks /\ call[t].at = "idle"
    BY DEF FillStruct, Idle, At
<1>3. Local[t] \in Structs
    BY LocalsArePrivate
<1>4. /\ struct'[Local[t]] = <<n, n>>
      /\ \A a \in Structs \ {Local[t]} : struct'[a] = struct[a]
    BY <1>1, <1>3 DEF StructInv, StructTypes
<1>5. StructTypes'
    BY <1>1, <1>2, <1>3 DEF StructInv, StructTypes
<1>6. CopiesOK' /\ LocksOK'
    BY <1>2 DEF StructInv, CopiesOK, LocksOK
<1>7. WholeOK'
  <2> SUFFICES ASSUME NEW a \in Structs
               PROVE  \/ struct'[a][1] = struct'[a][2]
                      \/ \E u \in Threads : HalfMoved(call[u]) /\ call[u].dest = a
    BY <1>2 DEF WholeOK
  <2>1. CASE a = Local[t]
    BY <1>4, <2>1
  <2>2. CASE a # Local[t]
    BY <1>4, <2>2 DEF StructInv, WholeOK
  <2>3. QED
    BY <2>1, <2>2
<1>8. MovedOK'
  <2> SUFFICES ASSUME NEW u \in Threads, HalfMoved(call[u])
               PROVE  struct'[call[u].dest][1] = struct'[call[u].src][1]
    BY <1>2 DEF MovedOK
  <2>1. u # t
    BY <1>2 DEF HalfMoved
  <2>2. /\ call[u] \in CopyCall
        /\ {call[u].src, call[u].dest} \subseteq Shared \cup {Local[u]}
    BY DEF StructInv, CopiesOK, CopyOK, Copies, HalfMoved
  <2>3. call[u].src # Local[t] /\ call[u].dest # Local[t]
    BY <2>1, <2>2, LocalsArePrivate
  <2>4. call[u].src \in Structs /\ call[u].dest \in Structs
    BY <2>2 DEF CopyCall
  <2>5. QED
    BY <1>4, <2>3, <2>4 DEF StructInv, MovedOK
<1>9. QED
    BY <1>5, <1>6, <1>7, <1>8 DEF StructInv

\* A step that moves nothing, and may change the locks of the thread.
LEMMA NothingMoved ==
    ASSUME StructInv, struct' = struct, NEW t \in Threads, NEW c,
           call' = [call EXCEPT ![t] = c], CopyOK(t, c), ~ HalfMoved(c), ~ HalfMoved(call[t]),
           StructLocks' \in [Stripes -> Threads \cup {nil}],
           \A i \in Stripes : StructLocks'[i] = t <=> i \in Taken(c),
           \A i \in Stripes : StructLocks'[i] = StructLocks[i]
                                \/ (StructLocks[i] \in {t, nil} /\ StructLocks'[i] \in {t, nil})
    PROVE  StructInv'
<1>1. DOMAIN call' = Threads /\ call'[t] = c /\ \A u \in Threads \ {t} : call'[u] = call[u]
    BY DEF StructInv, StructTypes
<1>2. StructTypes'
    BY <1>1 DEF StructInv, StructTypes
<1>3. CopiesOK'
    BY <1>1 DEF StructInv, CopiesOK
<1>4. LocksOK'
  <2> SUFFICES ASSUME NEW u \in Threads, NEW i \in Stripes
               PROVE  StructLocks'[i] = u <=> i \in Taken(call'[u])
    BY DEF LocksOK
  <2>1. CASE u = t
    BY <1>1, <2>1
  <2>2. CASE u # t
    <3>1. call'[u] = call[u]
      BY <1>1, <2>2
    <3>2. StructLocks'[i] = u <=> StructLocks[i] = u
      BY <2>2, LocalsArePrivate
    <3>3. QED
      BY <3>1, <3>2 DEF StructInv, LocksOK
  <2>3. QED
    BY <2>1, <2>2
<1>5. WholeOK'
  <2> SUFFICES ASSUME NEW a \in Structs
               PROVE  \/ struct'[a][1] = struct'[a][2]
                      \/ \E u \in Threads : HalfMoved(call'[u]) /\ call'[u].dest = a
    BY DEF WholeOK
  <2>1. ASSUME NEW u \in Threads, HalfMoved(call[u]) /\ call[u].dest = a
        PROVE  HalfMoved(call'[u]) /\ call'[u].dest = a
    BY <1>1, <2>1
  <2>2. QED
    BY <2>1 DEF StructInv, WholeOK
<1>6. MovedOK'
    BY <1>1 DEF StructInv, MovedOK
<1>7. QED
    BY <1>2, <1>3, <1>4, <1>5, <1>6 DEF StructInv

LEMMA CopyStructInv ==
    ASSUME StructInv, NEW t \in Threads, CopyStruct(t)
    PROVE  StructInv'
<1>1. PICK src \in Shared \cup {Local[t]}, dest \in Shared \cup {Local[t]} :
              /\ src # dest
              /\ call' = [call EXCEPT ![t] = [at |-> "copy lock", src |-> src, dest |-> dest,
                              locks |-> LocksInOrder(src, dest), next |-> 1]]
    BY DEF CopyStruct, Become
<1>2. src \in Structs /\ dest \in Structs
    BY <1>1, LocalsArePrivate
<1>3. PICK l \in LockLists : l = LocksInOrder(src, dest)
    BY <1>2 DEF LockLists
<1>6. PICK c : c = [at |-> "copy lock", src |-> src, dest |-> dest, locks |-> l, next |-> 1]
    OBVIOUS
<1>7. call' = [call EXCEPT ![t] = c]
    BY <1>1, <1>3, <1>6
<1>8. c.src = src /\ c.dest = dest /\ c.locks = l /\ c.next = 1 /\ c.at = "copy lock"
    BY <1>6
<1>9. c \in CopyCall
    BY <1>2, <1>3, <1>6 DEF CopyCall, Copies
<1>16. c.next # 2
  <2>1. c.next = 1
    BY <1>6
  <2>2. QED
    BY <2>1
<1>10. CopyOK(t, c)
    BY <1>1, <1>3, <1>8, <1>9, <1>16 DEF CopyOK
<1>11. /\ struct' = struct /\ StructLocks' = StructLocks
       /\ call[t].at = "idle"
    BY DEF CopyStruct, accessors, Idle, At
<1>12. ~ HalfMoved(c) /\ ~ HalfMoved(call[t])
    BY <1>8, <1>11 DEF HalfMoved
<1>13. \A i \in Stripes : i \notin Taken(c) /\ i \notin Taken(call[t])
    BY <1>8, <1>11, <1>16, TakenIs DEF Copies
<1>14. /\ StructLocks' \in [Stripes -> Threads \cup {nil}]
       /\ \A i \in Stripes : StructLocks'[i] = t <=> i \in Taken(c)
    BY <1>11, <1>13 DEF StructInv, StructTypes, LocksOK
<1>15. QED
    BY <1>7, <1>10, <1>11, <1>12, <1>14, NothingMoved

\* What a thread in objc_copyStruct has in its call.
LEMMA CopyFacts ==
    ASSUME StructInv, NEW t \in Threads, call[t].at \in Copies
    PROVE  /\ call[t] \in CopyCall /\ CopyOK(t, call[t])
           /\ call[t].src \in Structs /\ call[t].dest \in Structs
           /\ call[t].next \in {1, 2}
           /\ InOrder(call[t].locks, call[t].src, call[t].dest)
<1>1. CopyOK(t, call[t])
    BY DEF StructInv, CopiesOK
<1>2. call[t] \in CopyCall /\ call[t].locks = LocksInOrder(call[t].src, call[t].dest)
    BY <1>1 DEF CopyOK
<1>3. call[t].src \in Structs /\ call[t].dest \in Structs /\ call[t].next \in {1, 2}
    BY <1>2 DEF CopyCall
<1>4. QED
    BY <1>1, <1>2, <1>3, LocksAreInOrder

LEMMA CopyLockInv ==
    ASSUME StructInv, NEW t \in Threads, CopyLock(t)
    PROVE  StructInv'
<1>1. call[t].at = "copy lock" /\ call[t].at \in Copies
    BY DEF CopyLock, At, Copies
<1>2. PICK n, k, l, i :
              /\ n \in {1, 2} /\ k \in {1, 2}
              /\ n = call[t].next /\ k = Len(l) /\ l = call[t].locks /\ i = l[n]
    BY <1>1, CopyFacts DEF InOrder
<1>3. PICK c : c = IF n < k THEN [call[t] EXCEPT !.next = n + 1]
                   ELSE [call[t] EXCEPT !.at = "copy move", !.next = 1]
    OBVIOUS
<1>4. /\ StructLocks[i] = nil /\ StructLocks' = [StructLocks EXCEPT ![i] = t]
      /\ call' = [call EXCEPT ![t] = c]
      /\ struct' = struct
    BY <1>2, <1>3 DEF CopyLock, Become, SpinlockFree
<1>5. /\ call[t] \in CopyCall /\ CopyOK(t, call[t])
      /\ InOrder(l, call[t].src, call[t].dest)
    BY <1>1, <1>2, CopyFacts
<1>6. n <= k /\ l[1] \in Stripes /\ l[k] \in Stripes
  <2>1. l[1] \in Stripes /\ l[k] \in Stripes
    BY <1>2, <1>5 DEF InOrder
  <2>2. n = 2 => k = 2
    BY <1>1, <1>2, <1>5 DEF CopyOK
  <2>3. QED
    BY <1>2, <2>1, <2>2
<1>7. i \in Stripes
    BY <1>2, <1>6
<1>8. /\ c.src = call[t].src /\ c.dest = call[t].dest /\ c.locks = l
      /\ n < k => c.at = "copy lock" /\ c.next = n + 1
      /\ ~ (n < k) => c.at = "copy move" /\ c.next = 1 /\ c.next # 2
  <2>1. CASE n < k
    <3>1. c = [call[t] EXCEPT !.next = n + 1]
      BY <1>3, <2>1
    <3>2. QED
      BY <1>1, <1>2, <1>5, <2>1, <3>1 DEF CopyCall
  <2>2. CASE ~ (n < k)
    <3>1. c = [call[t] EXCEPT !.at = "copy move", !.next = 1]
      BY <1>3, <2>2
    <3>2. /\ c.src = call[t].src /\ c.dest = call[t].dest /\ c.locks = l
          /\ c.at = "copy move" /\ c.next = 1
      BY <1>2, <1>5, <3>1 DEF CopyCall
    <3>3. c.next # 2
      <4>1. c.next = 1
        BY <3>2
      <4>2. QED
        BY <4>1
    <3>4. QED
      BY <2>2, <3>2, <3>3
  <2>3. QED
    BY <2>1, <2>2
<1>9. c \in CopyCall
  <2>1. n < k => n + 1 \in {1, 2}
    BY <1>2, <1>6
  <2>2. "copy move" \in Copies
    BY DEF Copies
  <2>3. QED
    BY <1>3, <1>5, <2>1, <2>2 DEF CopyCall
<1>10. CopyOK(t, c)
  <2>1. /\ {c.src, c.dest} \subseteq Shared \cup {Local[t]} /\ c.src # c.dest
        /\ c.locks = LocksInOrder(c.src, c.dest)
    BY <1>1, <1>2, <1>5, <1>8 DEF CopyOK
  <2>2. c.at # "copy move" => Len(c.locks) = 2
    <3>1. n < k => k = 2
      BY <1>2, <1>6
    <3>2. QED
      BY <1>2, <1>8, <3>1
  <2>3. QED
    BY <1>9, <2>1, <2>2 DEF CopyOK
<1>11. Taken(c) = Taken(call[t]) \cup {i}
  <2>1. CASE n = 1 /\ k = 2
    <3>1. Taken(call[t]) = {}
      <4>1. call[t].next # 2
        BY <1>2, <2>1
      <4>2. QED
        BY <1>1, <4>1, TakenIs
    <3>2. Taken(c) = {l[1]}
      <4>1. c.at = "copy lock" /\ c.next = 2 /\ c.locks = l
        <5>1. n < k /\ n + 1 = 2
          BY <2>1
        <5>2. QED
          BY <1>8, <5>1
      <4>2. QED
        BY <4>1, TakenIs
    <3>3. QED
      BY <1>2, <2>1, <3>1, <3>2
  <2>2. CASE n = k
    <3>1. Taken(c) = {l[1], l[k]}
      <4>1. c.at = "copy move" /\ c.locks = l
        <5>1. ~ (n < k)
          BY <1>2, <2>2
        <5>2. QED
          BY <1>8, <5>1
      <4>2. QED
        BY <1>2, <4>1, TakenIs
    <3>2. ASSUME n = 1
          PROVE  Taken(call[t]) = {}
      <4>1. call[t].next # 2
        BY <1>2, <3>2
      <4>2. QED
        BY <1>1, <4>1, TakenIs
    <3>3. n = 2 => Taken(call[t]) = {l[1]}
      BY <1>1, <1>2, TakenIs
    <3>4. QED
      BY <1>2, <1>6, <2>2, <3>1, <3>2, <3>3
  <2>3. QED
    BY <1>2, <1>6, <2>1, <2>2
<1>12. /\ StructLocks \in [Stripes -> Threads \cup {nil}]
       /\ \A j \in Stripes : StructLocks[j] = t <=> j \in Taken(call[t])
    BY DEF StructInv, StructTypes, LocksOK
<1>13. /\ StructLocks' \in [Stripes -> Threads \cup {nil}]
       /\ \A j \in Stripes : StructLocks'[j] = t <=> j \in Taken(c)
       /\ \A j \in Stripes : StructLocks'[j] = StructLocks[j]
                                \/ (StructLocks[j] \in {t, nil} /\ StructLocks'[j] \in {t, nil})
    BY <1>4, <1>7, <1>11, <1>12
<1>14. ~ HalfMoved(c) /\ ~ HalfMoved(call[t])
    BY <1>1, <1>8 DEF HalfMoved
<1>15. QED
    BY <1>4, <1>10, <1>13, <1>14, NothingMoved

LEMMA CopyUnlockInv ==
    ASSUME StructInv, NEW t \in Threads, CopyUnlock(t)
    PROVE  StructInv'
<1>1. call[t].at = "copy unlock" /\ call[t].at \in Copies
    BY DEF CopyUnlock, At, Copies
<1>2. PICK n, k, l, i :
              /\ n \in {1, 2} /\ k \in {1, 2}
              /\ n = call[t].next /\ k = Len(l) /\ l = call[t].locks /\ i = l[n]
    BY <1>1, CopyFacts DEF InOrder
<1>3. PICK c : c = IF n < k THEN [call[t] EXCEPT !.next = n + 1] ELSE [at |-> "idle"]
    OBVIOUS
<1>4. /\ StructLocks' = [StructLocks EXCEPT ![i] = nil]
      /\ call' = [call EXCEPT ![t] = c]
      /\ struct' = struct
    BY <1>2, <1>3 DEF CopyUnlock, Become, Return
<1>5. /\ call[t] \in CopyCall /\ CopyOK(t, call[t])
      /\ InOrder(l, call[t].src, call[t].dest)
    BY <1>1, <1>2, CopyFacts
<1>6. /\ n <= k /\ l[1] \in Stripes /\ l[k] \in Stripes
      /\ k = 2 => l[1] < l[2]
  <2>1. /\ l[1] \in Stripes /\ l[k] \in Stripes
        /\ k = 2 => l[1] < l[2]
    BY <1>2, <1>5 DEF InOrder
  <2>2. n = 2 => k = 2
    BY <1>1, <1>2, <1>5 DEF CopyOK
  <2>3. QED
    BY <1>2, <2>1, <2>2
<1>7. i \in Stripes
    BY <1>2, <1>6
<1>8. /\ n < k => /\ c.src = call[t].src /\ c.dest = call[t].dest /\ c.locks = l
                  /\ c.at = "copy unlock" /\ c.next = n + 1 /\ c \in CopyCall
      /\ ~ (n < k) => c.at = "idle"
  <2>1. CASE n < k
    <3>1. c = [call[t] EXCEPT !.next = n + 1] /\ n + 1 \in {1, 2}
      BY <1>2, <1>3, <1>6, <2>1
    <3>2. QED
      BY <1>1, <1>2, <1>5, <2>1, <3>1 DEF CopyCall
  <2>2. CASE ~ (n < k)
    BY <1>3, <2>2
  <2>3. QED
    BY <2>1, <2>2
<1>9. CopyOK(t, c)
  <2>1. CASE n < k
    <3>1. /\ {c.src, c.dest} \subseteq Shared \cup {Local[t]} /\ c.src # c.dest
          /\ c.locks = LocksInOrder(c.src, c.dest)
      BY <1>1, <1>2, <1>5, <1>8, <2>1 DEF CopyOK
    <3>2. Len(c.locks) = 2
      <4>1. k = 2
        BY <1>2, <1>6, <2>1
      <4>2. QED
        BY <1>2, <1>8, <2>1, <4>1
    <3>3. QED
      BY <1>8, <2>1, <3>1, <3>2 DEF CopyOK
  <2>2. CASE ~ (n < k)
    BY <1>8, <2>2 DEF CopyOK, Copies
  <2>3. QED
    BY <2>1, <2>2
<1>10. i \in Taken(call[t]) /\ Taken(c) = Taken(call[t]) \ {i}
  <2>1. Taken(call[t]) = {l[n], l[k]}
    BY <1>1, <1>2, TakenIs
  <2>2. CASE n = 1 /\ k = 2
    <3>1. Taken(c) = {l[2]}
      <4>1. c.at = "copy unlock" /\ c.next = 2 /\ c.locks = l
        <5>1. n < k /\ n + 1 = 2
          BY <2>2
        <5>2. QED
          BY <1>8, <5>1
      <4>2. QED
        BY <1>2, <2>2, <4>1, TakenIs
    <3>2. l[1] # l[2]
      BY <1>6, <2>2, StripesAreNumbers
    <3>3. QED
      BY <1>2, <2>1, <2>2, <3>1, <3>2
  <2>3. CASE n = k
    <3>1. Taken(c) = {}
      <4>1. c.at = "idle"
        <5>1. ~ (n < k)
          BY <1>2, <2>3
        <5>2. QED
          BY <1>8, <5>1
      <4>2. QED
        BY <4>1, TakenIs DEF Copies
    <3>2. QED
      BY <1>2, <2>1, <2>3, <3>1
  <2>4. QED
    BY <1>2, <1>6, <2>2, <2>3
<1>13. /\ StructLocks \in [Stripes -> Threads \cup {nil}]
       /\ \A j \in Stripes : StructLocks[j] = t <=> j \in Taken(call[t])
    BY DEF StructInv, StructTypes, LocksOK
<1>14. /\ StructLocks' \in [Stripes -> Threads \cup {nil}]
       /\ \A j \in Stripes : StructLocks'[j] = t <=> j \in Taken(c)
       /\ \A j \in Stripes : StructLocks'[j] = StructLocks[j]
                                \/ (StructLocks[j] \in {t, nil} /\ StructLocks'[j] \in {t, nil})
    BY <1>4, <1>7, <1>10, <1>13, LocalsArePrivate
<1>15. ~ HalfMoved(c) /\ ~ HalfMoved(call[t])
    BY <1>1, <1>8 DEF HalfMoved
<1>16. QED
    BY <1>4, <1>9, <1>14, <1>15, NothingMoved

\* Half of a structure is replaced.
LEMMA HalfReplaced ==
    ASSUME NEW x \in {0, 1} \X {0, 1}, NEW h \in {0, 1}, NEW n \in {1, 2}
    PROVE  /\ [x EXCEPT ![n] = h] \in {0, 1} \X {0, 1}
           /\ [x EXCEPT ![n] = h][n] = h
           /\ \A m \in {1, 2} : m # n => [x EXCEPT ![n] = h][m] = x[m]
<1>1. PICK a \in {0, 1}, b \in {0, 1} : x = <<a, b>>
    OBVIOUS
<1>2. CASE n = 1
  <2>1. [x EXCEPT ![n] = h] = <<h, b>>
    BY <1>1, <1>2
  <2>2. QED
    BY <1>1, <1>2, <2>1
<1>3. CASE n = 2
  <2>1. [x EXCEPT ![n] = h] = <<a, h>>
    BY <1>1, <1>3
  <2>2. QED
    BY <1>1, <1>3, <2>1
<1>4. QED
    BY <1>2, <1>3

LEMMA CopyMoveInv ==
    ASSUME StructInv, NEW t \in Threads, CopyMove(t)
    PROVE  StructInv'
<1>1. call[t].at = "copy move" /\ call[t].at \in Copies
    BY DEF CopyMove, At, Copies
<1>2. PICK src \in Structs, dest \in Structs, n \in {1, 2} :
              /\ src = call[t].src /\ dest = call[t].dest /\ n = call[t].next
              /\ src # dest
    BY <1>1, CopyFacts DEF CopyOK
<1>3. PICK c : c = IF n = 1 THEN [call[t] EXCEPT !.next = 2]
                   ELSE [call[t] EXCEPT !.at = "copy unlock", !.next = 1]
    OBVIOUS
<1>4. /\ struct' = [struct EXCEPT ![dest][n] = struct[src][n]]
      /\ call' = [call EXCEPT ![t] = c]
      /\ StructLocks' = StructLocks
    BY <1>2, <1>3 DEF CopyMove, Become
<1>5. DOMAIN call' = Threads /\ call'[t] = c /\ \A u \in Threads \ {t} : call'[u] = call[u]
    BY <1>4 DEF StructInv, StructTypes
<1>6. struct \in [Structs -> {0, 1} \X {0, 1}]
    BY DEF StructInv, StructTypes
<1>7. PICK x \in {0, 1} \X {0, 1}, h \in {0, 1} : x = struct[dest] /\ h = struct[src][n]
    BY <1>2, <1>6
<1>8. PICK y \in {0, 1} \X {0, 1} :
              /\ y = [x EXCEPT ![n] = h]
              /\ y[n] = h
              /\ \A m \in {1, 2} : m # n => y[m] = x[m]
  <2>1. /\ [x EXCEPT ![n] = h] \in {0, 1} \X {0, 1}
        /\ [x EXCEPT ![n] = h][n] = h
        /\ \A m \in {1, 2} : m # n => [x EXCEPT ![n] = h][m] = x[m]
    BY <1>2, <1>7, HalfReplaced
  <2>2. QED
    BY Zenon, <2>1
<1>9. struct' = [struct EXCEPT ![dest] = y]
    BY <1>4, <1>7, <1>8
<1>10. struct'[dest] = y /\ \A a \in Structs \ {dest} : struct'[a] = struct[a]
    BY <1>2, <1>6, <1>9
<1>11. StructTypes'
  <2>1. struct' \in [Structs -> {0, 1} \X {0, 1}]
    BY <1>2, <1>6, <1>8, <1>9
  <2>2. QED
    BY <1>4, <1>5, <2>1 DEF StructInv, StructTypes
<1>12. call[t] \in CopyCall /\ CopyOK(t, call[t])
    BY <1>1, CopyFacts
<1>13. /\ c \in CopyCall
       /\ c.src = src /\ c.dest = dest /\ c.locks = call[t].locks
       /\ n = 1 => c.at = "copy move" /\ c.next = 2
       /\ n = 2 => c.at = "copy unlock" /\ c.next = 1
  <2>1. CASE n = 1
    <3>1. c = [call[t] EXCEPT !.next = 2]
      BY <1>3, <2>1
    <3>2. /\ c \in CopyCall /\ c.at = call[t].at /\ c.next = 2
          /\ c.src = call[t].src /\ c.dest = call[t].dest /\ c.locks = call[t].locks
      BY <1>12, <3>1 DEF CopyCall
    <3>3. ~ (n = 2) /\ src = call[t].src /\ dest = call[t].dest
      <4>1. ~ (n = 2)
        BY <2>1
      <4>2. QED
        BY <1>2, <4>1
    <3>4. QED
      BY <1>1, <3>2, <3>3
  <2>2. CASE n = 2
    <3>1. c = [call[t] EXCEPT !.at = "copy unlock", !.next = 1]
      BY <1>3, <2>2
    <3>2. /\ c \in CopyCall /\ c.at = "copy unlock" /\ c.next = 1
          /\ c.src = call[t].src /\ c.dest = call[t].dest /\ c.locks = call[t].locks
      BY <1>12, <3>1 DEF CopyCall, Copies
    <3>3. ~ (n = 1) /\ src = call[t].src /\ dest = call[t].dest
      <4>1. ~ (n = 1)
        BY <2>2
      <4>2. QED
        BY <1>2, <4>1
    <3>4. QED
      BY <3>2, <3>3
  <2>3. QED
    BY <2>1, <2>2
<1>14. CopiesOK'
  <2>1. {c.src, c.dest} \subseteq Shared \cup {Local[t]} /\ c.src # c.dest
        /\ c.locks = LocksInOrder(c.src, c.dest)
    BY <1>1, <1>2, <1>12, <1>13 DEF CopyOK
  <2>2. ASSUME c.at # "copy move"
        PROVE  ~ (c.next = 2)
    <3>1. n = 2
      BY <1>2, <1>13, <2>2
    <3>2. c.next = 1
      BY <1>13, <3>1
    <3>3. QED
      BY <3>2
  <2>3. CopyOK(t, c)
    BY <1>13, <2>1, <2>2 DEF CopyOK
  <2>4. QED
    BY <1>5, <2>3 DEF StructInv, CopiesOK
<1>15. LocksOK'
  <2>1. InOrder(call[t].locks, call[t].src, call[t].dest)
    BY <1>1, CopyFacts
  <2>2. Taken(call[t]) = {call[t].locks[1], call[t].locks[Len(call[t].locks)]}
    BY <1>1, TakenIs
  <2>3. Taken(c) = Taken(call[t])
    <3>1. CASE n = 1
      <4>1. c.at = "copy move" /\ c.locks = call[t].locks
        BY <1>13, <3>1
      <4>2. QED
        BY <2>2, <4>1, TakenIs
    <3>2. CASE n = 2
      <4>1. c.at = "copy unlock" /\ c.locks = call[t].locks /\ c.next = 1
        BY <1>13, <3>2
      <4>2. QED
        BY <2>2, <4>1, TakenIs
    <3>3. QED
      BY <1>2, <3>1, <3>2
  <2>4. QED
    BY <1>4, <1>5, <2>3 DEF StructInv, LocksOK
<1>16. ASSUME NEW u \in Threads \ {t}, HalfMoved(call[u])
       PROVE  /\ call[u].dest # dest /\ call[u].src # dest /\ call[u].dest # src
              /\ call[u].src \in Structs /\ call[u].dest \in Structs
  <2>1. call[u].at = "copy move" /\ call[u].at \in Copies
    BY <1>16 DEF HalfMoved, Copies
  <2>2. At(t, "copy move") /\ At(u, "copy move")
    BY <1>1, <2>1 DEF At
  <2>3. call[t].dest # call[u].dest /\ call[t].dest # call[u].src /\ call[u].dest # call[t].src
    BY <2>2, MoversAreApart
  <2>4. QED
    BY <1>2, <2>1, <2>3, CopyFacts
<1>17. HalfMoved(c) <=> n = 1
  <2>1. ASSUME n = 2
        PROVE  c.at # "copy move"
    BY <1>13, <2>1
  <2>2. n = 1 => c.at = "copy move" /\ c.next = 2
    BY <1>13
  <2>3. QED
    BY <1>2, <2>1, <2>2 DEF HalfMoved
<1>18. HalfMoved(call[t]) <=> n = 2
    BY <1>1, <1>2 DEF HalfMoved
<1>19. MovedOK'
  <2> SUFFICES ASSUME NEW u \in Threads, HalfMoved(call'[u])
               PROVE  struct'[call'[u].dest][1] = struct'[call'[u].src][1]
    BY DEF MovedOK
  <2>1. CASE u = t
    <3>1. n = 1
      BY <1>5, <1>17, <2>1
    <3>2. struct'[dest][1] = struct[src][1] /\ struct'[src] = struct[src]
      BY <1>2, <1>7, <1>8, <1>10, <3>1
    <3>3. QED
      BY <1>5, <1>13, <2>1, <3>2
  <2>2. CASE u # t
    <3>1. call'[u] = call[u] /\ HalfMoved(call[u])
      BY <1>5, <2>2
    <3>2. /\ struct'[call[u].dest] = struct[call[u].dest]
          /\ struct'[call[u].src] = struct[call[u].src]
      BY <1>10, <1>16, <2>2, <3>1
    <3>3. QED
      BY <3>1, <3>2 DEF StructInv, MovedOK
  <2>3. QED
    BY <2>1, <2>2
<1>20. WholeOK'
  <2> SUFFICES ASSUME NEW a \in Structs, struct'[a][1] # struct'[a][2]
               PROVE  \E u \in Threads : HalfMoved(call'[u]) /\ call'[u].dest = a
    BY DEF WholeOK
  <2>1. CASE a = dest /\ n = 1
    BY <1>5, <1>13, <1>17, <2>1
  <2>2. CASE a = dest /\ n = 2
    <3>1. struct[dest][1] = struct[src][1]
      BY <1>2, <1>18, <2>2 DEF StructInv, MovedOK
    <3>2. struct[src][1] = struct[src][2]
      <4>1. ASSUME NEW u \in Threads, HalfMoved(call[u]), call[u].dest = src
            PROVE  FALSE
        <5>1. u # t
          BY <1>2, <4>1
        <5>2. QED
          BY <1>16, <4>1, <5>1
      <4>2. QED
        BY <4>1 DEF StructInv, WholeOK
    <3>3. struct'[dest][1] = struct[dest][1] /\ struct'[dest][2] = struct[src][2]
      BY <1>7, <1>8, <1>10, <2>2
    <3>4. QED
      BY <2>2, <3>1, <3>2, <3>3
  <2>3. CASE a # dest
    <3>1. struct'[a] = struct[a]
      BY <1>10, <2>3
    <3>2. PICK u \in Threads : HalfMoved(call[u]) /\ call[u].dest = a
      BY <3>1 DEF StructInv, WholeOK
    <3>3. u # t
      BY <1>2, <2>3, <3>2
    <3>4. call'[u] = call[u]
      BY <1>5, <3>3
    <3>5. QED
      BY <3>2, <3>4
  <2>4. QED
    BY <1>2, <2>1, <2>2, <2>3
<1>21. QED
    BY <1>11, <1>14, <1>15, <1>19, <1>20 DEF StructInv

-----------------------------------------------------------------------------
(* What the variables and the calls are.                                   *)

Value == Objects \cup {nil}

Entries == Keys \X Association

AssociateCall == [at : {"associate", "associate lock", "associate change"}, object : Owners,
                  key : Keys, value : Value, policy : Policies, old : SUBSET Entries]

ReleaseCall == [at : {"release"}, object : Owners, free : BOOLEAN, old : SUBSET Entries]

RemoveCall == [at : {"remove"}, object : Owners, free : BOOLEAN]

GetAssociatedCall == [at : {"get associated"}, object : Owners, key : Keys]

RetainCall == [at : {"retain"}, object : Owners, value : Objects]

\* A call of an accessor, or of a function on associations, at each place.
CallTyped(c) ==
    /\ c.at \in {"get", "get retain"} => c.slot \in Slots \ Nonatomic
    /\ c.at \in {"set", "set read", "set write"} => c.slot \in Slots
    /\ c.at \in {"get retain", "set", "set read", "set write", "set release", "autorelease"} =>
           c.value \in Value
    /\ c.at = "set write" => c.old \in Value
    /\ c.at \in {"associate", "associate lock", "associate change"} => c \in AssociateCall
    /\ c.at = "release" => c \in ReleaseCall
    /\ c.at = "remove" => c \in RemoveCall
    /\ c.at = "get associated" => c \in GetAssociatedCall
    /\ c.at = "retain" => c \in RetainCall

MemoryTypes ==
    /\ retainCount \in [Objects -> Int]
    /\ held \in [Threads -> SUBSET Objects]
    /\ pool \in [Threads -> SUBSET Objects]

AccessorTypes ==
    /\ ivar \in [Slots -> Value]
    /\ PropertyLocks \in [Stripes -> Threads \cup {nil}]

ReferenceTypes ==
    /\ isa \in [Owners -> Classes \cup {nil}]
    /\ hasAssociated \subseteq Classes \cup {nil}
    /\ associations \in [Owners -> Tables]
    /\ managerLock \in Threads \cup {nil}
    /\ classesHad \in [Owners -> SUBSET Classes]

CallTypes ==
    /\ DOMAIN call = Threads
    /\ \A t \in Threads : CallTyped(call[t])

TypeInv == MemoryTypes /\ AccessorTypes /\ ReferenceTypes /\ CallTypes

LEMMA CallTypesStep ==
    ASSUME CallTypes, NEW t \in Threads, NEW c, CallTyped(c), call' = [call EXCEPT ![t] = c]
    PROVE  CallTypes'
<1>1. DOMAIN call' = Threads /\ call'[t] = c /\ \A u \in Threads \ {t} : call'[u] = call[u]
    BY DEF CallTypes
<1>2. ASSUME NEW u \in Threads
      PROVE  CallTyped(call'[u])
  <2>1. CASE u = t
    BY <1>1, <2>1
  <2>2. CASE u # t
    BY <1>1, <2>2 DEF CallTypes
  <2>3. QED
    BY <2>1, <2>2
<1>3. QED
    BY <1>1, <1>2 DEF CallTypes

\* retain and release change a count.
LEMMA CountsAreTyped ==
    ASSUME MemoryTypes, NEW v \in Value
    PROVE  Retained(v) \in [Objects -> Int] /\ Released(v) \in [Objects -> Int]
BY DEF MemoryTypes, Retained, Released, Value

\* A table and an entry that is found in it.
LEMMA Found ==
    ASSUME NEW table \in Tables, NEW k \in Keys
    PROVE  Lookup(table, k) \subseteq Entries /\ \A e \in Lookup(table, k) : e[1] = k
<1>1. CASE table = nil
    BY <1>1 DEF Lookup
<1>2. CASE table # nil
  <2>1. PICK ks \in SUBSET Keys : table \in [ks -> Association]
    BY <1>2 DEF Tables
  <2>2. CASE k \in ks
    <3>1. Lookup(table, k) = {<<k, table[k]>>} /\ table[k] \in Association
      BY <1>2, <2>1, <2>2 DEF Lookup
    <3>2. QED
      BY <3>1 DEF Entries
  <2>3. CASE k \notin ks
    BY <1>2, <2>1, <2>3 DEF Lookup
  <2>4. QED
    BY <2>2, <2>3
<1>3. QED
    BY <1>1, <1>2

\* The table of an object after _object_set_associative_reference.
LEMMA ChangedTable ==
    ASSUME NEW table \in Tables, NEW c \in AssociateCall
    PROVE  Changed(table, c) \in Tables
<1>1. /\ c.key \in Keys /\ c.value \in Value /\ c.policy \in Policies
    BY DEF AssociateCall
<1>2. PICK ks \in SUBSET Keys : /\ ks = IF table = nil THEN {} ELSE DOMAIN table
                                /\ table # nil => table \in [ks -> Association]
  <2>1. CASE table = nil
    <3>1. {} \in SUBSET Keys
      OBVIOUS
    <3>2. QED
      BY <2>1, <3>1
  <2>2. CASE table # nil
    <3>1. PICK ks \in SUBSET Keys : table \in [ks -> Association]
      BY <2>2 DEF Tables
    <3>2. ks = DOMAIN table
      BY <3>1
    <3>3. QED
      BY <2>2, <3>1, <3>2
  <2>3. QED
    BY <2>1, <2>2
<1>3. CASE c.value = nil
  <2>1. CASE table = nil
    BY <1>3, <2>1 DEF Changed, Tables
  <2>2. CASE table # nil
    <3>1. Changed(table, c) = Restrict(table, ks \ {c.key})
      BY <1>2, <1>3, <2>2 DEF Changed
    <3>2. Restrict(table, ks \ {c.key}) \in [ks \ {c.key} -> Association]
      BY <1>2, <2>2 DEF Restrict
    <3>3. QED
      BY <1>2, <3>1, <3>2 DEF Tables
  <2>3. QED
    BY <2>1, <2>2
<1>4. CASE c.value # nil
  <2>1. PICK a \in Association : a = [policy |-> c.policy, value |-> c.value]
    BY <1>1, <1>4 DEF Association, Value
  <2>2. Changed(table, c) = [k \in ks \cup {c.key} |-> IF k = c.key THEN a ELSE table[k]]
    BY <1>2, <1>4, <2>1 DEF Changed
  <2>3. ASSUME NEW k \in ks \cup {c.key}
        PROVE  (IF k = c.key THEN a ELSE table[k]) \in Association
    BY <1>2, <2>1
  <2>4. Changed(table, c) \in [ks \cup {c.key} -> Association]
    BY <2>2, <2>3
  <2>5. QED
    BY <1>1, <1>2, <2>4 DEF Tables
<1>5. QED
    BY <1>3, <1>4

LEMMA InitTypeInv == Init => TypeInv
<1> SUFFICES ASSUME Init
             PROVE  TypeInv
    OBVIOUS
<1>1. ValuesInit /\ AccessorsInit /\ ReferencesInit
    BY DEF Init
<1>2. MemoryTypes
    BY <1>1 DEF ValuesInit, MemoryTypes
<1>3. AccessorTypes
    BY <1>1 DEF AccessorsInit, AccessorTypes, Value
<1>4. ReferenceTypes
    BY <1>1 DEF ReferencesInit, ReferenceTypes, Tables
<1>5. CallTypes
    BY <1>1 DEF ValuesInit, CallTypes, CallTyped
<1>6. QED
    BY <1>2, <1>3, <1>4, <1>5 DEF TypeInv

\* A step of a thread that leaves the memory or the other component alone.
LEMMA SameMemory == MemoryTypes /\ UNCHANGED memory => MemoryTypes'
BY DEF MemoryTypes, memory

LEMMA SameAccessors == AccessorTypes /\ UNCHANGED accessors => AccessorTypes'
BY DEF AccessorTypes, accessors

LEMMA SameReferences == ReferenceTypes /\ UNCHANGED references => ReferenceTypes'
BY DEF ReferenceTypes, references

\* The steps of the program's threads.
LEMMA MemoryTypeInv ==
    ASSUME TypeInv, NEW t \in Threads, Memory(t)
    PROVE  TypeInv'
<1>1. MemoryTypes /\ CallTypes /\ AccessorTypes' /\ ReferenceTypes'
    BY SameAccessors, SameReferences DEF TypeInv, Memory
<1>2. CASE Alloc(t)
  <2>1. PICK v \in Objects : /\ retainCount' = Retained(v)
                             /\ held' = [held EXCEPT ![t] = held[t] \cup {v}]
    BY <1>2 DEF Alloc, Free
  <2>2. retainCount' \in [Objects -> Int]
    BY <1>1, <2>1, CountsAreTyped DEF Value
  <2>3. MemoryTypes' /\ CallTypes'
    BY <1>1, <1>2, <2>1, <2>2 DEF Alloc, MemoryTypes, CallTypes
  <2>4. QED
    BY <1>1, <2>3 DEF TypeInv
<1>3. CASE LetGo(t)
  <2>1. PICK v \in Objects : /\ retainCount' = Released(v)
                             /\ held' = [held EXCEPT ![t] = held[t] \ {v}]
    BY <1>1, <1>3 DEF LetGo, MemoryTypes
  <2>2. retainCount' \in [Objects -> Int]
    BY <1>1, <2>1, CountsAreTyped DEF Value
  <2>3. MemoryTypes' /\ CallTypes'
    BY <1>1, <1>3, <2>1, <2>2 DEF LetGo, MemoryTypes, CallTypes
  <2>4. QED
    BY <1>1, <2>3 DEF TypeInv
<1>4. CASE Drain(t)
  <2>1. retainCount' \in [Objects -> Int]
    BY <1>1, <1>4 DEF Drain, MemoryTypes
  <2>2. MemoryTypes' /\ CallTypes'
    BY <1>1, <1>4, <2>1 DEF Drain, MemoryTypes, CallTypes
  <2>3. QED
    BY <1>1, <2>2 DEF TypeInv
<1>5. CASE Autorelease(t)
  <2>1. call[t].value \in Value
    BY <1>1, <1>5 DEF Autorelease, At, CallTypes, CallTyped
  <2>2. MemoryTypes'
    BY <1>1, <1>5, <2>1 DEF Autorelease, MemoryTypes, Value
  <2>3. PICK c : c = [at |-> "idle"] /\ call' = [call EXCEPT ![t] = c]
    BY <1>5 DEF Autorelease, Return, Become
  <2>4. CallTyped(c)
    BY <2>3 DEF CallTyped
  <2>5. CallTypes'
    BY <1>1, <2>3, <2>4, CallTypesStep
  <2>6. QED
    BY <1>1, <2>2, <2>5 DEF TypeInv
<1>6. QED
    BY <1>2, <1>3, <1>4, <1>5 DEF Memory

\* The step makes c the thread's call, and the variables stay what they are.
Becomes(t, c) == CallTyped(c) /\ call' = [call EXCEPT ![t] = c]

LEMMA Typed ==
    ASSUME TypeInv, NEW t \in Threads, NEW c, Becomes(t, c),
           MemoryTypes', AccessorTypes', ReferenceTypes'
    PROVE  TypeInv'
BY CallTypesStep DEF TypeInv, Becomes

\* The steps of property accessors.
LEMMA PropertiesTypeInv ==
    ASSUME TypeInv, NEW t \in Threads, Properties(t)
    PROVE  TypeInv'
<1>1. /\ MemoryTypes /\ AccessorTypes /\ CallTyped(call[t]) /\ ReferenceTypes'
      /\ UNCHANGED memory => MemoryTypes'
      /\ UNCHANGED accessors => AccessorTypes'
    BY SameMemory, SameAccessors, SameReferences DEF TypeInv, CallTypes, Properties
<1>2. CASE GetProperty(t)
  <2>1. PICK s, c :
                /\ s \in Slots \ Nonatomic
                /\ c = [at |-> "get", slot |-> s]
                /\ call' = [call EXCEPT ![t] = c]
    BY <1>2 DEF GetProperty, Become
  <2>2. c.at = "get" /\ c.slot = s
    BY <2>1
  <2>3. CallTyped(c)
    BY <2>1, <2>2 DEF CallTyped
  <2>4. QED
    BY <1>1, <1>2, <2>1, <2>3, Typed DEF GetProperty, Becomes
<1>3. CASE GetLock(t)
  <2>1. PICK s \in Slots \ Nonatomic : s = call[t].slot
    BY <1>1, <1>3 DEF GetLock, At, CallTyped
  <2>2. PICK c : /\ c = [at |-> "get retain", slot |-> s, value |-> ivar[s]]
                 /\ call' = [call EXCEPT ![t] = c]
    BY <1>3, <2>1 DEF GetLock, Become
  <2>3. c.at = "get retain" /\ c.slot = s /\ c.value \in Value
    BY <1>1, <2>1, <2>2 DEF AccessorTypes
  <2>4. CallTyped(c)
    BY <2>1, <2>3 DEF CallTyped
  <2>5. AccessorTypes' /\ UNCHANGED memory
    BY <1>1, <1>3, <2>1 DEF GetLock, AccessorTypes, memory
  <2>6. QED
    BY <1>1, <2>2, <2>4, <2>5, Typed DEF Becomes
<1>4. CASE GetRetain(t)
  <2>1. PICK v \in Value : v = call[t].value
    BY <1>1, <1>4 DEF GetRetain, At, CallTyped
  <2>2. PICK c : /\ c = [at |-> "autorelease", value |-> v]
                 /\ call' = [call EXCEPT ![t] = c]
    BY <1>4, <2>1 DEF GetRetain, Become
  <2>3. c.at = "autorelease" /\ c.value = v
    BY <2>2
  <2>4. CallTyped(c)
    BY <2>1, <2>3 DEF CallTyped
  <2>5. AccessorTypes'
    BY <1>1, <1>4 DEF GetRetain, AccessorTypes
  <2>6. retainCount' \in [Objects -> Int]
    BY <1>1, <1>4, <2>1, CountsAreTyped DEF GetRetain
  <2>7. MemoryTypes'
    BY <1>1, <1>4, <2>6 DEF GetRetain, MemoryTypes
  <2>8. QED
    BY <1>1, <2>2, <2>4, <2>5, <2>7, Typed DEF Becomes
<1>5. CASE SetProperty(t)
  <2>1. PICK s \in Slots, v \in Usable(t) \cup {nil}, copy \in BOOLEAN :
                call' = [call EXCEPT ![t] = [at |-> "set", slot |-> s, value |-> v, copy |-> copy]]
    BY <1>5 DEF SetProperty, Become
  <2>2. PICK c : c = [at |-> "set", slot |-> s, value |-> v, copy |-> copy]
    OBVIOUS
  <2>3. v \in Value
    BY <1>1, <2>1 DEF Usable, MemoryTypes, Value
  <2>4. c.at = "set" /\ c.slot = s /\ c.value = v
    BY <2>2
  <2>5. CallTyped(c)
    BY <2>1, <2>3, <2>4 DEF CallTyped
  <2>6. QED
    BY <1>1, <1>5, <2>1, <2>2, <2>5, Typed DEF Becomes, SetProperty
<1>6. CASE SetAcquire(t)
  <2>1. PICK s \in Slots, w \in Value : s = call[t].slot /\ w = call[t].value
    BY <1>1, <1>6 DEF SetAcquire, At, CallTyped
  <2>2. PICK v, c :
                /\ v \in (IF call[t].copy THEN CopiesOf(w) ELSE {w})
                /\ retainCount' = Retained(v)
                /\ c = [at |-> "set read", slot |-> s, value |-> v]
                /\ call' = [call EXCEPT ![t] = c]
    BY <1>6, <2>1 DEF SetAcquire, Become
  <2>3. v \in Value
    BY <2>1, <2>2 DEF CopiesOf, Free, Value
  <2>4. c.at = "set read" /\ c.slot = s /\ c.value = v
    BY <2>2
  <2>5. CallTyped(c)
    BY <2>1, <2>3, <2>4 DEF CallTyped
  <2>6. MemoryTypes'
    BY <1>1, <1>6, <2>2, <2>3, CountsAreTyped DEF SetAcquire, MemoryTypes
  <2>7. QED
    BY <1>1, <1>6, <2>2, <2>5, <2>6, Typed DEF SetAcquire, Becomes
<1>7. CASE SetRead(t)
  <2>1. PICK s \in Slots, v \in Value : s = call[t].slot /\ v = call[t].value
    BY <1>1, <1>7 DEF SetRead, At, CallTyped
  <2>2. PICK c : /\ c = [at |-> "set write", slot |-> s, value |-> v, old |-> ivar[s]]
                 /\ call' = [call EXCEPT ![t] = c]
    BY <1>7, <2>1 DEF SetRead, Become
  <2>3. c.at = "set write" /\ c.slot = s /\ c.value = v /\ c.old \in Value
    BY <1>1, <2>1, <2>2 DEF AccessorTypes
  <2>4. CallTyped(c)
    BY <2>1, <2>3 DEF CallTyped
  <2>5. AccessorTypes' /\ UNCHANGED memory
    BY <1>1, <1>7, <2>1 DEF SetRead, AccessorTypes, memory
  <2>6. QED
    BY <1>1, <2>2, <2>4, <2>5, Typed DEF Becomes
<1>8. CASE SetWrite(t)
  <2>1. PICK s \in Slots, v \in Value, w \in Value :
                s = call[t].slot /\ v = call[t].value /\ w = call[t].old
    BY <1>1, <1>8 DEF SetWrite, At, CallTyped
  <2>2. PICK c : c = [at |-> "set release", value |-> w] /\ call' = [call EXCEPT ![t] = c]
    BY <1>8, <2>1 DEF SetWrite, Become
  <2>3. c.at = "set release" /\ c.value = w
    BY <2>2
  <2>4. CallTyped(c)
    BY <2>1, <2>3 DEF CallTyped
  <2>5. AccessorTypes' /\ UNCHANGED memory
    BY <1>1, <1>8, <2>1 DEF SetWrite, AccessorTypes, memory
  <2>6. QED
    BY <1>1, <2>2, <2>4, <2>5, Typed DEF Becomes
<1>9. CASE SetRelease(t)
  <2>1. PICK v \in Value : v = call[t].value
    BY <1>1, <1>9 DEF SetRelease, At, CallTyped
  <2>2. PICK c : c = [at |-> "idle"] /\ call' = [call EXCEPT ![t] = c]
    BY <1>9 DEF SetRelease, Return, Become
  <2>3. CallTyped(c)
    BY <2>2 DEF CallTyped
  <2>4. MemoryTypes'
    BY <1>1, <1>9, <2>1, CountsAreTyped DEF SetRelease, MemoryTypes
  <2>5. QED
    BY <1>1, <1>9, <2>2, <2>3, <2>4, Typed DEF SetRelease, Becomes
<1>10. QED
    BY <1>2, <1>3, <1>4, <1>5, <1>6, <1>7, <1>8, <1>9 DEF Properties

\* The steps of objc_copyStruct touch nothing else.
LEMMA StructuresTypeInv ==
    ASSUME TypeInv, StructInv, NEW t \in Threads, Structures(t)
    PROVE  TypeInv'
<1>1. /\ UNCHANGED memory => MemoryTypes'
      /\ UNCHANGED <<ivar, PropertyLocks>> => AccessorTypes'
      /\ ReferenceTypes'
    BY SameMemory, SameReferences DEF TypeInv, Structures, AccessorTypes
<1>2. ASSUME NEW c, c.at \in Copies \cup {"idle"}, call' = [call EXCEPT ![t] = c]
      PROVE  Becomes(t, c)
    BY <1>2 DEF Becomes, CallTyped, Copies
<1>3. CASE FillStruct(t)
  <2>1. CallTypes' /\ UNCHANGED memory /\ UNCHANGED <<ivar, PropertyLocks>>
    BY <1>3 DEF FillStruct, TypeInv, CallTypes
  <2>2. QED
    BY <1>1, <2>1 DEF TypeInv
<1>4. CASE CopyStruct(t)
  <2>1. PICK src, dest, l, c :
                /\ c = [at |-> "copy lock", src |-> src, dest |-> dest, locks |-> l, next |-> 1]
                /\ call' = [call EXCEPT ![t] = c]
    BY <1>4 DEF CopyStruct, Become
  <2>2. c.at = "copy lock"
    BY <2>1
  <2>3. Becomes(t, c)
    BY <1>2, <2>1, <2>2 DEF Copies
  <2>4. UNCHANGED memory /\ UNCHANGED <<ivar, PropertyLocks>>
    BY <1>4 DEF CopyStruct, accessors
  <2>5. QED
    BY <1>1, <2>3, <2>4, Typed
<1>5. CASE CopyLock(t)
  <2>1. call[t] \in CopyCall
    BY <1>5, CopyFacts DEF CopyLock, At, Copies
  <2>2. PICK n, c : /\ c \in {[call[t] EXCEPT !.next = n],
                              [call[t] EXCEPT !.at = "copy move", !.next = 1]}
                    /\ call' = [call EXCEPT ![t] = c]
    BY <1>5 DEF CopyLock, Become
  <2>3. c.at \in Copies
    BY <2>1, <2>2 DEF CopyCall, Copies
  <2>4. Becomes(t, c)
    BY <1>2, <2>2, <2>3
  <2>5. UNCHANGED memory /\ UNCHANGED <<ivar, PropertyLocks>>
    BY <1>5 DEF CopyLock
  <2>6. QED
    BY <1>1, <2>4, <2>5, Typed
<1>6. CASE CopyMove(t)
  <2>1. call[t] \in CopyCall
    BY <1>6, CopyFacts DEF CopyMove, At, Copies
  <2>2. PICK c : /\ c \in {[call[t] EXCEPT !.next = 2],
                           [call[t] EXCEPT !.at = "copy unlock", !.next = 1]}
                 /\ call' = [call EXCEPT ![t] = c]
    BY <1>6 DEF CopyMove, Become
  <2>3. c.at \in Copies
    BY <2>1, <2>2 DEF CopyCall, Copies
  <2>4. Becomes(t, c)
    BY <1>2, <2>2, <2>3
  <2>5. UNCHANGED memory /\ UNCHANGED <<ivar, PropertyLocks>>
    BY <1>6 DEF CopyMove
  <2>6. QED
    BY <1>1, <2>4, <2>5, Typed
<1>7. CASE CopyUnlock(t)
  <2>1. call[t] \in CopyCall
    BY <1>7, CopyFacts DEF CopyUnlock, At, Copies
  <2>2. PICK n, c : /\ \/ c = [call[t] EXCEPT !.next = n]
                       \/ c = [at |-> "idle"]
                    /\ call' = [call EXCEPT ![t] = c]
    BY <1>7 DEF CopyUnlock, Become, Return
  <2>3. c.at \in Copies \cup {"idle"}
    <3>1. CASE c = [call[t] EXCEPT !.next = n]
      BY <2>1, <3>1 DEF CopyCall
    <3>2. CASE c = [at |-> "idle"]
      BY <3>2
    <3>3. QED
      BY <2>2, <3>1, <3>2
  <2>4. Becomes(t, c)
    BY <1>2, <2>2, <2>3
  <2>5. UNCHANGED memory /\ UNCHANGED <<ivar, PropertyLocks>>
    BY <1>7 DEF CopyUnlock
  <2>6. QED
    BY <1>1, <2>4, <2>5, Typed
<1>8. QED
    BY <1>3, <1>4, <1>5, <1>6, <1>7 DEF Structures

\* The steps of functions on associations.
LEMMA AssociationsTypeInv ==
    ASSUME TypeInv, NEW t \in Threads, Associations(t)
    PROVE  TypeInv'
<1>1. /\ MemoryTypes /\ ReferenceTypes /\ CallTypes /\ CallTyped(call[t]) /\ AccessorTypes'
      /\ UNCHANGED memory => MemoryTypes'
      /\ UNCHANGED references => ReferenceTypes'
    BY SameMemory, SameAccessors, SameReferences DEF TypeInv, CallTypes, Associations
<1>2. ASSUME NEW c, c = [at |-> "idle"], call' = [call EXCEPT ![t] = c]
      PROVE  Becomes(t, c)
    BY <1>2 DEF Becomes, CallTyped
<1>3. CASE Create(t)
  <2>1. ReferenceTypes' /\ UNCHANGED memory /\ CallTypes'
    BY <1>1, <1>3 DEF Create, ReferenceTypes, CallTypes
  <2>2. QED
    BY <1>1, <2>1 DEF TypeInv
<1>4. CASE SetClass(t)
  <2>1. ReferenceTypes' /\ UNCHANGED memory /\ CallTypes'
    BY <1>1, <1>4 DEF SetClass, ReferenceTypes, CallTypes
  <2>2. QED
    BY <1>1, <2>1 DEF TypeInv
<1>5. CASE Associate(t)
  <2>1. PICK o, k, v, p, c :
                /\ o \in Owners /\ k \in Keys /\ v \in Usable(t) \cup {nil} /\ p \in Policies
                /\ c = [at |-> "associate", object |-> o, key |-> k,
                        value |-> v, policy |-> p, old |-> {}]
                /\ call' = [call EXCEPT ![t] = c]
    BY <1>5 DEF Associate, Become
  <2>2. v \in Value
    BY <1>1, <2>1 DEF Usable, MemoryTypes, Value
  <2>3. c \in AssociateCall /\ c.at = "associate"
    BY <2>1, <2>2 DEF AssociateCall
  <2>4. Becomes(t, c)
    BY <2>1, <2>3 DEF Becomes, CallTyped
  <2>5. QED
    BY <1>1, <1>5, <2>4, Typed DEF Associate
<1>6. CASE AcquireValue(t)
  <2>1. call[t] \in AssociateCall
    BY <1>1, <1>6 DEF AcquireValue, At, CallTyped
  <2>2. PICK v, c :
                /\ v \in CopiesOf(call[t].value) \cup {call[t].value}
                /\ retainCount' \in {Retained(v), retainCount}
                /\ c = [call[t] EXCEPT !.at = "associate lock", !.value = v]
                /\ call' = [call EXCEPT ![t] = c]
    BY <1>6 DEF AcquireValue, Become
  <2>3. v \in Value
    BY <2>1, <2>2 DEF CopiesOf, Free, Value, AssociateCall
  <2>4. c \in AssociateCall /\ c.at = "associate lock"
    BY <2>1, <2>2, <2>3 DEF AssociateCall
  <2>5. Becomes(t, c)
    BY <2>2, <2>4 DEF Becomes, CallTyped
  <2>6. retainCount' \in [Objects -> Int]
    BY <1>1, <2>2, <2>3, CountsAreTyped DEF MemoryTypes
  <2>7. MemoryTypes' /\ UNCHANGED references
    BY <1>1, <1>6, <2>6 DEF AcquireValue, MemoryTypes
  <2>8. QED
    BY <1>1, <2>5, <2>7, Typed
<1>7. CASE FindOld(t)
  <2>1. call[t] \in AssociateCall
    BY <1>1, <1>7 DEF FindOld, At, CallTyped
  <2>2. PICK old, c :
                /\ old = Lookup(associations[call[t].object], call[t].key)
                /\ c = [call[t] EXCEPT !.at = "associate change", !.old = old]
                /\ call' = [call EXCEPT ![t] = c]
    BY <1>7 DEF FindOld, Become
  <2>3. old \subseteq Entries
    BY <1>1, <2>1, <2>2, Found DEF ReferenceTypes, AssociateCall
  <2>4. c \in AssociateCall /\ c.at = "associate change"
    BY <2>1, <2>2, <2>3 DEF AssociateCall
  <2>5. Becomes(t, c)
    BY <2>2, <2>4 DEF Becomes, CallTyped
  <2>6. ReferenceTypes' /\ UNCHANGED memory
    BY <1>1, <1>7 DEF FindOld, ReferenceTypes
  <2>7. QED
    BY <1>1, <2>5, <2>6, Typed
<1>8. CASE ChangeTable(t)
  <2>1. call[t] \in AssociateCall
    BY <1>1, <1>8 DEF ChangeTable, At, CallTyped
  <2>2. PICK o \in Owners, old \in SUBSET Entries : o = call[t].object /\ old = call[t].old
    BY <2>1 DEF AssociateCall
  <2>3. PICK table, c : /\ table = Changed(associations[o], call[t])
                        /\ associations' = [associations EXCEPT ![o] = table]
                        /\ hasAssociated' \subseteq hasAssociated \cup {isa[o]}
                        /\ c = [at |-> "release", object |-> o, free |-> FALSE, old |-> old]
                        /\ call' = [call EXCEPT ![t] = c]
    BY <1>8, <2>2 DEF ChangeTable, Become
  <2>4. c \in ReleaseCall /\ c.at = "release"
    BY <2>2, <2>3 DEF ReleaseCall
  <2>5. Becomes(t, c)
    BY <2>3, <2>4 DEF Becomes, CallTyped
  <2>6. table \in Tables
    BY <1>1, <2>1, <2>2, <2>3, ChangedTable DEF ReferenceTypes
  <2>7. ReferenceTypes' /\ UNCHANGED memory
    <3>1. managerLock' = nil /\ isa' = isa /\ classesHad' = classesHad /\ UNCHANGED memory
      BY <1>8 DEF ChangeTable
    <3>2. associations' \in [Owners -> Tables]
      BY <1>1, <2>2, <2>3, <2>6 DEF ReferenceTypes
    <3>3. hasAssociated' \subseteq Classes \cup {nil}
      BY <1>1, <2>2, <2>3 DEF ReferenceTypes
    <3>4. QED
      BY <1>1, <3>1, <3>2, <3>3 DEF ReferenceTypes
  <2>8. QED
    BY <1>1, <2>5, <2>7, Typed
<1>9. CASE GetAssociated(t)
  <2>1. PICK o, k, c :
                /\ o \in Owners /\ k \in Keys
                /\ c = [at |-> "get associated", object |-> o, key |-> k]
                /\ call' = [call EXCEPT ![t] = c]
    BY <1>9 DEF GetAssociated, Become
  <2>2. c \in GetAssociatedCall /\ c.at = "get associated"
    BY <2>1 DEF GetAssociatedCall
  <2>3. Becomes(t, c)
    BY <2>1, <2>2 DEF Becomes, CallTyped
  <2>4. QED
    BY <1>1, <1>9, <2>3, Typed DEF GetAssociated
<1>10. CASE FindAssociated(t)
  <2>1. PICK o \in Owners, k \in Keys : o = call[t].object /\ k = call[t].key
    BY <1>1, <1>10 DEF FindAssociated, At, CallTyped, GetAssociatedCall
  <2>2. ReferenceTypes' /\ UNCHANGED memory
    BY <1>1, <1>10 DEF FindAssociated, ReferenceTypes
  <2>3. CASE Return(t)
    BY <1>1, <1>2, <2>2, <2>3, Typed DEF Return, Become
  <2>4. CASE ~ Return(t)
    <3>1. PICK e, c :
                  /\ e \in Lookup(associations[o], k)
                  /\ c = [at |-> "retain", object |-> o, value |-> e[2].value]
                  /\ call' = [call EXCEPT ![t] = c]
      BY <1>10, <2>1, <2>4 DEF FindAssociated, Become
    <3>2. e \in Entries
      BY <1>1, <2>1, <3>1, Found DEF ReferenceTypes
    <3>3. c \in RetainCall /\ c.at = "retain"
      BY <2>1, <3>1, <3>2 DEF RetainCall, Entries, Association
    <3>4. Becomes(t, c)
      BY <3>1, <3>3 DEF Becomes, CallTyped
    <3>5. QED
      BY <1>1, <2>2, <3>4, Typed
  <2>5. QED
    BY <2>3, <2>4
<1>11. CASE RetainAssociated(t)
  <2>1. PICK o \in Owners, v \in Objects : o = call[t].object /\ v = call[t].value
    BY <1>1, <1>11 DEF RetainAssociated, At, CallTyped, RetainCall
  <2>2. PICK c : /\ c = [at |-> "autorelease", object |-> o, value |-> v]
                 /\ call' = [call EXCEPT ![t] = c]
    BY <1>11, <2>1 DEF RetainAssociated, Become
  <2>3. c.at = "autorelease" /\ c.value \in Value
    BY <2>1, <2>2 DEF Value
  <2>4. Becomes(t, c)
    BY <2>2, <2>3 DEF Becomes, CallTyped
  <2>5. retainCount' \in [Objects -> Int]
    BY <1>1, <1>11, <2>1, CountsAreTyped DEF RetainAssociated, Value
  <2>6. MemoryTypes' /\ ReferenceTypes'
    BY <1>1, <1>11, <2>5 DEF RetainAssociated, MemoryTypes, ReferenceTypes
  <2>7. QED
    BY <1>1, <2>4, <2>6, Typed
<1>12. CASE RemoveAssociations(t)
  <2>1. PICK o, c :
                /\ o \in Owners
                /\ c = [at |-> "remove", object |-> o, free |-> FALSE]
                /\ call' = [call EXCEPT ![t] = c]
    BY <1>12 DEF RemoveAssociations, Become
  <2>2. c \in RemoveCall /\ c.at = "remove"
    BY <2>1 DEF RemoveCall
  <2>3. Becomes(t, c)
    BY <2>1, <2>2 DEF Becomes, CallTyped
  <2>4. QED
    BY <1>1, <1>12, <2>3, Typed DEF RemoveAssociations
<1>13. CASE Dispose(t)
  <2>1. PICK o, c :
                /\ o \in Owners
                /\ \/ c = [at |-> "remove", object |-> o, free |-> TRUE]
                   \/ c = [at |-> "release", object |-> o, free |-> TRUE, old |-> {}]
                /\ call' = [call EXCEPT ![t] = c]
    BY <1>13 DEF Dispose, Become
  <2>2. \/ c \in RemoveCall /\ c.at = "remove"
        \/ c \in ReleaseCall /\ c.at = "release"
    <3>1. CASE c = [at |-> "remove", object |-> o, free |-> TRUE]
      BY <2>1, <3>1 DEF RemoveCall
    <3>2. CASE c = [at |-> "release", object |-> o, free |-> TRUE, old |-> {}]
      BY <2>1, <3>2 DEF ReleaseCall
    <3>3. QED
      BY <2>1, <3>1, <3>2
  <2>3. Becomes(t, c)
    BY <2>1, <2>2 DEF Becomes, CallTyped
  <2>4. QED
    BY <1>1, <1>13, <2>3, Typed DEF Dispose
<1>14. CASE RemoveTable(t)
  <2>1. PICK o \in Owners, f \in BOOLEAN : o = call[t].object /\ f = call[t].free
    BY <1>1, <1>14 DEF RemoveTable, At, CallTyped, RemoveCall
  <2>2. PICK table \in Tables : table = associations[o]
    BY <1>1, <2>1 DEF ReferenceTypes
  <2>3. PICK old : old = IF table = nil THEN {} ELSE {<<k, table[k]>> : k \in DOMAIN table}
    OBVIOUS
  <2>4. PICK c : /\ c = [at |-> "release", object |-> o, free |-> f, old |-> old]
                 /\ call' = [call EXCEPT ![t] = c]
    BY <1>14, <2>1, <2>2, <2>3 DEF RemoveTable, Become
  <2>5. old \in SUBSET Entries
    <3>1. CASE table = nil
      BY <2>3, <3>1
    <3>2. CASE table # nil
      <4>1. PICK ks \in SUBSET Keys : table \in [ks -> Association]
        BY <2>2, <3>2 DEF Tables
      <4>2. QED
        BY <2>3, <3>2, <4>1 DEF Entries
    <3>3. QED
      BY <3>1, <3>2
  <2>6. c \in ReleaseCall /\ c.at = "release"
    BY <2>1, <2>4, <2>5 DEF ReleaseCall
  <2>7. Becomes(t, c)
    BY <2>4, <2>6 DEF Becomes, CallTyped
  <2>8. ReferenceTypes' /\ UNCHANGED memory
    BY <1>1, <1>14, <2>1 DEF RemoveTable, ReferenceTypes, Tables
  <2>9. QED
    BY <1>1, <2>7, <2>8, Typed
<1>15. CASE ReleaseOld(t)
  <2>1. call[t] \in ReleaseCall
    BY <1>1, <1>15 DEF ReleaseOld, At, CallTyped
  <2>2. PICK old \in SUBSET Entries : old = call[t].old
    BY <2>1 DEF ReleaseCall
  <2>3. PICK e, c :
                /\ e \in old
                /\ retainCount' = ReleaseValue(e[2])
                /\ c = [call[t] EXCEPT !.old = old \ {e}]
                /\ call' = [call EXCEPT ![t] = c]
    BY <1>15, <2>2 DEF ReleaseOld, Become
  <2>4. c \in ReleaseCall /\ c.at = "release"
    BY <2>1, <2>2, <2>3 DEF ReleaseCall
  <2>5. Becomes(t, c)
    BY <2>3, <2>4 DEF Becomes, CallTyped
  <2>6. e[2].value \in Value
    BY <2>2, <2>3 DEF Entries, Association, Value
  <2>7. retainCount' \in [Objects -> Int]
    BY <1>1, <2>3, <2>6, CountsAreTyped DEF ReleaseValue, MemoryTypes
  <2>8. MemoryTypes' /\ UNCHANGED references
    BY <1>1, <1>15, <2>7 DEF ReleaseOld, MemoryTypes
  <2>9. QED
    BY <1>1, <2>5, <2>8, Typed
<1>16. CASE Broken(t)
  <2>1. ReferenceTypes' /\ UNCHANGED memory
    BY <1>1, <1>16 DEF Broken, ReferenceTypes
  <2>2. QED
    BY <1>1, <1>2, <1>16, <2>1, Typed DEF Broken, Return, Become
<1>17. QED
    BY <1>3, <1>4, <1>5, <1>6, <1>7, <1>8, <1>9, <1>10, <1>11, <1>12, <1>13, <1>14,
       <1>15, <1>16 DEF Associations

-----------------------------------------------------------------------------
(* Structures are copied whole.                                            *)

\* What a step that copies no structure does to the calls.
OtherCall(t) ==
    \/ call' = call
    \/ /\ call[t].at \notin Copies
       /\ \E c : c.at \notin Copies /\ call' = [call EXCEPT ![t] = c]

LEMMA OtherCalls ==
    ASSUME TypeInv, NEW t \in Threads, Properties(t) \/ Associations(t) \/ Memory(t)
    PROVE  OtherCall(t)
<1>1. ASSUME NEW c, c.at \notin Copies, call[t].at \notin Copies, call' = [call EXCEPT ![t] = c]
      PROVE  OtherCall(t)
    BY <1>1 DEF OtherCall
<1>2. ASSUME call' = call
      PROVE  OtherCall(t)
    BY <1>2 DEF OtherCall
<1>3. CallTyped(call[t])
    BY DEF TypeInv, CallTypes
<1>4. CASE GetProperty(t)
  <2>1. PICK s, c :
                /\ c = [at |-> "get", slot |-> s]
                /\ call' = [call EXCEPT ![t] = c]
    BY <1>4 DEF GetProperty, Become, Return
  <2>2. c.at = "get"
    BY <2>1
  <2>3. call[t].at = "idle"
    BY <1>4 DEF GetProperty, At, Idle
  <2>4. QED
    BY <1>1, <2>1, <2>2, <2>3 DEF Copies
<1>5. CASE GetLock(t)
  <2>1. PICK s, v, c :
                /\ c = [at |-> "get retain", slot |-> s, value |-> v]
                /\ call' = [call EXCEPT ![t] = c]
    BY <1>5 DEF GetLock, Become, Return
  <2>2. c.at = "get retain"
    BY <2>1
  <2>3. call[t].at = "get"
    BY <1>5 DEF GetLock, At, Idle
  <2>4. QED
    BY <1>1, <2>1, <2>2, <2>3 DEF Copies
<1>6. CASE GetRetain(t)
  <2>1. PICK v, c :
                /\ c = [at |-> "autorelease", value |-> v]
                /\ call' = [call EXCEPT ![t] = c]
    BY <1>6 DEF GetRetain, Become, Return
  <2>2. c.at = "autorelease"
    BY <2>1
  <2>3. call[t].at = "get retain"
    BY <1>6 DEF GetRetain, At, Idle
  <2>4. QED
    BY <1>1, <2>1, <2>2, <2>3 DEF Copies
<1>7. CASE SetProperty(t)
  <2>1. PICK s, v, b, c :
                /\ c = [at |-> "set", slot |-> s, value |-> v, copy |-> b]
                /\ call' = [call EXCEPT ![t] = c]
    BY <1>7 DEF SetProperty, Become, Return
  <2>2. c.at = "set"
    BY <2>1
  <2>3. call[t].at = "idle"
    BY <1>7 DEF SetProperty, At, Idle
  <2>4. QED
    BY <1>1, <2>1, <2>2, <2>3 DEF Copies
<1>8. CASE SetAcquire(t)
  <2>1. PICK s, v, c :
                /\ c = [at |-> "set read", slot |-> s, value |-> v]
                /\ call' = [call EXCEPT ![t] = c]
    BY <1>8 DEF SetAcquire, Become, Return
  <2>2. c.at = "set read"
    BY <2>1
  <2>3. call[t].at = "set"
    BY <1>8 DEF SetAcquire, At, Idle
  <2>4. QED
    BY <1>1, <2>1, <2>2, <2>3 DEF Copies
<1>9. CASE SetRead(t)
  <2>1. PICK s, v, w, c :
                /\ c = [at |-> "set write", slot |-> s, value |-> v, old |-> w]
                /\ call' = [call EXCEPT ![t] = c]
    BY <1>9 DEF SetRead, Become, Return
  <2>2. c.at = "set write"
    BY <2>1
  <2>3. call[t].at = "set read"
    BY <1>9 DEF SetRead, At, Idle
  <2>4. QED
    BY <1>1, <2>1, <2>2, <2>3 DEF Copies
<1>10. CASE SetWrite(t)
  <2>1. PICK v, c :
                /\ c = [at |-> "set release", value |-> v]
                /\ call' = [call EXCEPT ![t] = c]
    BY <1>10 DEF SetWrite, Become, Return
  <2>2. c.at = "set release"
    BY <2>1
  <2>3. call[t].at = "set write"
    BY <1>10 DEF SetWrite, At, Idle
  <2>4. QED
    BY <1>1, <2>1, <2>2, <2>3 DEF Copies
<1>11. CASE SetRelease(t)
  <2>1. PICK c :
                /\ c = [at |-> "idle"]
                /\ call' = [call EXCEPT ![t] = c]
    BY <1>11 DEF SetRelease, Become, Return
  <2>2. c.at = "idle"
    BY <2>1
  <2>3. call[t].at = "set release"
    BY <1>11 DEF SetRelease, At, Idle
  <2>4. QED
    BY <1>1, <2>1, <2>2, <2>3 DEF Copies
<1>12. CASE Create(t)
    BY <1>2, <1>12 DEF Create
<1>13. CASE SetClass(t)
    BY <1>2, <1>13 DEF SetClass
<1>14. CASE Associate(t)
  <2>1. PICK o, k, v, p, c :
                /\ c = [at |-> "associate", object |-> o, key |-> k, value |-> v,
                        policy |-> p, old |-> {}]
                /\ call' = [call EXCEPT ![t] = c]
    BY <1>14 DEF Associate, Become, Return
  <2>2. c.at = "associate"
    BY <2>1
  <2>3. call[t].at = "idle"
    BY <1>14 DEF Associate, At, Idle
  <2>4. QED
    BY <1>1, <2>1, <2>2, <2>3 DEF Copies
<1>15. CASE AcquireValue(t)
  <2>1. call[t].at = "associate" /\ call[t] \in AssociateCall
    BY <1>3, <1>15 DEF AcquireValue, At, CallTyped
  <2>2. PICK v, c : /\ c = [call[t] EXCEPT !.at = "associate lock", !.value = v]
                    /\ call' = [call EXCEPT ![t] = c]
    BY <1>15 DEF AcquireValue, Become
  <2>3. c.at = "associate lock"
    BY <2>1, <2>2 DEF AssociateCall
  <2>4. QED
    BY <1>1, <2>1, <2>2, <2>3 DEF Copies
<1>16. CASE FindOld(t)
  <2>1. call[t].at = "associate lock" /\ call[t] \in AssociateCall
    BY <1>3, <1>16 DEF FindOld, At, CallTyped
  <2>2. PICK old, c : /\ c = [call[t] EXCEPT !.at = "associate change", !.old = old]
                    /\ call' = [call EXCEPT ![t] = c]
    BY <1>16 DEF FindOld, Become
  <2>3. c.at = "associate change"
    BY <2>1, <2>2 DEF AssociateCall
  <2>4. QED
    BY <1>1, <2>1, <2>2, <2>3 DEF Copies
<1>17. CASE ChangeTable(t)
  <2>1. PICK o, old, c :
                /\ c = [at |-> "release", object |-> o, free |-> FALSE, old |-> old]
                /\ call' = [call EXCEPT ![t] = c]
    BY <1>17 DEF ChangeTable, Become, Return
  <2>2. c.at = "release"
    BY <2>1
  <2>3. call[t].at = "associate change"
    BY <1>17 DEF ChangeTable, At, Idle
  <2>4. QED
    BY <1>1, <2>1, <2>2, <2>3 DEF Copies
<1>18. CASE GetAssociated(t)
  <2>1. PICK o, k, c :
                /\ c = [at |-> "get associated", object |-> o, key |-> k]
                /\ call' = [call EXCEPT ![t] = c]
    BY <1>18 DEF GetAssociated, Become, Return
  <2>2. c.at = "get associated"
    BY <2>1
  <2>3. call[t].at = "idle"
    BY <1>18 DEF GetAssociated, At, Idle
  <2>4. QED
    BY <1>1, <2>1, <2>2, <2>3 DEF Copies
<1>19. CASE FindAssociated(t)
  <2>1. call[t].at = "get associated"
    BY <1>19 DEF FindAssociated, At
  <2>2. CASE Return(t)
    <3>1. PICK c : c = [at |-> "idle"] /\ call' = [call EXCEPT ![t] = c]
      BY <2>2 DEF Return, Become
    <3>2. c.at = "idle"
      BY <3>1
    <3>3. QED
      BY <1>1, <2>1, <3>1, <3>2 DEF Copies
  <2>3. CASE ~ Return(t)
    <3>1. PICK o, v, c : /\ c = [at |-> "retain", object |-> o, value |-> v]
                         /\ call' = [call EXCEPT ![t] = c]
      BY <1>19, <2>3 DEF FindAssociated, Become
    <3>2. c.at = "retain"
      BY <3>1
    <3>3. QED
      BY <1>1, <2>1, <3>1, <3>2 DEF Copies
  <2>4. QED
    BY <2>2, <2>3
<1>20. CASE RetainAssociated(t)
  <2>1. PICK o, v, c :
                /\ c = [at |-> "autorelease", object |-> o, value |-> v]
                /\ call' = [call EXCEPT ![t] = c]
    BY <1>20 DEF RetainAssociated, Become, Return
  <2>2. c.at = "autorelease"
    BY <2>1
  <2>3. call[t].at = "retain"
    BY <1>20 DEF RetainAssociated, At, Idle
  <2>4. QED
    BY <1>1, <2>1, <2>2, <2>3 DEF Copies
<1>21. CASE RemoveAssociations(t)
  <2>1. PICK o, c :
                /\ c = [at |-> "remove", object |-> o, free |-> FALSE]
                /\ call' = [call EXCEPT ![t] = c]
    BY <1>21 DEF RemoveAssociations, Become, Return
  <2>2. c.at = "remove"
    BY <2>1
  <2>3. call[t].at = "idle"
    BY <1>21 DEF RemoveAssociations, At, Idle
  <2>4. QED
    BY <1>1, <2>1, <2>2, <2>3 DEF Copies
<1>22. CASE Dispose(t)
  <2>1. PICK o, c :
                /\ \/ c = [at |-> "remove", object |-> o, free |-> TRUE]
                   \/ c = [at |-> "release", object |-> o, free |-> TRUE, old |-> {}]
                /\ call' = [call EXCEPT ![t] = c]
    BY <1>22 DEF Dispose, Become
  <2>2. c.at \in {"remove", "release"}
    <3>1. CASE c = [at |-> "remove", object |-> o, free |-> TRUE]
      BY <3>1
    <3>2. CASE c = [at |-> "release", object |-> o, free |-> TRUE, old |-> {}]
      BY <3>2
    <3>3. QED
      BY <2>1, <3>1, <3>2
  <2>3. call[t].at = "idle"
    BY <1>22 DEF Dispose, At, Idle
  <2>4. QED
    BY <1>1, <2>1, <2>2, <2>3 DEF Copies
<1>23. CASE RemoveTable(t)
  <2>1. PICK o, f, old, c :
                /\ c = [at |-> "release", object |-> o, free |-> f, old |-> old]
                /\ call' = [call EXCEPT ![t] = c]
    BY <1>23 DEF RemoveTable, Become, Return
  <2>2. c.at = "release"
    BY <2>1
  <2>3. call[t].at = "remove"
    BY <1>23 DEF RemoveTable, At, Idle
  <2>4. QED
    BY <1>1, <2>1, <2>2, <2>3 DEF Copies
<1>24. CASE ReleaseOld(t)
  <2>1. call[t].at = "release" /\ call[t] \in ReleaseCall
    BY <1>3, <1>24 DEF ReleaseOld, At, CallTyped
  <2>2. PICK old, c : /\ c = [call[t] EXCEPT !.old = old]
                    /\ call' = [call EXCEPT ![t] = c]
    BY <1>24 DEF ReleaseOld, Become
  <2>3. c.at = "release"
    BY <2>1, <2>2 DEF ReleaseCall
  <2>4. QED
    BY <1>1, <2>1, <2>2, <2>3 DEF Copies
<1>25. CASE Broken(t)
  <2>1. PICK c :
                /\ c = [at |-> "idle"]
                /\ call' = [call EXCEPT ![t] = c]
    BY <1>25 DEF Broken, Become, Return
  <2>2. c.at = "idle"
    BY <2>1
  <2>3. call[t].at = "release"
    BY <1>25 DEF Broken, At, Idle
  <2>4. QED
    BY <1>1, <2>1, <2>2, <2>3 DEF Copies
<1>26. CASE Alloc(t)
    BY <1>2, <1>26 DEF Alloc
<1>27. CASE LetGo(t)
    BY <1>2, <1>27 DEF LetGo
<1>28. CASE Drain(t)
    BY <1>2, <1>28 DEF Drain
<1>29. CASE Autorelease(t)
  <2>1. PICK c :
                /\ c = [at |-> "idle"]
                /\ call' = [call EXCEPT ![t] = c]
    BY <1>29 DEF Autorelease, Become, Return
  <2>2. c.at = "idle"
    BY <2>1
  <2>3. call[t].at = "autorelease"
    BY <1>29 DEF Autorelease, At, Idle
  <2>4. QED
    BY <1>1, <2>1, <2>2, <2>3 DEF Copies
<1>30. CASE Properties(t)
    BY <1>30, <1>4, <1>5, <1>6, <1>7, <1>8, <1>9, <1>10, <1>11 DEF Properties
<1>31. CASE Associations(t)
    BY <1>31, <1>12, <1>13, <1>14, <1>15, <1>16, <1>17, <1>18, <1>19, <1>20, <1>21, <1>22,
       <1>23, <1>24, <1>25 DEF Associations
<1>32. CASE Memory(t)
    BY <1>32, <1>26, <1>27, <1>28, <1>29 DEF Memory
<1>33. QED
    BY <1>30, <1>31, <1>32

LEMMA OtherStructInv ==
    ASSUME TypeInv, StructInv, NEW t \in Threads,
           Properties(t) \/ Associations(t) \/ Memory(t)
    PROVE  StructInv'
<1>1. UNCHANGED <<struct, StructLocks>>
  <2>1. CASE Properties(t)
    BY <2>1 DEF Properties, GetProperty, GetLock, GetRetain, SetProperty, SetAcquire, SetRead,
                SetWrite, SetRelease, accessors
  <2>2. CASE Associations(t) \/ Memory(t)
    BY <2>2 DEF Associations, Memory, accessors
  <2>3. QED
    BY <2>1, <2>2
<1>2. CASE call' = call
    BY <1>1, <1>2, SameStructs
<1>3. CASE call' # call
  <2>1. call[t].at \notin Copies
    BY <1>3, OtherCalls DEF OtherCall
  <2>2. PICK c : c.at \notin Copies /\ call' = [call EXCEPT ![t] = c]
    BY <1>3, OtherCalls DEF OtherCall
  <2>3. QED
    BY <1>1, <2>1, <2>2, OtherStep
<1>4. QED
    BY <1>2, <1>3

\* TypeInv and StructInv are kept by every step.
LEMMA NextStructInv == TypeInv /\ StructInv /\ [Next]_vars => (TypeInv /\ StructInv)'
<1> SUFFICES ASSUME TypeInv, StructInv, [Next]_vars
             PROVE  (TypeInv /\ StructInv)'
    OBVIOUS
<1>1. CASE UNCHANGED vars
  <2>1. UNCHANGED <<memory, call, accessors, references>>
    BY <1>1 DEF vars
  <2>2. StructInv'
    BY <2>1, SameStructs DEF accessors
  <2>3. TypeInv'
    BY <2>1, SameMemory, SameAccessors, SameReferences DEF TypeInv, CallTypes
  <2>4. QED
    BY <2>2, <2>3
<1>2. ASSUME NEW t \in Threads, Structures(t)
      PROVE  (TypeInv /\ StructInv)'
  <2>1. StructInv'
    BY <1>2, FillStructInv, CopyStructInv, CopyLockInv, CopyMoveInv, CopyUnlockInv
       DEF Structures
  <2>2. QED
    BY <1>2, <2>1, StructuresTypeInv
<1>3. ASSUME NEW t \in Threads, Properties(t) \/ Associations(t) \/ Memory(t)
      PROVE  (TypeInv /\ StructInv)'
    BY <1>3, OtherStructInv, PropertiesTypeInv, AssociationsTypeInv, MemoryTypeInv
<1>4. QED
    BY <1>1, <1>2, <1>3 DEF Next

\* A structure is in two parts only while one is moving into it.
LEMMA WholeStructs == StructInv => StructsAreWhole
<1> SUFFICES ASSUME StructInv, NEW a \in Structs
             PROVE  \/ struct[a][1] = struct[a][2]
                    \/ \E t \in Threads : At(t, "copy move") /\ call[t].dest = a
    BY DEF StructsAreWhole
<1>1. CASE struct[a][1] = struct[a][2]
    BY <1>1
<1>2. ASSUME NEW t \in Threads, HalfMoved(call[t]) /\ call[t].dest = a
      PROVE  At(t, "copy move") /\ call[t].dest = a
    BY <1>2 DEF HalfMoved, At
<1>3. QED
    BY <1>1, <1>2 DEF StructInv, WholeOK

\* Of a set of locks that are held one is the last of the array.
LEMMA LastOfStripes ==
    ASSUME NEW S \in SUBSET Stripes, S # {}
    PROVE  \E i \in S : \A j \in S : j <= i
<1>1. PICK n \in Nat : Stripes = 0..n
    BY StripesAreNumbers
<1> DEFINE G == {m \in Nat : \A T \in SUBSET (0..m) :
                     T # {} => \E i \in T : \A j \in T : j <= i}
<1>2. 0 \in G
  <2>1. ASSUME NEW T \in SUBSET (0..0), T # {}
        PROVE  \E i \in T : \A j \in T : j <= i
    <3>1. PICK i : i \in T
      BY <2>1
    <3>2. \A j \in T : j \in 0..0
      BY <2>1
    <3>3. \A j \in 0..0 : j = 0
      OBVIOUS
    <3>4. i = 0 /\ \A j \in T : j = 0
      BY <3>1, <3>2, <3>3
    <3>5. QED
      BY <3>1, <3>4
  <2>2. QED
    BY <2>1
<1>3. ASSUME NEW m \in G
      PROVE  m + 1 \in G
  <2>1. ASSUME NEW T \in SUBSET (0..m + 1), T # {}
        PROVE  \E i \in T : \A j \in T : j <= i
    <3>1. CASE m + 1 \in T
      <4>1. \A j \in T : j <= m + 1
        OBVIOUS
      <4>2. QED
        BY <3>1, <4>1
    <3>2. CASE m + 1 \notin T
      <4>1. T \in SUBSET (0..m)
        BY <3>2
      <4>2. QED
        BY <2>1, <4>1
    <3>3. QED
      BY <3>1, <3>2
  <2>2. QED
    BY <2>1
<1>4. G = Nat
  <2> HIDE DEF G
  <2>1. G \in SUBSET Nat
    BY DEF G
  <2>2. QED
    BY <1>2, <1>3, <2>1, SetInduction
<1>5. QED
    BY <1>1, <1>4

\* The thread that has the last lock held waits for none: it would wait for
\* one that comes after.
LEMMA SomeoneGoesOn == StructInv => CopiersDoNotDeadlock
<1> SUFFICES ASSUME StructInv
             PROVE  CopiersDoNotDeadlock
    OBVIOUS
<1> DEFINE Copying == {t \in Threads : \E i \in Stripes : StructLocks[i] = t}
           Waits(t) == /\ At(t, "copy lock")
                       /\ StructLocks[call[t].locks[call[t].next]] # nil
           Taking == {i \in Stripes : StructLocks[i] # nil}
<1>1. SUFFICES ASSUME Copying # {}
               PROVE  \E t \in Copying : ~ Waits(t)
    BY DEF CopiersDoNotDeadlock
<1>2. PICK i \in Taking : \A j \in Taking : j <= i
  <2>1. Taking # {}
    BY <1>1, LocalsArePrivate
  <2>2. Taking \in SUBSET Stripes
    OBVIOUS
  <2>3. QED
    BY <2>1, <2>2, LastOfStripes
<1>3. PICK t \in Threads : t = StructLocks[i]
    BY <1>2 DEF StructInv, StructTypes
<1>4. t \in Copying
    BY <1>2, <1>3
<1>5. ASSUME Waits(t)
      PROVE  FALSE
  <2>1. call[t].at = "copy lock" /\ call[t].at \in Copies
    BY <1>5 DEF At, Copies
  <2>2. i \in Taken(call[t])
    BY <1>2, <1>3 DEF StructInv, LocksOK
  <2>3. call[t].next = 2 /\ i = call[t].locks[1]
    BY <2>1, <2>2, TakenIs
  <2>4. CopyOK(t, call[t]) /\ InOrder(call[t].locks, call[t].src, call[t].dest)
    BY <2>1, CopyFacts
  <2>5. Len(call[t].locks) = 2
    BY <2>1, <2>3, <2>4 DEF CopyOK
  <2>6. PICK j \in Stripes : j = call[t].locks[2]
    BY <2>4, <2>5 DEF InOrder
  <2>7. i < j
    BY <2>3, <2>4, <2>5, <2>6 DEF InOrder
  <2>8. j \in Taking
    BY <1>5, <2>3, <2>6
  <2>9. j <= i /\ i \in Nat /\ j \in Nat
    BY <1>2, <2>8, StripesAreNumbers
  <2>10. QED
    BY <2>7, <2>9
<1>6. QED
    BY <1>4, <1>5

LEMMA StructSteps == Spec => [](TypeInv /\ StructInv)
<1>1. Init => TypeInv /\ StructInv
    BY InitTypeInv, InitStructInv
<1>2. TypeInv /\ StructInv /\ [Next]_vars => (TypeInv /\ StructInv)'
    BY NextStructInv
<1>3. QED
    BY <1>1, <1>2, PTL DEF Spec

\* objc_copyStruct, whatever locks its addresses have and however many threads
\* copy at once, leaves no structure with halves of two values: it has the
\* locks of both addresses while it moves.
THEOREM StructsAreWholeCorrect == Spec => []StructsAreWhole
<1>1. StructInv => StructsAreWhole
    BY WholeStructs
<1>2. QED
    BY <1>1, StructSteps, PTL

\* The order that lockfirst and locksecond give to the two locks of
\* objc_copyStruct is enough against deadlock: of the threads that have locks
\* the one with the last of the array waits for nobody.
THEOREM CopiersDoNotDeadlockCorrect == Spec => []CopiersDoNotDeadlock
<1>1. StructInv => CopiersDoNotDeadlock
    BY SomeoneGoesOn
<1>2. QED
    BY <1>1, StructSteps, PTL

-----------------------------------------------------------------------------
(* Retain counts.  The places that refer to a value, as functions of the    *)
(* variables they are in.                                                  *)

SlotsWith(slots, v) == {s \in Slots : slots[s] = v}

Holders(sets, v) == {t \in Threads : v \in sets[t]}

Carriers(calls, v) == {t \in Threads : Carries(calls[t], v)}

Tabled(tables, v) ==
    {p \in Owners \X Keys : Refers(Lookup(tables[p[1]], p[2]), p[2], v)}

Owers(calls, v) == {p \in Threads \X Keys : Refers(Owed(calls[p[1]]), p[2], v)}

CountsOK == \A v \in Objects : retainCount[v] = References(v)

LEMMA Sums ==
    ASSUME NEW v
    PROVE  /\ References(v) = Cardinality(SlotsWith(ivar, v)) + Cardinality(Holders(held, v))
                  + Cardinality(Holders(pool, v)) + Cardinality(Carriers(call, v))
                  + Cardinality(Tabled(associations, v)) + Cardinality(Owers(call, v))
           /\ References(v)' = Cardinality(SlotsWith(ivar', v)) + Cardinality(Holders(held', v))
                  + Cardinality(Holders(pool', v)) + Cardinality(Carriers(call', v))
                  + Cardinality(Tabled(associations', v)) + Cardinality(Owers(call', v))
BY DEF References, SlotsWith, Holders, Carriers, Tabled, Owers

\* They are finitely many.
LEMMA Finite ==
    ASSUME NEW v, NEW slots, NEW sets, NEW calls, NEW tables
    PROVE  /\ IsFiniteSet(SlotsWith(slots, v)) /\ Cardinality(SlotsWith(slots, v)) \in Nat
           /\ IsFiniteSet(Holders(sets, v)) /\ Cardinality(Holders(sets, v)) \in Nat
           /\ IsFiniteSet(Carriers(calls, v)) /\ Cardinality(Carriers(calls, v)) \in Nat
           /\ IsFiniteSet(Tabled(tables, v)) /\ Cardinality(Tabled(tables, v)) \in Nat
           /\ IsFiniteSet(Owers(calls, v)) /\ Cardinality(Owers(calls, v)) \in Nat
<1>1. /\ IsFiniteSet(Slots) /\ IsFiniteSet(Threads)
      /\ IsFiniteSet(Owners \X Keys) /\ IsFiniteSet(Threads \X Keys)
    BY ObjectsAssumption, FS_Product
<1>2. /\ SlotsWith(slots, v) \subseteq Slots /\ Holders(sets, v) \subseteq Threads
      /\ Carriers(calls, v) \subseteq Threads
      /\ Tabled(tables, v) \subseteq Owners \X Keys
      /\ Owers(calls, v) \subseteq Threads \X Keys
    BY DEF SlotsWith, Holders, Carriers, Tabled, Owers
<1>3. /\ IsFiniteSet(SlotsWith(slots, v)) /\ IsFiniteSet(Holders(sets, v))
      /\ IsFiniteSet(Carriers(calls, v))
    BY <1>1, <1>2, FS_Subset
<1>4. IsFiniteSet(Tabled(tables, v)) /\ IsFiniteSet(Owers(calls, v))
    BY <1>1, <1>2, FS_Subset
<1>5. QED
    BY <1>3, <1>4, FS_CardinalityType

\* Two sets that differ by one element at most.
Member(p, A) == IF p \in A THEN 1 ELSE 0

LEMMA OnePlace ==
    ASSUME NEW A, NEW B, NEW p, IsFiniteSet(A), A \ {p} = B \ {p}
    PROVE  Cardinality(B) = Cardinality(A) - Member(p, A) + Member(p, B)
<1>1. Cardinality(A) \in Nat
    BY FS_CardinalityType
<1>2. CASE p \in A /\ p \in B
  <2>1. A = B
    BY <1>2
  <2>2. QED
    BY <1>1, <2>1 DEF Member
<1>3. CASE p \notin A /\ p \notin B
  <2>1. A = B
    BY <1>3
  <2>2. QED
    BY <1>1, <2>1 DEF Member
<1>4. CASE p \in A /\ p \notin B
  <2>1. B = A \ {p}
    BY <1>4
  <2>2. Cardinality(B) = Cardinality(A) - 1
    BY <1>4, <2>1, FS_RemoveElement
  <2>3. Member(p, A) = 1 /\ Member(p, B) = 0
    BY <1>4 DEF Member
  <2>4. QED
    BY <1>1, <2>2, <2>3
<1>5. CASE p \notin A /\ p \in B
  <2>1. B = A \cup {p}
    BY <1>5
  <2>2. Cardinality(B) = Cardinality(A) + 1
    BY <1>5, <2>1, FS_AddElement
  <2>3. Member(p, A) = 0 /\ Member(p, B) = 1
    BY <1>5 DEF Member
  <2>4. QED
    BY <1>1, <2>2, <2>3
<1>6. QED
    BY <1>2, <1>3, <1>4, <1>5

\* A slot is written, a set is changed, a thread's call goes on.
LEMMA SlotChange ==
    ASSUME NEW v, NEW old, NEW new, NEW s,
           \A r \in Slots \ {s} : new[r] = old[r]
    PROVE  Cardinality(SlotsWith(new, v)) = Cardinality(SlotsWith(old, v))
               - Member(s, SlotsWith(old, v)) + Member(s, SlotsWith(new, v))
<1>1. SlotsWith(old, v) \ {s} = SlotsWith(new, v) \ {s}
    BY DEF SlotsWith
<1>2. QED
    BY <1>1, Finite, OnePlace

LEMMA SetChange ==
    ASSUME NEW v, NEW old, NEW new, NEW t, \A u \in Threads \ {t} : new[u] = old[u]
    PROVE  Cardinality(Holders(new, v)) = Cardinality(Holders(old, v))
               - Member(t, Holders(old, v)) + Member(t, Holders(new, v))
<1>1. Holders(old, v) \ {t} = Holders(new, v) \ {t}
    BY DEF Holders
<1>2. QED
    BY <1>1, Finite, OnePlace

LEMMA CallChange ==
    ASSUME NEW v, NEW old, NEW new, NEW t, \A u \in Threads \ {t} : new[u] = old[u]
    PROVE  Cardinality(Carriers(new, v)) = Cardinality(Carriers(old, v))
               - Member(t, Carriers(old, v)) + Member(t, Carriers(new, v))
<1>1. Carriers(old, v) \ {t} = Carriers(new, v) \ {t}
    BY DEF Carriers
<1>2. QED
    BY <1>1, Finite, OnePlace

LEMMA SameOwed ==
    ASSUME NEW v, NEW old, NEW new, NEW t, \A u \in Threads \ {t} : new[u] = old[u],
           Owed(new[t]) = Owed(old[t])
    PROVE  Owers(new, v) = Owers(old, v)
<1>1. ASSUME NEW p \in Threads \X Keys
      PROVE  Owed(new[p[1]]) = Owed(old[p[1]])
    BY <1>1
<1>2. QED
    BY <1>1 DEF Owers

\* A step after which only the call may have another reference.
LEMMA CallStep ==
    ASSUME TypeInv, CountsOK, NEW t \in Threads, \A u \in Threads \ {t} : call'[u] = call[u],
           UNCHANGED <<held, pool, ivar, associations>>, Owed(call'[t]) = Owed(call[t]),
           \A v \in Objects : retainCount'[v] = retainCount[v]
               - Member(t, Carriers(call, v)) + Member(t, Carriers(call', v))
    PROVE  CountsOK'
<1> SUFFICES ASSUME NEW v \in Objects
             PROVE  retainCount'[v] = References(v)'
    BY DEF CountsOK
<1>1. retainCount[v] = References(v)
    BY DEF CountsOK
<1>2. Owers(call', v) = Owers(call, v)
    BY SameOwed
<1>3. Cardinality(Carriers(call', v)) = Cardinality(Carriers(call, v))
          - Member(t, Carriers(call, v)) + Member(t, Carriers(call', v))
    BY CallChange
<1>4. /\ Cardinality(SlotsWith(ivar, v)) \in Nat /\ Cardinality(Holders(held, v)) \in Nat
      /\ Cardinality(Holders(pool, v)) \in Nat /\ Cardinality(Carriers(call, v)) \in Nat
      /\ Cardinality(Tabled(associations, v)) \in Nat /\ Cardinality(Owers(call, v)) \in Nat
    BY Finite
<1>5. Member(t, Carriers(call, v)) \in Int /\ Member(t, Carriers(call', v)) \in Int
    BY DEF Member
<1>6. QED
    BY <1>1, <1>2, <1>3, <1>4, <1>5, Sums

-----------------------------------------------------------------------------
(* What a call has found or been given, it may rely on.                    *)

\* An accessor: it has the lock of its slot where it has read the slot, or is
\* its only user.
PropertyOK(t) ==
    /\ call[t].at \in {"set", "set read", "set write"} => MayUse(t, call[t].slot)
    /\ call[t].at = "get retain" =>
           /\ PropertyLocks[GOODHASH(call[t].slot)] = t
           /\ call[t].value = ivar[call[t].slot]
    /\ call[t].at = "set write" =>
           /\ call[t].slot \in Nonatomic \/ PropertyLocks[GOODHASH(call[t].slot)] = t
           /\ call[t].old = ivar[call[t].slot]

\* A function on associations: it has the manager's lock while it uses what
\* it has found in the table.
AssociationOK(t) ==
    /\ call[t].at = "associate change" =>
           /\ managerLock = t
           /\ call[t].old = Lookup(associations[call[t].object], call[t].key)
    /\ call[t].at = "retain" =>
           /\ managerLock = t
           /\ \E k \in Keys : \E e \in Lookup(associations[call[t].object], k) :
                  e[2].value = call[t].value /\ ReleasesOld(e[2].policy)
    /\ call[t].at = "release" => \A e, f \in call[t].old : e[1] = f[1] => e = f

Getting == {"get", "get retain", "get associated", "retain", "autorelease"}

\* A getter's pool is empty, and a setter's value is one the thread may use.
UseOK(t) ==
    /\ call[t].at \in Getting => pool[t] = {}
    /\ call[t].at \in {"set", "associate"} => call[t].value \in held[t] \cup pool[t] \cup {nil}

LocalsOK == \A t \in Threads : PropertyOK(t) /\ AssociationOK(t) /\ UseOK(t)

\* A step of t changes nothing that another thread relies on.
LEMMA OthersRely ==
    ASSUME TypeInv, LocalsOK, NEW t \in Threads, NEW u \in Threads, u # t, call'[u] = call[u],
           \A s \in Slots : \/ ivar'[s] = ivar[s]
                            \/ s \in Nonatomic /\ MayUse(t, s)
                            \/ s \notin Nonatomic /\ PropertyLocks[GOODHASH(s)] = t,
           \A i \in Stripes : PropertyLocks'[i] = PropertyLocks[i] \/ PropertyLocks[i] \in {nil, t},
           managerLock \in {nil, t} \/ UNCHANGED <<managerLock, associations>>,
           held'[u] = held[u], pool'[u] = pool[u]
    PROVE  PropertyOK(u)' /\ AssociationOK(u)' /\ UseOK(u)'
<1>1. PropertyOK(u) /\ AssociationOK(u) /\ UseOK(u) /\ CallTyped(call[u])
    BY DEF LocalsOK, TypeInv, CallTypes
<1>2. u # nil
    BY LocalsArePrivate
<1>3. ASSUME NEW s \in Slots, PropertyLocks[GOODHASH(s)] = u
      PROVE  PropertyLocks'[GOODHASH(s)] = u
  <2>1. GOODHASH(s) \in Stripes
    BY StripeOf, AccessorsAssumption
  <2>2. QED
    BY <1>2, <1>3, <2>1
<1>4. ASSUME NEW s \in Slots, s \in Nonatomic => MayUse(u, s),
             s \in Nonatomic \/ PropertyLocks[GOODHASH(s)] = u
      PROVE  ivar'[s] = ivar[s]
    BY <1>4 DEF MayUse
<1>5. PropertyOK(u)'
  <2>1. call[u].at \in {"set", "set read", "set write"} => MayUse(u, call[u].slot)
    BY <1>1 DEF PropertyOK
  <2>2. ASSUME call[u].at = "get retain"
        PROVE  /\ PropertyLocks'[GOODHASH(call[u].slot)] = u
               /\ call[u].value = ivar'[call[u].slot]
    <3>1. call[u].slot \in Slots \ Nonatomic
      BY <1>1, <2>2 DEF CallTyped
    <3>2. PropertyLocks[GOODHASH(call[u].slot)] = u /\ call[u].value = ivar[call[u].slot]
      BY <1>1, <2>2 DEF PropertyOK
    <3>3. QED
      BY <1>3, <1>4, <3>1, <3>2
  <2>3. ASSUME call[u].at = "set write"
        PROVE  /\ call[u].slot \in Nonatomic \/ PropertyLocks'[GOODHASH(call[u].slot)] = u
               /\ call[u].old = ivar'[call[u].slot]
    <3>1. call[u].slot \in Slots
      BY <1>1, <2>3 DEF CallTyped
    <3>2. /\ call[u].slot \in Nonatomic \/ PropertyLocks[GOODHASH(call[u].slot)] = u
          /\ call[u].old = ivar[call[u].slot]
      BY <1>1, <2>3 DEF PropertyOK
    <3>3. QED
      BY <1>3, <1>4, <2>1, <2>3, <3>1, <3>2
  <2>4. QED
    BY <2>1, <2>2, <2>3 DEF PropertyOK, MayUse
<1>6. AssociationOK(u)'
  <2>1. ASSUME managerLock = u
        PROVE  managerLock' = u /\ associations' = associations
    BY <1>2, <2>1
  <2>2. QED
    BY <1>1, <2>1 DEF AssociationOK
<1>7. UseOK(u)'
    BY <1>1 DEF UseOK
<1>8. QED
    BY <1>5, <1>6, <1>7

\* Steps of t that change no slot and no table.
LEMMA LocalsStep ==
    ASSUME TypeInv, LocalsOK, NEW t \in Threads, \A u \in Threads \ {t} : call'[u] = call[u],
           \A s \in Slots : \/ ivar'[s] = ivar[s]
                            \/ s \in Nonatomic /\ MayUse(t, s)
                            \/ s \notin Nonatomic /\ PropertyLocks[GOODHASH(s)] = t,
           \A i \in Stripes : PropertyLocks'[i] = PropertyLocks[i] \/ PropertyLocks[i] \in {nil, t},
           managerLock \in {nil, t} \/ UNCHANGED <<managerLock, associations>>,
           \A u \in Threads \ {t} : held'[u] = held[u] /\ pool'[u] = pool[u],
           PropertyOK(t)' /\ AssociationOK(t)' /\ UseOK(t)'
    PROVE  LocalsOK'
<1>1. ASSUME NEW u \in Threads
      PROVE  PropertyOK(u)' /\ AssociationOK(u)' /\ UseOK(u)'
  <2>1. CASE u = t
    BY <2>1
  <2>2. CASE u # t
    BY <2>2, OthersRely
  <2>3. QED
    BY <2>1, <2>2
<1>2. QED
    BY <1>1 DEF LocalsOK

\* A call at none of these places relies on nothing.
Relying == {"set", "set read", "set write", "get retain", "associate change", "retain",
            "release", "associate"} \cup Getting

LEMMA ReliesOnNothing ==
    ASSUME NEW t, call'[t].at \notin Relying
    PROVE  PropertyOK(t)' /\ AssociationOK(t)' /\ UseOK(t)'
BY DEF Relying, Getting, PropertyOK, AssociationOK, UseOK

\* Getters retain, and setters copy or retain, what somebody refers to.
LEMMA Referred ==
    ASSUME NEW v \in Objects, CountsOK,
           \/ \E s \in Slots : ivar[s] = v
           \/ \E t \in Threads : v \in held[t] \cup pool[t]
           \/ \E p \in Owners \X Keys : Refers(Lookup(associations[p[1]], p[2]), p[2], v)
    PROVE  retainCount[v] > 0
<1>1. /\ Cardinality(SlotsWith(ivar, v)) \in Nat /\ Cardinality(Holders(held, v)) \in Nat
      /\ Cardinality(Holders(pool, v)) \in Nat /\ Cardinality(Carriers(call, v)) \in Nat
      /\ Cardinality(Tabled(associations, v)) \in Nat /\ Cardinality(Owers(call, v)) \in Nat
    BY Finite
<1>2. \/ SlotsWith(ivar, v) # {} \/ Holders(held, v) # {} \/ Holders(pool, v) # {}
      \/ Tabled(associations, v) # {}
    BY DEF SlotsWith, Holders, Tabled
<1>3. \/ Cardinality(SlotsWith(ivar, v)) # 0 \/ Cardinality(Holders(held, v)) # 0
      \/ Cardinality(Holders(pool, v)) # 0 \/ Cardinality(Tabled(associations, v)) # 0
  <2>1. /\ IsFiniteSet(SlotsWith(ivar, v)) /\ IsFiniteSet(Holders(held, v))
        /\ IsFiniteSet(Holders(pool, v)) /\ IsFiniteSet(Tabled(associations, v))
    BY Finite
  <2>2. QED
    BY <1>2, <2>1, FS_EmptySet
<1>4. QED
    BY <1>1, <1>3, Sums DEF CountsOK

LEMMA UnreferredTo ==
    ASSUME NEW v \in Objects, CountsOK, retainCount[v] = 0
    PROVE  \A t \in Threads : v \notin held[t] /\ v \notin pool[t]
BY Referred

LEMMA CountsAreRight == TypeInv /\ LocalsOK /\ CountsOK => CountsAreReferences
<1> SUFFICES ASSUME TypeInv, LocalsOK, CountsOK
             PROVE  CountsAreReferences
    OBVIOUS
<1>1. ASSUME NEW t \in Threads, AboutToRetain(t), call[t].value # nil
      PROVE  retainCount[call[t].value] > 0
  <2>1. PropertyOK(t) /\ AssociationOK(t) /\ UseOK(t) /\ CallTyped(call[t])
    BY DEF LocalsOK, TypeInv, CallTypes
  <2>2. CASE call[t].at = "get retain"
    <3>1. call[t].slot \in Slots /\ call[t].value \in Objects
      BY <1>1, <2>1, <2>2 DEF CallTyped, Value
    <3>2. ivar[call[t].slot] = call[t].value
      BY <2>1, <2>2 DEF PropertyOK
    <3>3. QED
      BY <3>1, <3>2, Referred
  <2>3. CASE call[t].at = "retain"
    <3>1. call[t].object \in Owners /\ call[t].value \in Objects
      BY <2>1, <2>3 DEF CallTyped, RetainCall
    <3>2. PICK k \in Keys : \E e \in Lookup(associations[call[t].object], k) :
                  e[2].value = call[t].value /\ ReleasesOld(e[2].policy)
      BY <2>1, <2>3 DEF AssociationOK
    <3>3. associations[call[t].object] \in Tables
      BY <3>1 DEF TypeInv, ReferenceTypes
    <3>4. Refers(Lookup(associations[call[t].object], k), k, call[t].value)
      BY <3>2, <3>3, Found DEF Refers
    <3>5. PICK p \in Owners \X Keys : p = <<call[t].object, k>>
      BY <3>1
    <3>6. Refers(Lookup(associations[p[1]], p[2]), p[2], call[t].value)
      BY <3>4, <3>5
    <3>7. QED
      BY <3>1, <3>6, Referred
  <2>4. CASE call[t].at \in {"set", "associate"}
    <3>1. call[t].value \in held[t] \cup pool[t]
      BY <1>1, <2>1, <2>4 DEF UseOK
    <3>2. call[t].value \in Objects
      BY <3>1 DEF TypeInv, MemoryTypes
    <3>3. QED
      BY <3>1, <3>2, Referred
  <2>5. QED
    BY <1>1, <2>2, <2>3, <2>4 DEF AboutToRetain
<1>2. QED
    BY <1>1 DEF CountsAreReferences, CountsOK

LEMMA InitCounts == Init => LocalsOK /\ CountsOK
<1> SUFFICES ASSUME Init
             PROVE  LocalsOK /\ CountsOK
    OBVIOUS
<1>1. ValuesInit /\ AccessorsInit /\ ReferencesInit
    BY DEF Init
<1>2. ASSUME NEW t \in Threads
      PROVE  call[t].at = "idle"
    BY <1>1 DEF ValuesInit
<1>3. LocalsOK
    BY <1>2 DEF LocalsOK, PropertyOK, AssociationOK, UseOK, Getting
<1>4. ASSUME NEW v \in Objects
      PROVE  retainCount[v] = References(v)
  <2>1. SlotsWith(ivar, v) = {}
    BY <1>1, ValuesAssumption DEF SlotsWith, AccessorsInit
  <2>2. Holders(held, v) = {} /\ Holders(pool, v) = {}
    BY <1>1 DEF Holders, ValuesInit
  <2>3. Carriers(call, v) = {}
    BY <1>2 DEF Carriers, Carries
  <2>4. Tabled(associations, v) = {}
    <3>1. ASSUME NEW p \in Owners \X Keys
          PROVE  Lookup(associations[p[1]], p[2]) = {}
      BY <1>1 DEF Lookup, ReferencesInit
    <3>2. QED
      BY <3>1 DEF Tabled, Refers
  <2>5. Owers(call, v) = {}
    <3>1. ASSUME NEW p \in Threads \X Keys
          PROVE  Owed(call[p[1]]) = {}
      BY <1>2 DEF Owed
    <3>2. QED
      BY <3>1 DEF Owers, Refers
  <2>6. retainCount[v] = 0
    BY <1>1 DEF ValuesInit
  <2>7. QED
    BY <2>1, <2>2, <2>3, <2>4, <2>5, <2>6, Sums, FS_EmptySet
<1>5. QED
    BY <1>3, <1>4 DEF CountsOK

\* One reference more, or less, for w.
Is(w, v) == IF w = v THEN 1 ELSE 0

LEMMA RetainsOne ==
    ASSUME MemoryTypes, NEW w \in Value, NEW v \in Objects
    PROVE  /\ Retained(w)[v] = retainCount[v] + Is(w, v)
           /\ Released(w)[v] = retainCount[v] - Is(w, v)
           /\ retainCount[v] \in Int /\ Is(w, v) \in {0, 1}
<1>1. CASE w = nil
    BY <1>1, ValuesAssumption DEF MemoryTypes, Retained, Released, Is
<1>2. CASE w \in Objects
    BY <1>2, ValuesAssumption DEF MemoryTypes, Retained, Released, Is
<1>3. QED
    BY <1>1, <1>2 DEF Value

\* Whether a call carries a reference to v.
LEMMA CarriedBy ==
    ASSUME NEW t \in Threads, NEW calls, NEW v
    PROVE  /\ calls[t].at \in {"set read", "set write", "set release", "autorelease"} =>
                  Member(t, Carriers(calls, v)) = Is(calls[t].value, v)
           /\ calls[t].at \in {"associate lock", "associate change"} =>
                  Member(t, Carriers(calls, v)) =
                      IF ReleasesOld(calls[t].policy) THEN Is(calls[t].value, v) ELSE 0
           /\ calls[t].at \notin {"set read", "set write", "set release", "autorelease",
                                  "associate lock", "associate change"} =>
                  Member(t, Carriers(calls, v)) = 0
<1>1. CASE calls[t].at \in {"set read", "set write", "set release", "autorelease"}
  <2>1. t \in Carriers(calls, v) <=> calls[t].value = v
    BY <1>1 DEF Carriers, Carries
  <2>2. QED
    BY <1>1, <2>1 DEF Member, Is
<1>2. CASE calls[t].at \in {"associate lock", "associate change"}
  <2>1. t \in Carriers(calls, v) <=> calls[t].value = v /\ ReleasesOld(calls[t].policy)
    BY <1>2 DEF Carriers, Carries
  <2>2. QED
    BY <1>2, <2>1 DEF Member, Is
<1>3. CASE calls[t].at \notin {"set read", "set write", "set release", "autorelease",
                               "associate lock", "associate change"}
  <2>1. t \notin Carriers(calls, v)
    BY <1>3 DEF Carriers, Carries
  <2>2. QED
    BY <1>3, <2>1 DEF Member
<1>4. QED
    BY <1>1, <1>2, <1>3

LEMMA OneCall ==
    ASSUME TypeInv, NEW t \in Threads, NEW c, call' = [call EXCEPT ![t] = c]
    PROVE  call'[t] = c /\ \A u \in Threads \ {t} : call'[u] = call[u]
BY DEF TypeInv, CallTypes

CountInv == LocalsOK /\ CountsOK

\* Steps that change none of the variables the counts are about.
LEMMA SameCounts ==
    ASSUME CountInv,
           UNCHANGED <<retainCount, held, pool, call, ivar, PropertyLocks, associations,
                       managerLock>>
    PROVE  CountInv'
<1>1. ASSUME NEW t \in Threads
      PROVE  PropertyOK(t)' /\ AssociationOK(t)' /\ UseOK(t)'
  <2>1. PropertyOK(t) /\ AssociationOK(t) /\ UseOK(t)
    BY DEF CountInv, LocalsOK
  <2>2. PropertyOK(t)'
    BY <2>1 DEF PropertyOK, MayUse
  <2>3. AssociationOK(t)'
    BY <2>1 DEF AssociationOK
  <2>4. UseOK(t)'
    BY <2>1 DEF UseOK
  <2>5. QED
    BY <2>2, <2>3, <2>4
<1>2. CountsOK'
    BY Sums DEF CountInv, CountsOK
<1>3. QED
    BY <1>1, <1>2 DEF CountInv, LocalsOK

\* A call goes on, and nothing is retained, released or stored.
LEMMA QuietStep ==
    ASSUME TypeInv, CountInv, NEW t \in Threads, NEW c, call' = [call EXCEPT ![t] = c],
           UNCHANGED <<retainCount, held, pool, ivar, PropertyLocks, associations>>,
           managerLock = nil \/ UNCHANGED managerLock,
           \A v \in Objects : Carries(c, v) <=> Carries(call[t], v),
           Owed(c) = Owed(call[t]),
           PropertyOK(t)' /\ AssociationOK(t)' /\ UseOK(t)'
    PROVE  CountInv'
<1>1. call'[t] = c /\ \A u \in Threads \ {t} : call'[u] = call[u]
    BY OneCall
<1>2. LocalsOK'
    BY <1>1, LocalsStep DEF CountInv
<1>3. ASSUME NEW v \in Objects
      PROVE  retainCount'[v] = retainCount[v]
                 - Member(t, Carriers(call, v)) + Member(t, Carriers(call', v))
  <2>1. Member(t, Carriers(call', v)) = Member(t, Carriers(call, v))
    BY <1>1 DEF Carriers, Member
  <2>2. retainCount[v] \in Int /\ Member(t, Carriers(call, v)) \in Int
    BY DEF TypeInv, MemoryTypes, Member
  <2>3. QED
    BY <2>1, <2>2
<1>4. CountsOK'
    BY <1>1, <1>3, CallStep DEF CountInv
<1>5. QED
    BY <1>2, <1>4 DEF CountInv

\* An idle thread allocates, lets go, drains its pool.
LEMMA AllocCounts ==
    ASSUME TypeInv, CountInv, NEW t \in Threads, Alloc(t), UNCHANGED <<accessors, references>>
    PROVE  CountInv'
<1>1. PICK w \in Objects : /\ retainCount[w] = 0
                           /\ retainCount' = Retained(w)
                           /\ held' = [held EXCEPT ![t] = held[t] \cup {w}]
    BY DEF Alloc, Free
<1>2. /\ UNCHANGED <<pool, call, ivar, PropertyLocks, associations, managerLock>>
      /\ call[t].at = "idle" /\ held \in [Threads -> SUBSET Objects]
      /\ MemoryTypes /\ CountsOK /\ LocalsOK
    BY DEF Alloc, Idle, At, accessors, references, TypeInv, MemoryTypes, CountInv
<1>3. \A u \in Threads \ {t} : held'[u] = held[u]
    BY <1>1, <1>2
<1>4. LocalsOK'
  <2>1. PropertyOK(t)' /\ AssociationOK(t)' /\ UseOK(t)'
    BY <1>2, ReliesOnNothing DEF Relying, Getting
  <2>2. QED
    BY <1>2, <1>3, <2>1, LocalsStep
<1>5. ASSUME NEW v \in Objects
      PROVE  retainCount'[v] = References(v)'
  <2>1. Cardinality(Holders(held', v)) = Cardinality(Holders(held, v))
            - Member(t, Holders(held, v)) + Member(t, Holders(held', v))
    BY <1>3, SetChange
  <2>2. Member(t, Holders(held', v)) = Member(t, Holders(held, v)) + Is(w, v)
    <3>1. w \notin held[t] /\ held'[t] = held[t] \cup {w}
      BY <1>1, <1>2, UnreferredTo
    <3>2. QED
      BY <3>1 DEF Member, Is, Holders
  <2>3. Member(t, Holders(held, v)) \in Int /\ Is(w, v) \in Int
    BY DEF Member, Is
  <2>4. retainCount'[v] = retainCount[v] + Is(w, v)
    BY <1>1, <1>2, RetainsOne DEF Value
  <2>5. /\ Cardinality(SlotsWith(ivar, v)) \in Nat /\ Cardinality(Holders(held, v)) \in Nat
        /\ Cardinality(Holders(pool, v)) \in Nat /\ Cardinality(Carriers(call, v)) \in Nat
        /\ Cardinality(Tabled(associations, v)) \in Nat /\ Cardinality(Owers(call, v)) \in Nat
    BY Finite
  <2>6. QED
    BY <1>2, <2>1, <2>2, <2>3, <2>4, <2>5, Sums DEF CountsOK
<1>6. QED
    BY <1>4, <1>5 DEF CountInv, CountsOK

LEMMA LetGoCounts ==
    ASSUME TypeInv, CountInv, NEW t \in Threads, LetGo(t), UNCHANGED <<accessors, references>>
    PROVE  CountInv'
<1>1. PICK w \in Objects : /\ w \in held[t]
                           /\ retainCount' = Released(w)
                           /\ held' = [held EXCEPT ![t] = held[t] \ {w}]
    BY DEF LetGo, TypeInv, MemoryTypes
<1>2. /\ UNCHANGED <<pool, call, ivar, PropertyLocks, associations, managerLock>>
      /\ call[t].at = "idle" /\ held \in [Threads -> SUBSET Objects]
      /\ MemoryTypes /\ CountsOK /\ LocalsOK
    BY DEF LetGo, Idle, At, accessors, references, TypeInv, MemoryTypes, CountInv
<1>3. \A u \in Threads \ {t} : held'[u] = held[u]
    BY <1>1, <1>2
<1>4. LocalsOK'
  <2>1. PropertyOK(t)' /\ AssociationOK(t)' /\ UseOK(t)'
    BY <1>2, ReliesOnNothing DEF Relying, Getting
  <2>2. QED
    BY <1>2, <1>3, <2>1, LocalsStep
<1>5. ASSUME NEW v \in Objects
      PROVE  retainCount'[v] = References(v)'
  <2>1. Cardinality(Holders(held', v)) = Cardinality(Holders(held, v))
            - Member(t, Holders(held, v)) + Member(t, Holders(held', v))
    BY <1>3, SetChange
  <2>2. Member(t, Holders(held', v)) = Member(t, Holders(held, v)) - Is(w, v)
    <3>1. w \in held[t] /\ held'[t] = held[t] \ {w}
      BY <1>1, <1>2
    <3>2. QED
      BY <3>1 DEF Member, Is, Holders
  <2>3. Member(t, Holders(held, v)) \in Int /\ Is(w, v) \in Int
    BY DEF Member, Is
  <2>4. retainCount'[v] = retainCount[v] - Is(w, v)
    BY <1>1, <1>2, RetainsOne DEF Value
  <2>5. /\ Cardinality(SlotsWith(ivar, v)) \in Nat /\ Cardinality(Holders(held, v)) \in Nat
        /\ Cardinality(Holders(pool, v)) \in Nat /\ Cardinality(Carriers(call, v)) \in Nat
        /\ Cardinality(Tabled(associations, v)) \in Nat /\ Cardinality(Owers(call, v)) \in Nat
    BY Finite
  <2>6. QED
    BY <1>2, <2>1, <2>2, <2>3, <2>4, <2>5, Sums DEF CountsOK
<1>6. QED
    BY <1>4, <1>5 DEF CountInv, CountsOK

LEMMA DrainCounts ==
    ASSUME TypeInv, CountInv, NEW t \in Threads, Drain(t), UNCHANGED <<accessors, references>>
    PROVE  CountInv'
<1>1. pool' = [pool EXCEPT ![t] = {}]
    BY DEF Drain
<1>2. /\ UNCHANGED <<held, call, ivar, PropertyLocks, associations, managerLock>>
      /\ call[t].at = "idle" /\ pool \in [Threads -> SUBSET Objects]
      /\ MemoryTypes /\ CountsOK /\ LocalsOK
    BY DEF Drain, Idle, At, accessors, references, TypeInv, MemoryTypes, CountInv
<1>3. \A u \in Threads \ {t} : pool'[u] = pool[u]
    BY <1>1, <1>2
<1>4. LocalsOK'
  <2>1. PropertyOK(t)' /\ AssociationOK(t)' /\ UseOK(t)'
    BY <1>2, ReliesOnNothing DEF Relying, Getting
  <2>2. QED
    BY <1>2, <1>3, <2>1, LocalsStep
<1>5. ASSUME NEW v \in Objects
      PROVE  retainCount'[v] = References(v)'
  <2>1. Cardinality(Holders(pool', v)) = Cardinality(Holders(pool, v))
            - Member(t, Holders(pool, v)) + Member(t, Holders(pool', v))
    BY <1>3, SetChange
  <2>2. Member(t, Holders(pool', v)) = 0
    <3>1. pool'[t] = {}
      BY <1>1, <1>2
    <3>2. QED
      BY <3>1 DEF Member, Holders
  <2>3. Member(t, Holders(pool, v)) \in Int
    BY DEF Member
  <2>4. retainCount'[v] = retainCount[v] - Member(t, Holders(pool, v))
    <3>1. v \in pool[t] <=> t \in Holders(pool, v)
      BY DEF Holders
    <3>2. retainCount'[v] = retainCount[v] - IF v \in pool[t] THEN 1 ELSE 0
      BY DEF Drain
    <3>3. QED
      BY <3>1, <3>2 DEF Member
  <2>5. /\ Cardinality(SlotsWith(ivar, v)) \in Nat /\ Cardinality(Holders(held, v)) \in Nat
        /\ Cardinality(Holders(pool, v)) \in Nat /\ Cardinality(Carriers(call, v)) \in Nat
        /\ Cardinality(Tabled(associations, v)) \in Nat /\ Cardinality(Owers(call, v)) \in Nat
    BY Finite
  <2>6. QED
    BY <1>2, <2>1, <2>2, <2>3, <2>4, <2>5, Sums DEF CountsOK
<1>6. QED
    BY <1>4, <1>5 DEF CountInv, CountsOK

\* The last step of a getter moves its reference to the pool.
LEMMA AutoreleaseCounts ==
    ASSUME TypeInv, CountInv, NEW t \in Threads, Autorelease(t),
           UNCHANGED <<accessors, references>>
    PROVE  CountInv'
<1>1. call[t].at = "autorelease"
    BY DEF Autorelease, At
<1>2. PICK w \in Value : w = call[t].value
    BY <1>1 DEF TypeInv, CallTypes, CallTyped
<1>3. PICK c : c = [at |-> "idle"] /\ call' = [call EXCEPT ![t] = c]
    BY DEF Autorelease, Return, Become
<1>4. call'[t].at = "idle" /\ \A u \in Threads \ {t} : call'[u] = call[u]
  <2>1. c.at = "idle"
    BY <1>3
  <2>2. QED
    BY <1>3, <2>1, OneCall
<1>5. /\ UNCHANGED <<retainCount, held, ivar, PropertyLocks, associations, managerLock>>
      /\ pool' = [pool EXCEPT ![t] = pool[t] \cup ({w} \ {nil})]
      /\ pool \in [Threads -> SUBSET Objects]
      /\ MemoryTypes /\ CountsOK /\ LocalsOK
    BY <1>2 DEF Autorelease, accessors, references, TypeInv, MemoryTypes, CountInv
<1>6. pool[t] = {}
    BY <1>1, <1>5 DEF LocalsOK, UseOK, Getting
<1>7. pool'[t] = {w} \ {nil} /\ \A u \in Threads \ {t} : pool'[u] = pool[u]
    BY <1>5, <1>6
<1>8. LocalsOK'
  <2>1. PropertyOK(t)' /\ AssociationOK(t)' /\ UseOK(t)'
    BY <1>4, ReliesOnNothing DEF Relying, Getting
  <2>2. QED
    BY <1>4, <1>5, <1>7, <2>1, LocalsStep
<1>9. ASSUME NEW v \in Objects
      PROVE  retainCount'[v] = References(v)'
  <2>1. Cardinality(Holders(pool', v)) = Cardinality(Holders(pool, v))
            - Member(t, Holders(pool, v)) + Member(t, Holders(pool', v))
    BY <1>7, SetChange
  <2>2. Member(t, Holders(pool, v)) = 0 /\ Member(t, Holders(pool', v)) = Is(w, v)
    BY <1>6, <1>7, ValuesAssumption DEF Member, Holders, Is
  <2>3. Cardinality(Carriers(call', v)) = Cardinality(Carriers(call, v))
            - Member(t, Carriers(call, v)) + Member(t, Carriers(call', v))
    BY <1>4, CallChange
  <2>4. Member(t, Carriers(call, v)) = Is(w, v) /\ Member(t, Carriers(call', v)) = 0
    BY <1>1, <1>2, <1>4, CarriedBy
  <2>5. Owers(call', v) = Owers(call, v)
    BY <1>1, <1>4, SameOwed DEF Owed
  <2>6. Is(w, v) \in Int
    BY DEF Is
  <2>7. /\ Cardinality(SlotsWith(ivar, v)) \in Nat /\ Cardinality(Holders(held, v)) \in Nat
        /\ Cardinality(Holders(pool, v)) \in Nat /\ Cardinality(Carriers(call, v)) \in Nat
        /\ Cardinality(Tabled(associations, v)) \in Nat /\ Cardinality(Owers(call, v)) \in Nat
    BY Finite
  <2>8. retainCount'[v] = References(v)
    BY <1>5 DEF CountsOK
  <2>9. References(v)' = Cardinality(SlotsWith(ivar, v)) + Cardinality(Holders(held, v))
            + Cardinality(Holders(pool', v)) + Cardinality(Carriers(call', v))
            + Cardinality(Tabled(associations, v)) + Cardinality(Owers(call, v))
    BY <1>5, <2>5, Sums
  <2>10. QED
    BY <2>1, <2>2, <2>3, <2>4, <2>6, <2>7, <2>8, <2>9, Sums
<1>10. QED
    BY <1>8, <1>9 DEF CountInv, CountsOK

\* The steps of property accessors.  An atomic one reads and writes its slot
\* inside the lock.
LEMMA GetPropertyCounts ==
    ASSUME TypeInv, CountInv, NEW t \in Threads, GetProperty(t), UNCHANGED references
    PROVE  CountInv'
<1>1. call[t].at = "idle" /\ pool[t] = {} /\ UNCHANGED <<memory, accessors, references>>
    BY DEF GetProperty, Idle, At
<1>2. PICK s, c : c = [at |-> "get", slot |-> s] /\ call' = [call EXCEPT ![t] = c]
    BY DEF GetProperty, Become
<1>3. c.at = "get"
    BY <1>2
<1>4. call'[t] = c /\ \A u \in Threads \ {t} : call'[u] = call[u]
  <2>1. call' = [call EXCEPT ![t] = c]
    BY <1>2
  <2>2. QED
    BY <2>1, OneCall
<1>5. PropertyOK(t)' /\ AssociationOK(t)' /\ UseOK(t)'
    BY <1>1, <1>3, <1>4 DEF PropertyOK, AssociationOK, UseOK, memory
<1>6. LocalsOK'
    BY <1>1, <1>4, <1>5, LocalsStep DEF CountInv, memory, accessors, references
<1>7. ASSUME NEW v \in Objects
      PROVE  retainCount'[v] = retainCount[v]
                 - Member(t, Carriers(call, v)) + Member(t, Carriers(call', v))
  <2>1. Member(t, Carriers(call, v)) = 0 /\ Member(t, Carriers(call', v)) = 0
    BY <1>1, <1>3, <1>4, CarriedBy
  <2>2. retainCount' = retainCount /\ retainCount[v] \in Int
    BY <1>1 DEF memory, TypeInv, MemoryTypes
  <2>3. QED
    BY <2>1, <2>2
<1>8. Owed(call'[t]) = Owed(call[t])
    BY <1>1, <1>3, <1>4 DEF Owed
<1>9. CountsOK'
    BY <1>1, <1>4, <1>7, <1>8, CallStep DEF CountInv, memory, accessors, references
<1>10. QED
    BY <1>6, <1>9 DEF CountInv

LEMMA GetLockCounts ==
    ASSUME TypeInv, CountInv, NEW t \in Threads, GetLock(t), UNCHANGED references
    PROVE  CountInv'
<1>1. /\ call[t].at = "get" /\ UNCHANGED <<memory, ivar, references>>
    BY DEF GetLock, At
<1>2. PICK s \in Slots, i \in Stripes : s = call[t].slot /\ i = GOODHASH(s)
    BY <1>1, StripeOf, AccessorsAssumption DEF TypeInv, CallTypes, CallTyped
<1>3. PICK c : /\ c = [at |-> "get retain", slot |-> s, value |-> ivar[s]]
               /\ call' = [call EXCEPT ![t] = c]
    BY <1>2 DEF GetLock, Become
<1>4. c.at = "get retain" /\ c.slot = s /\ c.value = ivar[s]
    BY <1>3
<1>5. call'[t] = c /\ \A u \in Threads \ {t} : call'[u] = call[u]
  <2>1. call' = [call EXCEPT ![t] = c]
    BY <1>3
  <2>2. QED
    BY <2>1, OneCall
<1>6. PropertyLocks[i] = nil /\ PropertyLocks' = [PropertyLocks EXCEPT ![i] = t]
    BY <1>2 DEF GetLock, SpinlockFree
<1>7. PropertyLocks'[i] = t /\ \A j \in Stripes \ {i} : PropertyLocks'[j] = PropertyLocks[j]
    BY <1>6 DEF TypeInv, AccessorTypes
<1>8. pool[t] = {}
    BY <1>1 DEF CountInv, LocalsOK, UseOK, Getting
<1>9. PropertyOK(t)' /\ AssociationOK(t)' /\ UseOK(t)'
    BY <1>1, <1>2, <1>4, <1>5, <1>7, <1>8 DEF PropertyOK, AssociationOK, UseOK, memory
<1>10. LocalsOK'
    BY <1>1, <1>5, <1>6, <1>7, <1>9, LocalsStep DEF CountInv, memory, references
<1>11. ASSUME NEW v \in Objects
       PROVE  retainCount'[v] = retainCount[v]
                  - Member(t, Carriers(call, v)) + Member(t, Carriers(call', v))
  <2>1. Member(t, Carriers(call, v)) = 0 /\ Member(t, Carriers(call', v)) = 0
    BY <1>1, <1>4, <1>5, CarriedBy
  <2>2. retainCount' = retainCount /\ retainCount[v] \in Int
    BY <1>1 DEF memory, TypeInv, MemoryTypes
  <2>3. QED
    BY <2>1, <2>2
<1>12. Owed(call'[t]) = Owed(call[t])
    BY <1>1, <1>4, <1>5 DEF Owed
<1>13. CountsOK'
    BY <1>1, <1>5, <1>11, <1>12, CallStep DEF CountInv, memory, references
<1>14. QED
    BY <1>10, <1>13 DEF CountInv

LEMMA GetRetainCounts ==
    ASSUME TypeInv, CountInv, NEW t \in Threads, GetRetain(t), UNCHANGED references
    PROVE  CountInv'
<1>1. /\ call[t].at = "get retain" /\ UNCHANGED <<held, pool, ivar, references>>
    BY DEF GetRetain, At
<1>2. PICK s \in Slots, i \in Stripes, w \in Value :
              s = call[t].slot /\ i = GOODHASH(s) /\ w = call[t].value
    BY <1>1, StripeOf, AccessorsAssumption DEF TypeInv, CallTypes, CallTyped
<1>3. PICK c : c = [at |-> "autorelease", value |-> w] /\ call' = [call EXCEPT ![t] = c]
    BY <1>2 DEF GetRetain, Become
<1>4. c.at = "autorelease" /\ c.value = w
    BY <1>3
<1>5. call'[t] = c /\ \A u \in Threads \ {t} : call'[u] = call[u]
  <2>1. call' = [call EXCEPT ![t] = c]
    BY <1>3
  <2>2. QED
    BY <2>1, OneCall
<1>6. PropertyLocks[i] = t /\ pool[t] = {}
    BY <1>1, <1>2 DEF CountInv, LocalsOK, PropertyOK, UseOK, Getting
<1>7. /\ PropertyLocks' = [PropertyLocks EXCEPT ![i] = nil]
      /\ retainCount' = Retained(w)
    BY <1>2 DEF GetRetain
<1>8. \A j \in Stripes \ {i} : PropertyLocks'[j] = PropertyLocks[j]
    BY <1>7 DEF TypeInv, AccessorTypes
<1>9. PropertyOK(t)' /\ AssociationOK(t)' /\ UseOK(t)'
    BY <1>1, <1>4, <1>5, <1>6 DEF PropertyOK, AssociationOK, UseOK
<1>10. LocalsOK'
    BY <1>1, <1>5, <1>6, <1>8, <1>9, LocalsStep DEF CountInv, references
<1>11. ASSUME NEW v \in Objects
       PROVE  retainCount'[v] = retainCount[v]
                  - Member(t, Carriers(call, v)) + Member(t, Carriers(call', v))
  <2>1. Member(t, Carriers(call, v)) = 0 /\ Member(t, Carriers(call', v)) = Is(w, v)
    BY <1>1, <1>4, <1>5, CarriedBy
  <2>2. /\ retainCount'[v] = retainCount[v] + Is(w, v)
        /\ retainCount[v] \in Int /\ Is(w, v) \in {0, 1}
    BY <1>2, <1>7, RetainsOne DEF TypeInv
  <2>3. QED
    BY <2>1, <2>2
<1>12. Owed(call'[t]) = Owed(call[t])
    BY <1>1, <1>4, <1>5 DEF Owed
<1>13. CountsOK'
    BY <1>1, <1>5, <1>11, <1>12, CallStep DEF CountInv, references
<1>14. QED
    BY <1>10, <1>13 DEF CountInv

LEMMA SetPropertyCounts ==
    ASSUME TypeInv, CountInv, NEW t \in Threads, SetProperty(t), UNCHANGED references
    PROVE  CountInv'
<1>1. call[t].at = "idle" /\ UNCHANGED <<memory, accessors, references>>
    BY DEF SetProperty, Idle, At
<1>2. PICK s, w, copy, c :
              /\ MayUse(t, s) /\ w \in Usable(t) \cup {nil}
              /\ c = [at |-> "set", slot |-> s, value |-> w, copy |-> copy]
              /\ call' = [call EXCEPT ![t] = c]
    BY DEF SetProperty, Become
<1>3. c.at = "set" /\ c.slot = s /\ c.value = w
    BY <1>2
<1>4. call'[t] = c /\ \A u \in Threads \ {t} : call'[u] = call[u]
  <2>1. call' = [call EXCEPT ![t] = c]
    BY <1>2
  <2>2. QED
    BY <2>1, OneCall
<1>5. PropertyOK(t)' /\ AssociationOK(t)' /\ UseOK(t)'
    BY <1>1, <1>2, <1>3, <1>4
       DEF PropertyOK, AssociationOK, UseOK, memory, MayUse, Usable, Getting
<1>6. LocalsOK'
    BY <1>1, <1>4, <1>5, LocalsStep DEF CountInv, memory, accessors, references
<1>7. ASSUME NEW v \in Objects
      PROVE  retainCount'[v] = retainCount[v]
                 - Member(t, Carriers(call, v)) + Member(t, Carriers(call', v))
  <2>1. Member(t, Carriers(call, v)) = 0 /\ Member(t, Carriers(call', v)) = 0
    BY <1>1, <1>3, <1>4, CarriedBy
  <2>2. retainCount' = retainCount /\ retainCount[v] \in Int
    BY <1>1 DEF memory, TypeInv, MemoryTypes
  <2>3. QED
    BY <2>1, <2>2
<1>8. Owed(call'[t]) = Owed(call[t])
    BY <1>1, <1>3, <1>4 DEF Owed
<1>9. CountsOK'
    BY <1>1, <1>4, <1>7, <1>8, CallStep DEF CountInv, memory, accessors, references
<1>10. QED
    BY <1>6, <1>9 DEF CountInv

LEMMA SetAcquireCounts ==
    ASSUME TypeInv, CountInv, NEW t \in Threads, SetAcquire(t), UNCHANGED references
    PROVE  CountInv'
<1>1. /\ call[t].at = "set" /\ UNCHANGED <<held, pool, accessors, references>>
    BY DEF SetAcquire, At
<1>2. PICK s \in Slots, x \in Value : s = call[t].slot /\ x = call[t].value
    BY <1>1 DEF TypeInv, CallTypes, CallTyped
<1>3. PICK w, c :
              /\ w \in CopiesOf(x) \cup {x}
              /\ retainCount' = Retained(w)
              /\ c = [at |-> "set read", slot |-> s, value |-> w]
              /\ call' = [call EXCEPT ![t] = c]
    BY <1>2 DEF SetAcquire, Become
<1>4. w \in Value
    BY <1>2, <1>3 DEF CopiesOf, Free, Value
<1>5. c.at = "set read" /\ c.slot = s /\ c.value = w
    BY <1>3
<1>6. call'[t] = c /\ \A u \in Threads \ {t} : call'[u] = call[u]
  <2>1. call' = [call EXCEPT ![t] = c]
    BY <1>3
  <2>2. QED
    BY <2>1, OneCall
<1>7. MayUse(t, s)
    BY <1>1, <1>2 DEF CountInv, LocalsOK, PropertyOK
<1>8. PropertyOK(t)' /\ AssociationOK(t)' /\ UseOK(t)'
    BY <1>5, <1>6, <1>7 DEF PropertyOK, AssociationOK, UseOK, MayUse, Getting
<1>9. LocalsOK'
    BY <1>1, <1>6, <1>8, LocalsStep DEF CountInv, accessors, references
<1>10. ASSUME NEW v \in Objects
       PROVE  retainCount'[v] = retainCount[v]
                  - Member(t, Carriers(call, v)) + Member(t, Carriers(call', v))
  <2>1. Member(t, Carriers(call, v)) = 0 /\ Member(t, Carriers(call', v)) = Is(w, v)
    BY <1>1, <1>5, <1>6, CarriedBy
  <2>2. /\ retainCount'[v] = retainCount[v] + Is(w, v)
        /\ retainCount[v] \in Int /\ Is(w, v) \in {0, 1}
    BY <1>3, <1>4, RetainsOne DEF TypeInv
  <2>3. QED
    BY <2>1, <2>2
<1>11. Owed(call'[t]) = Owed(call[t])
    BY <1>1, <1>5, <1>6 DEF Owed
<1>12. CountsOK'
    BY <1>1, <1>6, <1>10, <1>11, CallStep DEF CountInv, accessors, references
<1>13. QED
    BY <1>9, <1>12 DEF CountInv

LEMMA SetReadCounts ==
    ASSUME TypeInv, CountInv, NEW t \in Threads, SetRead(t), UNCHANGED references
    PROVE  CountInv'
<1>1. /\ call[t].at = "set read" /\ UNCHANGED <<memory, ivar, references>>
    BY DEF SetRead, At
<1>2. PICK s \in Slots, i \in Stripes, w \in Value :
              s = call[t].slot /\ i = GOODHASH(s) /\ w = call[t].value
    BY <1>1, StripeOf, AccessorsAssumption DEF TypeInv, CallTypes, CallTyped
<1>3. PICK c : /\ c = [at |-> "set write", slot |-> s, value |-> w, old |-> ivar[s]]
               /\ call' = [call EXCEPT ![t] = c]
    BY <1>2 DEF SetRead, Become
<1>4. c.at = "set write" /\ c.slot = s /\ c.value = w /\ c.old = ivar[s]
    BY <1>3
<1>5. call'[t] = c /\ \A u \in Threads \ {t} : call'[u] = call[u]
  <2>1. call' = [call EXCEPT ![t] = c]
    BY <1>3
  <2>2. QED
    BY <2>1, OneCall
<1>6. \/ s \in Nonatomic /\ PropertyLocks' = PropertyLocks
      \/ PropertyLocks[i] = nil /\ PropertyLocks' = [PropertyLocks EXCEPT ![i] = t]
    BY <1>2 DEF SetRead, SpinlockFree
<1>7. /\ s \in Nonatomic \/ PropertyLocks'[i] = t
      /\ \A j \in Stripes : PropertyLocks'[j] = PropertyLocks[j] \/ PropertyLocks[j] \in {nil, t}
    BY <1>6 DEF TypeInv, AccessorTypes
<1>8. MayUse(t, s)
    BY <1>1, <1>2 DEF CountInv, LocalsOK, PropertyOK
<1>9. PropertyOK(t)' /\ AssociationOK(t)' /\ UseOK(t)'
    BY <1>1, <1>2, <1>4, <1>5, <1>7, <1>8 DEF PropertyOK, AssociationOK, UseOK, MayUse, Getting
<1>10. LocalsOK'
    BY <1>1, <1>5, <1>7, <1>9, LocalsStep DEF CountInv, memory, references
<1>11. ASSUME NEW v \in Objects
       PROVE  retainCount'[v] = retainCount[v]
                  - Member(t, Carriers(call, v)) + Member(t, Carriers(call', v))
  <2>1. Member(t, Carriers(call, v)) = Is(w, v)
    BY <1>1, <1>2, CarriedBy
  <2>2. Member(t, Carriers(call', v)) = Is(w, v)
    <3>1. call'[t].at = "set write" /\ call'[t].value = w
      BY <1>4, <1>5
    <3>2. QED
      BY <3>1, CarriedBy
  <2>3. retainCount' = retainCount /\ retainCount[v] \in Int
    BY <1>1 DEF memory, TypeInv, MemoryTypes
  <2>4. Is(w, v) \in Int
    BY DEF Is
  <2>5. QED
    BY <2>1, <2>2, <2>3, <2>4
<1>12. Owed(call'[t]) = Owed(call[t])
    BY <1>1, <1>4, <1>5 DEF Owed
<1>13. CountsOK'
    BY <1>1, <1>5, <1>11, <1>12, CallStep DEF CountInv, memory, references
<1>14. QED
    BY <1>10, <1>13 DEF CountInv

\* The new value goes from the call to the slot, the old one from the slot to
\* the call.
LEMMA SetWriteCounts ==
    ASSUME TypeInv, CountInv, NEW t \in Threads, SetWrite(t), UNCHANGED references
    PROVE  CountInv'
<1>1. /\ call[t].at = "set write" /\ UNCHANGED <<memory, references>>
    BY DEF SetWrite, At
<1>2. PICK s \in Slots, i \in Stripes, w \in Value, x \in Value :
              /\ s = call[t].slot /\ i = GOODHASH(s)
              /\ w = call[t].value /\ x = call[t].old
    BY <1>1, StripeOf, AccessorsAssumption DEF TypeInv, CallTypes, CallTyped
<1>3. PICK c : c = [at |-> "set release", value |-> x] /\ call' = [call EXCEPT ![t] = c]
    BY <1>2 DEF SetWrite, Become
<1>4. c.at = "set release" /\ c.value = x
    BY <1>3
<1>5. call'[t] = c /\ \A u \in Threads \ {t} : call'[u] = call[u]
  <2>1. call' = [call EXCEPT ![t] = c]
    BY <1>3
  <2>2. QED
    BY <2>1, OneCall
<1>6. /\ s \in Nonatomic \/ PropertyLocks[i] = t
      /\ MayUse(t, s) /\ x = ivar[s]
    BY <1>1, <1>2 DEF CountInv, LocalsOK, PropertyOK
<1>7. /\ ivar' = [ivar EXCEPT ![s] = w]
      /\ \/ s \in Nonatomic /\ PropertyLocks' = PropertyLocks
         \/ s \notin Nonatomic /\ PropertyLocks' = [PropertyLocks EXCEPT ![i] = nil]
    BY <1>2 DEF SetWrite
<1>8. \A j \in Stripes : PropertyLocks'[j] = PropertyLocks[j] \/ PropertyLocks[j] \in {nil, t}
    BY <1>6, <1>7 DEF TypeInv, AccessorTypes
<1>9. ivar'[s] = w /\ \A r \in Slots \ {s} : ivar'[r] = ivar[r]
    BY <1>7 DEF TypeInv, AccessorTypes
<1>10. LocalsOK'
  <2>1. PropertyOK(t)' /\ AssociationOK(t)' /\ UseOK(t)'
    BY <1>4, <1>5, ReliesOnNothing DEF Relying, Getting
  <2>2. \A r \in Slots : \/ ivar'[r] = ivar[r]
                         \/ r \in Nonatomic /\ MayUse(t, r)
                         \/ r \notin Nonatomic /\ PropertyLocks[GOODHASH(r)] = t
    BY <1>2, <1>6, <1>9
  <2>3. QED
    BY <1>1, <1>5, <1>8, <2>1, <2>2, LocalsStep DEF CountInv, memory, references
<1>11. ASSUME NEW v \in Objects
       PROVE  retainCount'[v] = References(v)'
  <2>1. Cardinality(SlotsWith(ivar', v)) = Cardinality(SlotsWith(ivar, v))
            - Member(s, SlotsWith(ivar, v)) + Member(s, SlotsWith(ivar', v))
    BY <1>9, SlotChange
  <2>2. Member(s, SlotsWith(ivar, v)) = Is(x, v) /\ Member(s, SlotsWith(ivar', v)) = Is(w, v)
    BY <1>2, <1>6, <1>9 DEF Member, SlotsWith, Is
  <2>3. Cardinality(Carriers(call', v)) = Cardinality(Carriers(call, v))
            - Member(t, Carriers(call, v)) + Member(t, Carriers(call', v))
    BY <1>5, CallChange
  <2>4. Member(t, Carriers(call, v)) = Is(w, v) /\ Member(t, Carriers(call', v)) = Is(x, v)
    BY <1>1, <1>2, <1>4, <1>5, CarriedBy
  <2>5. Owers(call', v) = Owers(call, v)
    <3>1. Owed(call'[t]) = Owed(call[t])
      BY <1>1, <1>4, <1>5 DEF Owed
    <3>2. QED
      BY <1>5, <3>1, SameOwed
  <2>6. Is(w, v) \in Int /\ Is(x, v) \in Int
    BY DEF Is
  <2>7. /\ Cardinality(SlotsWith(ivar, v)) \in Nat /\ Cardinality(Holders(held, v)) \in Nat
        /\ Cardinality(Holders(pool, v)) \in Nat /\ Cardinality(Carriers(call, v)) \in Nat
        /\ Cardinality(Tabled(associations, v)) \in Nat /\ Cardinality(Owers(call, v)) \in Nat
    BY Finite
  <2>8. retainCount'[v] = References(v)
    BY <1>1 DEF CountInv, CountsOK, memory
  <2>9. References(v)' = Cardinality(SlotsWith(ivar', v)) + Cardinality(Holders(held, v))
            + Cardinality(Holders(pool, v)) + Cardinality(Carriers(call', v))
            + Cardinality(Tabled(associations, v)) + Cardinality(Owers(call, v))
    BY <1>1, <2>5, Sums DEF memory, references
  <2>10. QED
    BY <2>1, <2>2, <2>3, <2>4, <2>6, <2>7, <2>8, <2>9, Sums
<1>12. QED
    BY <1>10, <1>11 DEF CountInv, CountsOK

LEMMA SetReleaseCounts ==
    ASSUME TypeInv, CountInv, NEW t \in Threads, SetRelease(t), UNCHANGED references
    PROVE  CountInv'
<1>1. /\ call[t].at = "set release" /\ UNCHANGED <<held, pool, accessors, references>>
    BY DEF SetRelease, At
<1>2. PICK w \in Value : w = call[t].value
    BY <1>1 DEF TypeInv, CallTypes, CallTyped
<1>3. PICK c : c = [at |-> "idle"] /\ call' = [call EXCEPT ![t] = c]
    BY DEF SetRelease, Return, Become
<1>4. c.at = "idle"
    BY <1>3
<1>5. call'[t] = c /\ \A u \in Threads \ {t} : call'[u] = call[u]
  <2>1. call' = [call EXCEPT ![t] = c]
    BY <1>3
  <2>2. QED
    BY <2>1, OneCall
<1>6. LocalsOK'
  <2>1. PropertyOK(t)' /\ AssociationOK(t)' /\ UseOK(t)'
    BY <1>4, <1>5, ReliesOnNothing DEF Relying, Getting
  <2>2. QED
    BY <1>1, <1>5, <2>1, LocalsStep DEF CountInv, accessors, references
<1>7. ASSUME NEW v \in Objects
       PROVE  retainCount'[v] = retainCount[v]
                  - Member(t, Carriers(call, v)) + Member(t, Carriers(call', v))
  <2>1. Member(t, Carriers(call, v)) = Is(w, v) /\ Member(t, Carriers(call', v)) = 0
    BY <1>1, <1>2, <1>4, <1>5, CarriedBy
  <2>2. /\ retainCount'[v] = retainCount[v] - Is(w, v)
        /\ retainCount[v] \in Int /\ Is(w, v) \in {0, 1}
    BY <1>2, RetainsOne DEF TypeInv, SetRelease
  <2>3. QED
    BY <2>1, <2>2
<1>8. Owed(call'[t]) = Owed(call[t])
    BY <1>1, <1>4, <1>5 DEF Owed
<1>9. CountsOK'
    BY <1>1, <1>5, <1>7, <1>8, CallStep DEF CountInv, accessors, references
<1>10. QED
    BY <1>6, <1>9 DEF CountInv

\* Copying structures refers to no value.
LEMMA StructureCalls ==
    ASSUME TypeInv, StructInv, NEW t \in Threads, Structures(t)
    PROVE  \/ call' = call
           \/ /\ call[t].at \in Copies \cup {"idle"}
              /\ \E c : c.at \in Copies \cup {"idle"} /\ call' = [call EXCEPT ![t] = c]
<1>1. CASE FillStruct(t)
    BY <1>1 DEF FillStruct
<1>2. CASE CopyStruct(t)
  <2>1. PICK src, dest, l, c :
                /\ c = [at |-> "copy lock", src |-> src, dest |-> dest, locks |-> l, next |-> 1]
                /\ call' = [call EXCEPT ![t] = c]
    BY <1>2 DEF CopyStruct, Become
  <2>2. c.at = "copy lock"
    BY <2>1
  <2>3. c.at \in Copies \cup {"idle"}
    BY <2>2 DEF Copies
  <2>4. call[t].at \in Copies \cup {"idle"}
    BY <1>2 DEF CopyStruct, Idle, At
  <2>5. call' = [call EXCEPT ![t] = c]
    BY <2>1
  <2>6. QED
    BY <2>3, <2>4, <2>5
<1>3. CASE CopyLock(t)
  <2>1. call[t] \in CopyCall /\ call[t].at \in Copies
    BY <1>3, CopyFacts DEF CopyLock, At, Copies
  <2>2. PICK n, c : /\ c \in {[call[t] EXCEPT !.next = n],
                              [call[t] EXCEPT !.at = "copy move", !.next = 1]}
                    /\ call' = [call EXCEPT ![t] = c]
    BY <1>3 DEF CopyLock, Become
  <2>3. c.at \in Copies
    BY <2>1, <2>2 DEF CopyCall, Copies
  <2>4. QED
    BY <2>1, <2>2, <2>3
<1>4. CASE CopyMove(t)
  <2>1. call[t] \in CopyCall /\ call[t].at \in Copies
    BY <1>4, CopyFacts DEF CopyMove, At, Copies
  <2>2. PICK c : /\ c \in {[call[t] EXCEPT !.next = 2],
                           [call[t] EXCEPT !.at = "copy unlock", !.next = 1]}
                 /\ call' = [call EXCEPT ![t] = c]
    BY <1>4 DEF CopyMove, Become
  <2>3. c.at \in Copies
    BY <2>1, <2>2 DEF CopyCall, Copies
  <2>4. QED
    BY <2>1, <2>2, <2>3
<1>5. CASE CopyUnlock(t)
  <2>1. call[t] \in CopyCall /\ call[t].at \in Copies
    BY <1>5, CopyFacts DEF CopyUnlock, At, Copies
  <2>2. PICK n, c : /\ \/ c = [call[t] EXCEPT !.next = n]
                       \/ c = [at |-> "idle"]
                    /\ call' = [call EXCEPT ![t] = c]
    BY <1>5 DEF CopyUnlock, Become, Return
  <2>3. c.at \in Copies \cup {"idle"}
    <3>1. CASE c = [call[t] EXCEPT !.next = n]
      BY <2>1, <3>1 DEF CopyCall
    <3>2. CASE c = [at |-> "idle"]
      BY <3>2
    <3>3. QED
      BY <2>2, <3>1, <3>2
  <2>4. QED
    BY <2>1, <2>2, <2>3
<1>6. QED
    BY <1>1, <1>2, <1>3, <1>4, <1>5 DEF Structures

LEMMA StructuresCounts ==
    ASSUME TypeInv, StructInv, CountInv, NEW t \in Threads, Structures(t)
    PROVE  CountInv'
<1>1. UNCHANGED <<retainCount, held, pool, ivar, PropertyLocks, associations, managerLock>>
    BY DEF Structures, FillStruct, CopyStruct, CopyLock, CopyMove, CopyUnlock, memory,
           accessors, references
<1>2. CASE call' = call
    BY <1>1, <1>2, SameCounts
<1>3. CASE call' # call
  <2>1. call[t].at \in Copies \cup {"idle"}
    BY <1>3, StructureCalls
  <2>2. PICK c : c.at \in Copies \cup {"idle"} /\ call' = [call EXCEPT ![t] = c]
    BY <1>3, StructureCalls
  <2>3. call'[t] = c /\ \A u \in Threads \ {t} : call'[u] = call[u]
    BY <2>2, OneCall
  <2>4. PropertyOK(t)' /\ AssociationOK(t)' /\ UseOK(t)'
    BY <2>2, <2>3, ReliesOnNothing DEF Relying, Getting, Copies
  <2>5. LocalsOK'
    BY <1>1, <2>3, <2>4, LocalsStep DEF CountInv
  <2>6. ASSUME NEW v \in Objects
        PROVE  retainCount'[v] = retainCount[v]
                   - Member(t, Carriers(call, v)) + Member(t, Carriers(call', v))
    <3>1. Member(t, Carriers(call, v)) = 0
      BY <2>1, CarriedBy DEF Copies
    <3>2. Member(t, Carriers(call', v)) = 0
      BY <2>2, <2>3, CarriedBy DEF Copies
    <3>3. retainCount' = retainCount /\ retainCount[v] \in Int
      BY <1>1 DEF TypeInv, MemoryTypes
    <3>4. QED
      BY <3>1, <3>2, <3>3
  <2>7. Owed(call'[t]) = Owed(call[t])
    BY <2>1, <2>2, <2>3 DEF Owed, Copies
  <2>8. CountsOK'
    BY <1>1, <2>3, <2>6, <2>7, CallStep DEF CountInv
  <2>9. QED
    BY <2>5, <2>8 DEF CountInv
<1>4. QED
    BY <1>2, <1>3

-----------------------------------------------------------------------------
(* Associations and counts.                                                *)

\* A setter that retains or copies releases later; a getter retains only what
\* the table refers to.
LEMMA PoliciesAgree ==
    ASSUME NEW p \in Policies
    PROVE  /\ SetterRetains(p) \/ SetterCopies(p) <=> ReleasesOld(p)
           /\ GetterRetains(p) => ReleasesOld(p)
<1>1. p \in {0, 1, 3, 769, 771}
    BY ReferencesAssumption DEF ASSIGN, RETAIN_NONATOMIC, COPY_NONATOMIC, RETAIN, COPY
<1>2. QED
    BY <1>1 DEF SetterRetains, SetterCopies, ReleasesOld, GetterRetains

LEMMA OneFound ==
    ASSUME NEW table, NEW k, NEW e \in Lookup(table, k)
    PROVE  Lookup(table, k) = {e}
BY DEF Lookup

\* What is found in a table that was changed.
LEMMA FoundInChanged ==
    ASSUME NEW table \in Tables, NEW c \in AssociateCall, NEW k \in Keys
    PROVE  /\ k # c.key => Lookup(Changed(table, c), k) = Lookup(table, k)
           /\ c.value = nil => Lookup(Changed(table, c), c.key) = {}
           /\ c.value # nil => Lookup(Changed(table, c), c.key)
                                   = {<<c.key, [policy |-> c.policy, value |-> c.value]>>}
<1>1. c.key \in Keys /\ c.value \in Value /\ c.policy \in Policies
    BY DEF AssociateCall
<1>2. ASSUME NEW ks \in SUBSET Keys, nil \in [ks -> Association]
      PROVE  FALSE
    BY <1>2, ReferencesAssumption
<1>3. PICK ks \in SUBSET Keys : /\ ks = IF table = nil THEN {} ELSE DOMAIN table
                                /\ table # nil => table \in [ks -> Association]
  <2>1. CASE table = nil
    <3>1. {} \in SUBSET Keys
      OBVIOUS
    <3>2. QED
      BY <2>1, <3>1
  <2>2. CASE table # nil
    <3>1. PICK ks \in SUBSET Keys : table \in [ks -> Association]
      BY <2>2 DEF Tables
    <3>2. ks = DOMAIN table
      BY <3>1
    <3>3. QED
      BY <2>2, <3>1, <3>2
  <2>3. QED
    BY <2>1, <2>2
<1>4. CASE c.value = nil /\ table = nil
    BY <1>4 DEF Changed, Lookup
<1>5. CASE c.value = nil /\ table # nil
  <2>1. PICK new : new = Changed(table, c)
    OBVIOUS
  <2>2. new = [j \in ks \ {c.key} |-> table[j]]
    BY <1>3, <1>5, <2>1 DEF Changed, Restrict
  <2>3. new \in [ks \ {c.key} -> Association]
    BY <1>3, <1>5, <2>2
  <2>4. new # nil
    BY <1>2, <2>3
  <2>5. Lookup(new, c.key) = {}
    BY <2>2 DEF Lookup
  <2>6. k # c.key => Lookup(new, k) = Lookup(table, k)
    BY <1>3, <1>5, <2>2, <2>4 DEF Lookup
  <2>7. QED
    BY <1>5, <2>1, <2>5, <2>6
<1>6. CASE c.value # nil
  <2>1. PICK a \in Association : a = [policy |-> c.policy, value |-> c.value]
    BY <1>1, <1>6 DEF Association, Value
  <2>2. PICK new : new = Changed(table, c)
    OBVIOUS
  <2>3. new = [j \in ks \cup {c.key} |-> IF j = c.key THEN a ELSE table[j]]
    BY <1>3, <1>6, <2>1, <2>2 DEF Changed
  <2>4. ASSUME NEW j \in ks \cup {c.key}
        PROVE  (IF j = c.key THEN a ELSE table[j]) \in Association
    BY <1>3, <2>1
  <2>5. new \in [ks \cup {c.key} -> Association]
    BY <2>3, <2>4
  <2>6. ks \cup {c.key} \in SUBSET Keys
    BY <1>1
  <2>7. new # nil
    BY <1>2, <2>5, <2>6
  <2>8. Lookup(new, c.key) = {<<c.key, a>>}
    BY <2>3, <2>7 DEF Lookup
  <2>9. k # c.key => Lookup(new, k) = Lookup(table, k)
    BY <1>3, <2>3, <2>7 DEF Lookup
  <2>10. QED
    BY <1>6, <2>1, <2>2, <2>8, <2>9
<1>7. QED
    BY <1>4, <1>5, <1>6

LEMMA LivesCounts ==
    ASSUME CountInv, NEW t \in Threads, Create(t) \/ SetClass(t), UNCHANGED accessors
    PROVE  CountInv'
BY SameCounts DEF Create, SetClass, memory, accessors

LEMMA AssociateCounts ==
    ASSUME TypeInv, CountInv, NEW t \in Threads, Associate(t), UNCHANGED accessors
    PROVE  CountInv'
<1>1. call[t].at = "idle" /\ UNCHANGED <<memory, accessors, references>>
    BY DEF Associate, Idle, At
<1>2. PICK o, k, w, p, c :
              /\ w \in Usable(t) \cup {nil}
              /\ c = [at |-> "associate", object |-> o, key |-> k,
                      value |-> w, policy |-> p, old |-> {}]
              /\ call' = [call EXCEPT ![t] = c]
    BY DEF Associate, Become
<1>3. c.at = "associate" /\ c.value = w
    BY <1>2
<1>4. call' = [call EXCEPT ![t] = c]
    BY <1>2
<1>5. call'[t] = c
    BY <1>4, OneCall
<1>6. PropertyOK(t)' /\ AssociationOK(t)' /\ UseOK(t)'
    BY <1>1, <1>2, <1>3, <1>5 DEF PropertyOK, AssociationOK, UseOK, memory, Usable, Getting
<1>7. Owed(c) = Owed(call[t])
    BY <1>1, <1>3 DEF Owed
<1>8. \A v : Carries(c, v) <=> Carries(call[t], v)
    BY <1>1, <1>3 DEF Carries
<1>9. QED
    BY <1>1, <1>4, <1>6, <1>7, <1>8, QuietStep DEF memory, accessors, references

\* The new value is retained or copied if the policy says so.
LEMMA AcquireValueCounts ==
    ASSUME TypeInv, CountInv, NEW t \in Threads, AcquireValue(t), UNCHANGED accessors
    PROVE  CountInv'
<1>1. call[t].at = "associate" /\ UNCHANGED <<held, pool, accessors, references>>
    BY DEF AcquireValue, At
<1>2. call[t] \in AssociateCall
    BY <1>1 DEF TypeInv, CallTypes, CallTyped
<1>3. PICK p \in Policies : p = call[t].policy
    BY <1>2 DEF AssociateCall
<1>4. PICK w, c : /\ w \in CopiesOf(call[t].value) \cup {call[t].value}
                  /\ retainCount' = IF ReleasesOld(p) THEN Retained(w) ELSE retainCount
                  /\ c = [call[t] EXCEPT !.at = "associate lock", !.value = w]
                  /\ call' = [call EXCEPT ![t] = c]
  <2>1. SetterRetains(p) \/ SetterCopies(p) <=> ReleasesOld(p)
    BY PoliciesAgree
  <2>2. QED
    BY <1>3, <2>1 DEF AcquireValue, Become
<1>5. w \in Value
    BY <1>2, <1>4 DEF CopiesOf, Free, Value, AssociateCall
<1>6. c.at = "associate lock" /\ c.value = w /\ c.policy = p
    BY <1>2, <1>3, <1>4 DEF AssociateCall
<1>7. call'[t] = c /\ \A u \in Threads \ {t} : call'[u] = call[u]
  <2>1. call' = [call EXCEPT ![t] = c]
    BY <1>4
  <2>2. QED
    BY <2>1, OneCall
<1>8. LocalsOK'
  <2>1. PropertyOK(t)' /\ AssociationOK(t)' /\ UseOK(t)'
    BY <1>6, <1>7, ReliesOnNothing DEF Relying, Getting
  <2>2. QED
    BY <1>1, <1>7, <2>1, LocalsStep DEF CountInv, accessors, references
<1>9. ASSUME NEW v \in Objects
      PROVE  retainCount'[v] = retainCount[v]
                 - Member(t, Carriers(call, v)) + Member(t, Carriers(call', v))
  <2>1. Member(t, Carriers(call, v)) = 0
    BY <1>1, CarriedBy
  <2>2. Member(t, Carriers(call', v)) = IF ReleasesOld(p) THEN Is(w, v) ELSE 0
    BY <1>6, <1>7, CarriedBy
  <2>3. /\ Retained(w)[v] = retainCount[v] + Is(w, v)
        /\ retainCount[v] \in Int /\ Is(w, v) \in {0, 1}
    BY <1>5, RetainsOne DEF TypeInv
  <2>4. CASE ReleasesOld(p)
    BY <1>4, <2>1, <2>2, <2>3, <2>4
  <2>5. CASE ~ReleasesOld(p)
    BY <1>4, <2>1, <2>2, <2>3, <2>5
  <2>6. QED
    BY <2>4, <2>5
<1>10. Owed(call'[t]) = Owed(call[t])
    BY <1>1, <1>6, <1>7 DEF Owed
<1>11. CountsOK'
    BY <1>1, <1>7, <1>9, <1>10, CallStep DEF CountInv, accessors, references
<1>12. QED
    BY <1>8, <1>11 DEF CountInv

LEMMA FindOldCounts ==
    ASSUME TypeInv, CountInv, NEW t \in Threads, FindOld(t), UNCHANGED accessors
    PROVE  CountInv'
<1>1. /\ call[t].at = "associate lock" /\ managerLock = nil /\ managerLock' = t
      /\ UNCHANGED <<memory, accessors, associations>>
    BY DEF FindOld, At, ManagerFree
<1>2. call[t] \in AssociateCall
    BY <1>1 DEF TypeInv, CallTypes, CallTyped
<1>3. PICK old, c : /\ old = Lookup(associations[call[t].object], call[t].key)
                    /\ c = [call[t] EXCEPT !.at = "associate change", !.old = old]
                    /\ call' = [call EXCEPT ![t] = c]
    BY DEF FindOld, Become
<1>4. /\ c.at = "associate change" /\ c.old = old /\ c.object = call[t].object
      /\ c.key = call[t].key /\ c.value = call[t].value /\ c.policy = call[t].policy
    BY <1>2, <1>3 DEF AssociateCall
<1>5. call' = [call EXCEPT ![t] = c]
    BY <1>3
<1>6. call'[t] = c
    BY <1>5, OneCall
<1>7. PropertyOK(t)' /\ AssociationOK(t)' /\ UseOK(t)'
    BY <1>1, <1>3, <1>4, <1>6 DEF PropertyOK, AssociationOK, UseOK, Getting
<1>8. Owed(c) = Owed(call[t])
    BY <1>1, <1>4 DEF Owed
<1>9. \A v : Carries(c, v) <=> Carries(call[t], v)
    BY <1>1, <1>4 DEF Carries
<1>10. QED
    BY <1>1, <1>5, <1>7, <1>8, <1>9, QuietStep DEF memory, accessors

\* One key of a table is changed, one entry of a call is owed or released.
LEMMA TableChange ==
    ASSUME NEW v, NEW old, NEW new, NEW o, NEW k,
           \A q \in Owners : \A j \in Keys :
               q # o \/ j # k => Lookup(new[q], j) = Lookup(old[q], j)
    PROVE  Cardinality(Tabled(new, v)) = Cardinality(Tabled(old, v))
               - Member(<<o, k>>, Tabled(old, v)) + Member(<<o, k>>, Tabled(new, v))
<1>1. PICK p : p = <<o, k>>
    OBVIOUS
<1>2. ASSUME NEW q \in Owners \X Keys, q # p
      PROVE  Lookup(new[q[1]], q[2]) = Lookup(old[q[1]], q[2])
    BY <1>1, <1>2
<1>3. Tabled(old, v) \ {p} = Tabled(new, v) \ {p}
    BY <1>2 DEF Tabled
<1>4. QED
    BY <1>1, <1>3, Finite, OnePlace

LEMMA OwerChange ==
    ASSUME NEW v, NEW old, NEW new, NEW t, NEW k,
           \A u \in Threads \ {t} : new[u] = old[u],
           \A j \in Keys \ {k} : Refers(Owed(new[t]), j, v) <=> Refers(Owed(old[t]), j, v)
    PROVE  Cardinality(Owers(new, v)) = Cardinality(Owers(old, v))
               - Member(<<t, k>>, Owers(old, v)) + Member(<<t, k>>, Owers(new, v))
<1>1. PICK p : p = <<t, k>>
    OBVIOUS
<1>2. ASSUME NEW q \in Threads \X Keys, q # p
      PROVE  Refers(Owed(new[q[1]]), q[2], v) <=> Refers(Owed(old[q[1]]), q[2], v)
  <2>1. CASE q[1] = t
    BY <1>1, <1>2, <2>1
  <2>2. CASE q[1] # t
    BY <2>2
  <2>3. QED
    BY <2>1, <2>2
<1>3. Owers(old, v) \ {p} = Owers(new, v) \ {p}
    BY <1>2 DEF Owers
<1>4. QED
    BY <1>1, <1>3, Finite, OnePlace


\* The new value goes from the call to the table, the old one from the table
\* to the call.
LEMMA ChangeTableCounts ==
    ASSUME TypeInv, CountInv, NEW t \in Threads, ChangeTable(t), UNCHANGED accessors
    PROVE  CountInv'
<1>1. /\ call[t].at = "associate change" /\ managerLock' = nil
      /\ UNCHANGED <<memory, accessors>>
    BY DEF ChangeTable, At
<1>2. call[t] \in AssociateCall
    BY <1>1 DEF TypeInv, CallTypes, CallTyped
<1>3. PICK o \in Owners, k \in Keys, w \in Value, p \in Policies :
              o = call[t].object /\ k = call[t].key /\ w = call[t].value /\ p = call[t].policy
    BY <1>2 DEF AssociateCall
<1>4. PICK table \in Tables : table = associations[o]
    BY <1>3 DEF TypeInv, ReferenceTypes
<1>5. managerLock = t /\ call[t].old = Lookup(table, k)
    BY <1>1, <1>3, <1>4 DEF CountInv, LocalsOK, AssociationOK
<1>6. PICK new, c : /\ new = Changed(table, call[t])
                    /\ associations' = [associations EXCEPT ![o] = new]
                    /\ c = [at |-> "release", object |-> o, free |-> FALSE,
                            old |-> call[t].old]
                    /\ call' = [call EXCEPT ![t] = c]
    BY <1>3, <1>4 DEF ChangeTable, Become
<1>7. c.at = "release" /\ c.old = Lookup(table, k)
    BY <1>5, <1>6
<1>8. call'[t] = c /\ \A u \in Threads \ {t} : call'[u] = call[u]
  <2>1. call' = [call EXCEPT ![t] = c]
    BY <1>6
  <2>2. QED
    BY <2>1, OneCall
<1>9. associations'[o] = new /\ \A q \in Owners \ {o} : associations'[q] = associations[q]
    BY <1>6 DEF TypeInv, ReferenceTypes
<1>10. LocalsOK'
  <2>1. \A e, f \in c.old : e = f
    BY <1>7 DEF Lookup
  <2>2. PropertyOK(t)' /\ AssociationOK(t)' /\ UseOK(t)'
    BY <1>7, <1>8, <2>1 DEF PropertyOK, AssociationOK, UseOK, Getting
  <2>3. QED
    BY <1>1, <1>5, <1>8, <2>2, LocalsStep DEF CountInv, memory, accessors
<1>11. ASSUME NEW v \in Objects
       PROVE  retainCount'[v] = References(v)'
  <2>1. Cardinality(Tabled(associations', v)) = Cardinality(Tabled(associations, v))
            - Member(<<o, k>>, Tabled(associations, v))
            + Member(<<o, k>>, Tabled(associations', v))
    <3>1. ASSUME NEW q \in Owners, NEW j \in Keys, q # o \/ j # k
          PROVE  Lookup(associations'[q], j) = Lookup(associations[q], j)
      <4>1. CASE q # o
        BY <1>9, <4>1
      <4>2. CASE q = o
        BY <1>2, <1>3, <1>4, <1>6, <1>9, <3>1, <4>2, FoundInChanged
      <4>3. QED
        BY <4>1, <4>2
    <3>2. QED
      BY <3>1, TableChange
  <2>2. Cardinality(Owers(call', v)) = Cardinality(Owers(call, v))
            - Member(<<t, k>>, Owers(call, v)) + Member(<<t, k>>, Owers(call', v))
    <3>1. Owed(call[t]) = {} /\ Owed(call'[t]) = Lookup(table, k)
      BY <1>1, <1>7, <1>8 DEF Owed
    <3>2. ASSUME NEW j \in Keys \ {k}
          PROVE  ~Refers(Owed(call'[t]), j, v) /\ ~Refers(Owed(call[t]), j, v)
      BY <1>4, <3>1, Found DEF Refers
    <3>3. QED
      BY <1>8, <3>2, OwerChange
  <2>3. Cardinality(Carriers(call', v)) = Cardinality(Carriers(call, v))
            - Member(t, Carriers(call, v)) + Member(t, Carriers(call', v))
    BY <1>8, CallChange
  <2>4. /\ Member(<<t, k>>, Owers(call, v)) = 0
        /\ Member(<<t, k>>, Owers(call', v)) = Member(<<o, k>>, Tabled(associations, v))
    <3>1. Owed(call[t]) = {} /\ Owed(call'[t]) = Lookup(table, k)
      BY <1>1, <1>7, <1>8 DEF Owed
    <3>2. <<t, k>> \in Owers(call', v) <=> <<o, k>> \in Tabled(associations, v)
      BY <1>4, <3>1 DEF Owers, Tabled
    <3>3. <<t, k>> \notin Owers(call, v)
      BY <3>1 DEF Owers, Refers
    <3>4. QED
      BY <3>2, <3>3 DEF Member
  <2>5. /\ Member(<<o, k>>, Tabled(associations', v)) = Member(t, Carriers(call, v))
        /\ Member(t, Carriers(call', v)) = 0
    <3>1. Lookup(new, k) = IF w = nil THEN {} ELSE {<<k, [policy |-> p, value |-> w]>>}
      BY <1>2, <1>3, <1>4, <1>6, FoundInChanged
    <3>2. Refers(Lookup(new, k), k, v) <=> w = v /\ ReleasesOld(p)
      <4>1. CASE w = nil
        BY <3>1, <4>1, ValuesAssumption DEF Refers
      <4>2. CASE w # nil
        <5>1. PICK e : e = <<k, [policy |-> p, value |-> w]>>
          OBVIOUS
        <5>2. e[1] = k /\ e[2].policy = p /\ e[2].value = w /\ Lookup(new, k) = {e}
          BY <3>1, <4>2, <5>1
        <5>3. QED
          BY <5>2 DEF Refers
      <4>3. QED
        BY <4>1, <4>2
    <3>3. <<o, k>> \in Tabled(associations', v) <=> w = v /\ ReleasesOld(p)
      BY <1>9, <3>2 DEF Tabled
    <3>4. t \in Carriers(call, v) <=> w = v /\ ReleasesOld(p)
      BY <1>1, <1>3 DEF Carriers, Carries
    <3>5. t \notin Carriers(call', v)
      BY <1>7, <1>8 DEF Carriers, Carries
    <3>6. QED
      BY <3>3, <3>4, <3>5 DEF Member
  <2>6. /\ Member(t, Carriers(call, v)) \in Int
        /\ Member(<<o, k>>, Tabled(associations, v)) \in Int
    BY DEF Member
  <2>7. /\ Cardinality(SlotsWith(ivar, v)) \in Nat /\ Cardinality(Holders(held, v)) \in Nat
        /\ Cardinality(Holders(pool, v)) \in Nat /\ Cardinality(Carriers(call, v)) \in Nat
        /\ Cardinality(Tabled(associations, v)) \in Nat /\ Cardinality(Owers(call, v)) \in Nat
    BY Finite
  <2>8. retainCount'[v] = References(v)
    BY <1>1 DEF CountInv, CountsOK, memory
  <2>9. References(v)' = Cardinality(SlotsWith(ivar, v)) + Cardinality(Holders(held, v))
            + Cardinality(Holders(pool, v)) + Cardinality(Carriers(call', v))
            + Cardinality(Tabled(associations', v)) + Cardinality(Owers(call', v))
    BY <1>1, Sums DEF memory, accessors
  <2>10. QED
    BY <2>1, <2>2, <2>3, <2>4, <2>5, <2>6, <2>7, <2>8, <2>9, Sums
<1>12. QED
    BY <1>10, <1>11 DEF CountInv, CountsOK

\* A getter retains what the table refers to, while nobody can change it.
LEMMA GetAssociatedCounts ==
    ASSUME TypeInv, CountInv, NEW t \in Threads, GetAssociated(t), UNCHANGED accessors
    PROVE  CountInv'
<1>1. call[t].at = "idle" /\ pool[t] = {} /\ UNCHANGED <<memory, accessors, references>>
    BY DEF GetAssociated, Idle, At
<1>2. PICK o, k, c : /\ c = [at |-> "get associated", object |-> o, key |-> k]
                     /\ call' = [call EXCEPT ![t] = c]
    BY DEF GetAssociated, Become
<1>3. c.at = "get associated" /\ call' = [call EXCEPT ![t] = c]
    BY <1>2
<1>4. call'[t] = c
    BY <1>3, OneCall
<1>5. PropertyOK(t)' /\ AssociationOK(t)' /\ UseOK(t)'
    BY <1>1, <1>3, <1>4 DEF PropertyOK, AssociationOK, UseOK, memory
<1>6. Owed(c) = Owed(call[t])
    BY <1>1, <1>3 DEF Owed
<1>7. \A v : Carries(c, v) <=> Carries(call[t], v)
    BY <1>1, <1>3 DEF Carries
<1>8. QED
    BY <1>1, <1>3, <1>5, <1>6, <1>7, QuietStep DEF memory, accessors, references

LEMMA FindAssociatedCounts ==
    ASSUME TypeInv, CountInv, NEW t \in Threads, FindAssociated(t), UNCHANGED accessors
    PROVE  CountInv'
<1>1. /\ call[t].at = "get associated" /\ managerLock = nil
      /\ UNCHANGED <<memory, accessors, associations>>
    BY DEF FindAssociated, At, ManagerFree
<1>2. PICK o \in Owners, k \in Keys : o = call[t].object /\ k = call[t].key
    BY <1>1 DEF TypeInv, CallTypes, CallTyped, GetAssociatedCall
<1>3. PICK c : /\ call' = [call EXCEPT ![t] = c]
               /\ \/ c = [at |-> "idle"]
                  \/ /\ managerLock' = t
                     /\ \E e \in Lookup(associations[o], k) :
                           /\ GetterRetains(e[2].policy)
                           /\ c = [at |-> "retain", object |-> o, value |-> e[2].value]
    BY <1>2 DEF FindAssociated, Return, Become
<1>4. call' = [call EXCEPT ![t] = c] /\ c.at \in {"idle", "retain"}
    BY <1>3
<1>5. call'[t] = c
    BY <1>4, OneCall
<1>6. pool[t] = {}
    BY <1>1 DEF CountInv, LocalsOK, UseOK, Getting
<1>7. c.at = "retain" =>
          /\ managerLock' = t
          /\ \E j \in Keys : \E e \in Lookup(associations[c.object], j) :
                 e[2].value = c.value /\ ReleasesOld(e[2].policy)
  <2>1. SUFFICES ASSUME c.at = "retain"
                 PROVE  /\ managerLock' = t
                        /\ \E j \in Keys : \E e \in Lookup(associations[c.object], j) :
                               e[2].value = c.value /\ ReleasesOld(e[2].policy)
    OBVIOUS
  <2>2. PICK e \in Lookup(associations[o], k) :
                /\ GetterRetains(e[2].policy)
                /\ c = [at |-> "retain", object |-> o, value |-> e[2].value]
    BY <1>3, <2>1
  <2>3. c.object = o /\ c.value = e[2].value /\ managerLock' = t
    BY <1>3, <2>1, <2>2
  <2>4. associations[o] \in Tables
    BY DEF TypeInv, ReferenceTypes
  <2>5. e \in Entries
    BY <2>2, <2>4, Found
  <2>6. ReleasesOld(e[2].policy)
    BY <2>2, <2>5, PoliciesAgree DEF Entries, Association
  <2>7. QED
    BY <2>2, <2>3, <2>6
<1>8. PropertyOK(t)' /\ AssociationOK(t)' /\ UseOK(t)'
    BY <1>1, <1>4, <1>5, <1>6, <1>7 DEF PropertyOK, AssociationOK, UseOK, memory
<1>9. Owed(c) = Owed(call[t])
    BY <1>1, <1>4 DEF Owed
<1>10. \A v : Carries(c, v) <=> Carries(call[t], v)
    BY <1>1, <1>4 DEF Carries
<1>11. QED
    BY <1>1, <1>4, <1>8, <1>9, <1>10, QuietStep DEF memory, accessors

LEMMA RetainAssociatedCounts ==
    ASSUME TypeInv, CountInv, NEW t \in Threads, RetainAssociated(t), UNCHANGED accessors
    PROVE  CountInv'
<1>1. /\ call[t].at = "retain" /\ managerLock' = nil
      /\ UNCHANGED <<held, pool, accessors, associations>>
    BY DEF RetainAssociated, At
<1>2. PICK x \in Value : x = call[t].value
    BY <1>1 DEF TypeInv, CallTypes, CallTyped, RetainCall, Value
<1>3. PICK c : /\ c = [at |-> "autorelease", object |-> call[t].object, value |-> call[t].value]
               /\ call' = [call EXCEPT ![t] = c]
    BY DEF RetainAssociated, Become
<1>4. c.at = "autorelease" /\ c.value = call[t].value /\ call' = [call EXCEPT ![t] = c]
    BY <1>3
<1>5. call'[t] = c /\ \A u \in Threads \ {t} : call'[u] = call[u]
    BY <1>4, OneCall
<1>6. pool[t] = {} /\ managerLock = t
    BY <1>1 DEF CountInv, LocalsOK, UseOK, AssociationOK, Getting
<1>7. LocalsOK'
  <2>1. PropertyOK(t)' /\ AssociationOK(t)' /\ UseOK(t)'
    BY <1>1, <1>4, <1>5, <1>6 DEF PropertyOK, AssociationOK, UseOK
  <2>2. QED
    BY <1>1, <1>5, <1>6, <2>1, LocalsStep DEF CountInv, accessors
<1>8. ASSUME NEW v \in Objects
      PROVE  retainCount'[v] = retainCount[v]
                 - Member(t, Carriers(call, v)) + Member(t, Carriers(call', v))
  <2>1. Member(t, Carriers(call, v)) = 0
    BY <1>1, CarriedBy
  <2>2. Member(t, Carriers(call', v)) = Is(x, v)
    <3>1. call'[t].at = "autorelease" /\ call'[t].value = x
      BY <1>2, <1>4, <1>5
    <3>2. QED
      BY <3>1, CarriedBy
  <2>3. /\ retainCount'[v] = retainCount[v] + Is(x, v)
        /\ retainCount[v] \in Int /\ Is(x, v) \in {0, 1}
    BY <1>2, RetainsOne DEF TypeInv, RetainAssociated
  <2>4. QED
    BY <2>1, <2>2, <2>3
<1>9. Owed(call'[t]) = Owed(call[t])
    BY <1>1, <1>4, <1>5 DEF Owed
<1>10. CountsOK'
    BY <1>1, <1>5, <1>8, <1>9, CallStep DEF CountInv, accessors
<1>11. QED
    BY <1>7, <1>10 DEF CountInv

\* A removal takes the whole table, and releases its entries one by one.
LEMMA RemoveAssociationsCounts ==
    ASSUME TypeInv, CountInv, NEW t \in Threads, RemoveAssociations(t) \/ Dispose(t),
           UNCHANGED accessors
    PROVE  CountInv'
<1>1. call[t].at = "idle" /\ UNCHANGED <<memory, accessors, references>>
    BY DEF RemoveAssociations, Dispose, Idle, At
<1>2. PICK o, f, c : /\ \/ c = [at |-> "remove", object |-> o, free |-> f]
                        \/ c = [at |-> "release", object |-> o, free |-> f, old |-> {}]
                     /\ call' = [call EXCEPT ![t] = c]
  <2>1. CASE RemoveAssociations(t)
    BY <2>1 DEF RemoveAssociations, Become
  <2>2. CASE Dispose(t)
    BY <2>2 DEF Dispose, Become
  <2>3. QED
    BY <2>1, <2>2
<1>3. /\ c.at = "remove" \/ (c.at = "release" /\ c.old = {})
      /\ call' = [call EXCEPT ![t] = c]
  <2>1. CASE c = [at |-> "remove", object |-> o, free |-> f]
    BY <1>2, <2>1
  <2>2. CASE c = [at |-> "release", object |-> o, free |-> f, old |-> {}]
    BY <1>2, <2>2
  <2>3. QED
    BY <1>2, <2>1, <2>2
<1>4. call'[t] = c
    BY <1>3, OneCall
<1>5. PropertyOK(t)' /\ AssociationOK(t)' /\ UseOK(t)'
    BY <1>3, <1>4 DEF PropertyOK, AssociationOK, UseOK, Getting
<1>6. Owed(c) = Owed(call[t])
    BY <1>1, <1>3 DEF Owed
<1>7. \A v : Carries(c, v) <=> Carries(call[t], v)
    BY <1>1, <1>3 DEF Carries
<1>8. QED
    BY <1>1, <1>3, <1>5, <1>6, <1>7, QuietStep DEF memory, accessors, references

\* The entries of a table.
EntriesOf(table) == IF table = nil THEN {} ELSE {<<k, table[k]>> : k \in DOMAIN table}

LEMMA EntriesAreFound ==
    ASSUME NEW table, NEW k, NEW v
    PROVE  /\ Refers(EntriesOf(table), k, v) <=> Refers(Lookup(table, k), k, v)
           /\ \A e, f \in EntriesOf(table) : e[1] = f[1] => e = f
<1>1. CASE table = nil
    BY <1>1 DEF EntriesOf, Lookup
<1>2. CASE table # nil
  <2>1. EntriesOf(table) = {<<j, table[j]>> : j \in DOMAIN table}
    BY <1>2 DEF EntriesOf
  <2>2. \A e : e \in EntriesOf(table) /\ e[1] = k <=> e \in Lookup(table, k)
    BY <1>2, <2>1 DEF Lookup
  <2>3. QED
    BY <2>1, <2>2 DEF Refers
<1>3. QED
    BY <1>1, <1>2

LEMMA AsMany ==
    ASSUME NEW K, NEW o, NEW t, IsFiniteSet(K)
    PROVE  /\ IsFiniteSet({o} \X K) /\ IsFiniteSet({t} \X K)
           /\ Cardinality({o} \X K) = Cardinality({t} \X K)
<1>1. ASSUME NEW x
      PROVE  IsFiniteSet({x} \X K) /\ Cardinality({x} \X K) = Cardinality(K)
  <2>1. PICK S : S = {x}
    OBVIOUS
  <2>2. Cardinality(S) = 1 /\ IsFiniteSet(S)
    BY <2>1, FS_Singleton
  <2>3. PICK n \in Nat : n = Cardinality(K)
    BY FS_CardinalityType
  <2>4. IsFiniteSet(S \X K) /\ Cardinality(S \X K) = Cardinality(S) * Cardinality(K)
    BY <2>2, FS_Product
  <2>5. 1 * n = n
    OBVIOUS
  <2>6. QED
    BY <2>1, <2>2, <2>3, <2>4, <2>5
<1>2. QED
    BY <1>1

\* As many elements leave A as come to C.
LEMMA Shifted ==
    ASSUME NEW A, NEW B, NEW C, NEW D, NEW P, NEW Q, IsFiniteSet(A), IsFiniteSet(C),
           IsFiniteSet(P), IsFiniteSet(Q), Cardinality(P) = Cardinality(Q),
           B = A \ P, P \subseteq A, D = C \cup Q, C \cap Q = {}
    PROVE  Cardinality(B) + Cardinality(D) = Cardinality(A) + Cardinality(C)
<1>1. Cardinality(B) = Cardinality(A) - Cardinality(P)
  <2>1. Cardinality(A \ P) = Cardinality(A) - Cardinality(A \cap P)
    BY FS_Difference
  <2>2. A \cap P = P
    OBVIOUS
  <2>3. QED
    BY <2>1, <2>2
<1>2. Cardinality(D) = Cardinality(C) + Cardinality(Q) - 0
  <2>1. Cardinality(C \cup Q) = Cardinality(C) + Cardinality(Q) - Cardinality(C \cap Q)
    BY FS_Union
  <2>2. Cardinality(C \cap Q) = 0
    BY FS_EmptySet
  <2>3. QED
    BY <2>1, <2>2
<1>3. /\ Cardinality(A) \in Nat /\ Cardinality(C) \in Nat
      /\ Cardinality(P) \in Nat /\ Cardinality(Q) \in Nat
    BY FS_CardinalityType
<1>4. QED
    BY <1>1, <1>2, <1>3

LEMMA RemoveTableCounts ==
    ASSUME TypeInv, CountInv, NEW t \in Threads, RemoveTable(t), UNCHANGED accessors
    PROVE  CountInv'
<1>1. /\ call[t].at = "remove" /\ managerLock = nil
      /\ UNCHANGED <<memory, accessors, managerLock>>
    BY DEF RemoveTable, At, ManagerFree
<1>2. PICK o \in Owners, f \in BOOLEAN : o = call[t].object /\ f = call[t].free
    BY <1>1 DEF TypeInv, CallTypes, CallTyped, RemoveCall
<1>3. PICK table : table = associations[o]
    OBVIOUS
<1>4. PICK c : /\ c = [at |-> "release", object |-> o, free |-> f, old |-> EntriesOf(table)]
               /\ call' = [call EXCEPT ![t] = c]
    BY <1>2, <1>3 DEF RemoveTable, Become, EntriesOf
<1>5. c.at = "release" /\ c.old = EntriesOf(table) /\ call' = [call EXCEPT ![t] = c]
    BY <1>4
<1>6. call'[t] = c /\ \A u \in Threads \ {t} : call'[u] = call[u]
    BY <1>5, OneCall
<1>7. associations' = [associations EXCEPT ![o] = nil]
    BY <1>2 DEF RemoveTable
<1>8. associations'[o] = nil /\ \A q \in Owners \ {o} : associations'[q] = associations[q]
    BY <1>7 DEF TypeInv, ReferenceTypes
<1>9. LocalsOK'
  <2>1. \A d, e \in c.old : d[1] = e[1] => d = e
    BY <1>5, EntriesAreFound
  <2>2. PropertyOK(t)' /\ AssociationOK(t)' /\ UseOK(t)'
    BY <1>5, <1>6, <2>1 DEF PropertyOK, AssociationOK, UseOK, Getting
  <2>3. QED
    BY <1>1, <1>6, <2>2, LocalsStep DEF CountInv, memory, accessors
<1>10. ASSUME NEW v \in Objects
       PROVE  retainCount'[v] = References(v)'
  <2>1. PICK K : K = {k \in Keys : Refers(Lookup(table, k), k, v)}
    OBVIOUS
  <2>2. IsFiniteSet(K)
    BY <2>1, ObjectsAssumption, FS_Subset
  <2>3. /\ Tabled(associations', v) = Tabled(associations, v) \ ({o} \X K)
        /\ {o} \X K \subseteq Tabled(associations, v)
    <3>1. ASSUME NEW p \in Owners \X Keys, p[1] = o
          PROVE  /\ p \in Tabled(associations, v) <=> p \in {o} \X K
                 /\ p \notin Tabled(associations', v)
      BY <1>3, <1>8, <2>1, <3>1 DEF Tabled, Refers, Lookup
    <3>2. ASSUME NEW p \in Owners \X Keys, p[1] # o
          PROVE  /\ p \in Tabled(associations, v) <=> p \in Tabled(associations', v)
                 /\ p \notin {o} \X K
      BY <1>8, <3>2 DEF Tabled
    <3>3. /\ {o} \X K \subseteq Owners \X Keys
          /\ Tabled(associations, v) \subseteq Owners \X Keys
          /\ Tabled(associations', v) \subseteq Owners \X Keys
      BY <2>1 DEF Tabled
    <3>4. ASSUME NEW p \in {o} \X K
          PROVE  p \in Owners \X Keys /\ p[1] = o
      BY <3>3
    <3>5. QED
      BY <3>1, <3>2, <3>3, <3>4
  <2>4. /\ Owers(call', v) = Owers(call, v) \cup ({t} \X K)
        /\ Owers(call, v) \cap ({t} \X K) = {}
    <3>1. Owed(call[t]) = {} /\ Owed(call'[t]) = EntriesOf(table)
      BY <1>1, <1>5, <1>6 DEF Owed
    <3>2. ASSUME NEW p \in Threads \X Keys, p[1] = t
          PROVE  /\ p \in Owers(call', v) <=> p \in {t} \X K
                 /\ p \notin Owers(call, v)
      <4>1. p \in Owers(call', v) <=> Refers(Lookup(table, p[2]), p[2], v)
        BY <3>1, <3>2, EntriesAreFound DEF Owers
      <4>2. p \notin Owers(call, v)
        BY <3>1, <3>2 DEF Owers, Refers
      <4>3. p \in {t} \X K <=> Refers(Lookup(table, p[2]), p[2], v)
        BY <2>1, <3>2
      <4>4. QED
        BY <4>1, <4>2, <4>3
    <3>3. ASSUME NEW p \in Threads \X Keys, p[1] # t
          PROVE  /\ p \in Owers(call', v) <=> p \in Owers(call, v)
                 /\ p \notin {t} \X K
      <4>1. call'[p[1]] = call[p[1]]
        BY <1>6, <3>3
      <4>2. QED
        BY <3>3, <4>1 DEF Owers
    <3>4. /\ {t} \X K \subseteq Threads \X Keys
          /\ Owers(call, v) \subseteq Threads \X Keys
          /\ Owers(call', v) \subseteq Threads \X Keys
      BY <2>1 DEF Owers
    <3>5. QED
      BY <3>2, <3>3, <3>4
  <2>5. Cardinality(Tabled(associations', v)) + Cardinality(Owers(call', v))
            = Cardinality(Tabled(associations, v)) + Cardinality(Owers(call, v))
    <3>1. IsFiniteSet(Tabled(associations, v)) /\ IsFiniteSet(Owers(call, v))
      BY Finite
    <3>2. PICK P, Q : P = {o} \X K /\ Q = {t} \X K
      OBVIOUS
    <3>3. IsFiniteSet(P) /\ IsFiniteSet(Q) /\ Cardinality(P) = Cardinality(Q)
      BY <2>2, <3>2, AsMany
    <3>4. QED
      BY <2>3, <2>4, <3>1, <3>2, <3>3, Shifted
  <2>6. Carriers(call', v) = Carriers(call, v)
    <3>1. ~Carries(call[t], v) /\ ~Carries(call'[t], v)
      BY <1>1, <1>5, <1>6 DEF Carries
    <3>2. QED
      BY <1>6, <3>1 DEF Carriers
  <2>7. /\ Cardinality(SlotsWith(ivar, v)) \in Nat /\ Cardinality(Holders(held, v)) \in Nat
        /\ Cardinality(Holders(pool, v)) \in Nat /\ Cardinality(Carriers(call, v)) \in Nat
        /\ Cardinality(Tabled(associations, v)) \in Nat /\ Cardinality(Owers(call, v)) \in Nat
        /\ Cardinality(Tabled(associations', v)) \in Nat
        /\ Cardinality(Owers(call', v)) \in Nat
    BY Finite
  <2>8. retainCount'[v] = References(v)
    BY <1>1 DEF CountInv, CountsOK, memory
  <2>9. References(v)' = Cardinality(SlotsWith(ivar, v)) + Cardinality(Holders(held, v))
            + Cardinality(Holders(pool, v)) + Cardinality(Carriers(call, v))
            + Cardinality(Tabled(associations', v)) + Cardinality(Owers(call', v))
    BY <1>1, <2>6, Sums DEF memory, accessors
  <2>10. QED
    BY <2>5, <2>7, <2>8, <2>9, Sums
<1>11. QED
    BY <1>9, <1>10 DEF CountInv, CountsOK

LEMMA ReleaseOldCounts ==
    ASSUME TypeInv, CountInv, NEW t \in Threads, ReleaseOld(t), UNCHANGED accessors
    PROVE  CountInv'
<1>1. call[t].at = "release" /\ UNCHANGED <<held, pool, accessors, references>>
    BY DEF ReleaseOld, At
<1>2. call[t] \in ReleaseCall
    BY <1>1 DEF TypeInv, CallTypes, CallTyped
<1>3. PICK old \in SUBSET Entries : old = call[t].old
    BY <1>2 DEF ReleaseCall
<1>4. PICK e, c :
              /\ e \in old
              /\ retainCount' = ReleaseValue(e[2])
              /\ c = [call[t] EXCEPT !.old = old \ {e}]
              /\ call' = [call EXCEPT ![t] = c]
    BY <1>3 DEF ReleaseOld, Become
<1>5. c.at = "release" /\ c.old = old \ {e} /\ call' = [call EXCEPT ![t] = c]
    BY <1>1, <1>2, <1>4 DEF ReleaseCall
<1>6. call'[t] = c /\ \A u \in Threads \ {t} : call'[u] = call[u]
    BY <1>5, OneCall
<1>7. \A d, f \in old : d[1] = f[1] => d = f
    BY <1>1, <1>3 DEF CountInv, LocalsOK, AssociationOK
<1>8. PICK k \in Keys, w \in Value, p \in Policies :
              k = e[1] /\ w = e[2].value /\ p = e[2].policy
    BY <1>3, <1>4 DEF Entries, Association, Value
<1>9. LocalsOK'
  <2>1. \A d, f \in c.old : d[1] = f[1] => d = f
    BY <1>5, <1>7
  <2>2. PropertyOK(t)' /\ AssociationOK(t)' /\ UseOK(t)'
    BY <1>5, <1>6, <2>1 DEF PropertyOK, AssociationOK, UseOK, Getting
  <2>3. QED
    BY <1>1, <1>6, <2>2, LocalsStep DEF CountInv, accessors, references
<1>10. ASSUME NEW v \in Objects
       PROVE  retainCount'[v] = References(v)'
  <2>1. Owed(call[t]) = old /\ Owed(call'[t]) = old \ {e}
    BY <1>1, <1>3, <1>5, <1>6 DEF Owed
  <2>2. Cardinality(Owers(call', v)) = Cardinality(Owers(call, v))
            - Member(<<t, k>>, Owers(call, v)) + Member(<<t, k>>, Owers(call', v))
    <3>1. ASSUME NEW j \in Keys \ {k}
          PROVE  Refers(Owed(call'[t]), j, v) <=> Refers(Owed(call[t]), j, v)
      BY <1>8, <2>1 DEF Refers
    <3>2. QED
      BY <1>6, <3>1, OwerChange
  <2>3. <<t, k>> \notin Owers(call', v)
    <3>1. ~Refers(old \ {e}, k, v)
      BY <1>4, <1>7, <1>8 DEF Refers
    <3>2. QED
      BY <2>1, <3>1 DEF Owers
  <2>4. <<t, k>> \in Owers(call, v) <=> w = v /\ ReleasesOld(p)
    <3>1. Refers(old, k, v) <=> w = v /\ ReleasesOld(p)
      BY <1>4, <1>7, <1>8 DEF Refers
    <3>2. QED
      BY <2>1, <3>1 DEF Owers
  <2>5. /\ Member(<<t, k>>, Owers(call', v)) = 0
        /\ Member(<<t, k>>, Owers(call, v)) = IF ReleasesOld(p) THEN Is(w, v) ELSE 0
    BY <2>3, <2>4 DEF Member, Is
  <2>6. retainCount'[v] = retainCount[v] - Member(<<t, k>>, Owers(call, v))
    <3>1. /\ Released(w)[v] = retainCount[v] - Is(w, v)
          /\ retainCount[v] \in Int /\ Is(w, v) \in {0, 1}
      BY <1>8, RetainsOne DEF TypeInv
    <3>2. CASE ReleasesOld(p)
      BY <1>4, <1>8, <2>5, <3>1, <3>2 DEF ReleaseValue
    <3>3. CASE ~ReleasesOld(p)
      BY <1>4, <1>8, <2>5, <3>1, <3>3 DEF ReleaseValue
    <3>4. QED
      BY <3>2, <3>3
  <2>7. Carriers(call', v) = Carriers(call, v)
    <3>1. ~Carries(call[t], v) /\ ~Carries(call'[t], v)
      BY <1>1, <1>5, <1>6 DEF Carries
    <3>2. QED
      BY <1>6, <3>1 DEF Carriers
  <2>8. /\ Cardinality(SlotsWith(ivar, v)) \in Nat /\ Cardinality(Holders(held, v)) \in Nat
        /\ Cardinality(Holders(pool, v)) \in Nat /\ Cardinality(Carriers(call, v)) \in Nat
        /\ Cardinality(Tabled(associations, v)) \in Nat /\ Cardinality(Owers(call, v)) \in Nat
        /\ Member(<<t, k>>, Owers(call, v)) \in Int
    BY Finite DEF Member
  <2>9. retainCount[v] = References(v)
    BY DEF CountInv, CountsOK
  <2>10. References(v)' = Cardinality(SlotsWith(ivar, v)) + Cardinality(Holders(held, v))
            + Cardinality(Holders(pool, v)) + Cardinality(Carriers(call, v))
            + Cardinality(Tabled(associations, v)) + Cardinality(Owers(call', v))
    BY <1>1, <2>7, Sums DEF accessors, references
  <2>11. QED
    BY <2>2, <2>5, <2>6, <2>8, <2>9, <2>10, Sums
<1>11. QED
    BY <1>9, <1>10 DEF CountInv, CountsOK

LEMMA BrokenCounts ==
    ASSUME TypeInv, CountInv, NEW t \in Threads, Broken(t), UNCHANGED accessors
    PROVE  CountInv'
<1>1. /\ call[t].at = "release" /\ call[t].old = {}
      /\ UNCHANGED <<memory, accessors, associations, managerLock>>
    BY DEF Broken, At
<1>2. PICK c : c = [at |-> "idle"] /\ call' = [call EXCEPT ![t] = c]
    BY DEF Broken, Return, Become
<1>3. c.at = "idle" /\ call' = [call EXCEPT ![t] = c]
    BY <1>2
<1>4. call'[t] = c
    BY <1>3, OneCall
<1>5. PropertyOK(t)' /\ AssociationOK(t)' /\ UseOK(t)'
    BY <1>3, <1>4, ReliesOnNothing DEF Relying, Getting
<1>6. Owed(c) = Owed(call[t])
    BY <1>1, <1>3 DEF Owed
<1>7. \A v : Carries(c, v) <=> Carries(call[t], v)
    BY <1>1, <1>3 DEF Carries
<1>8. QED
    BY <1>1, <1>3, <1>5, <1>6, <1>7, QuietStep DEF memory, accessors

LEMMA NextCounts == TypeInv /\ StructInv /\ CountInv /\ [Next]_vars => CountInv'
<1> SUFFICES ASSUME TypeInv, StructInv, CountInv, [Next]_vars
             PROVE  CountInv'
    OBVIOUS
<1>1. CASE UNCHANGED vars
    BY <1>1, SameCounts DEF vars, memory, accessors, references
<1>2. ASSUME NEW t \in Threads, Properties(t)
      PROVE  CountInv'
    BY <1>2, GetPropertyCounts, GetLockCounts, GetRetainCounts, SetPropertyCounts,
       SetAcquireCounts, SetReadCounts, SetWriteCounts, SetReleaseCounts DEF Properties
<1>3. ASSUME NEW t \in Threads, Structures(t)
      PROVE  CountInv'
    BY <1>3, StructuresCounts
<1>4. ASSUME NEW t \in Threads, Associations(t)
      PROVE  CountInv'
    BY <1>4, LivesCounts, AssociateCounts, AcquireValueCounts, FindOldCounts,
       ChangeTableCounts, GetAssociatedCounts, FindAssociatedCounts, RetainAssociatedCounts,
       RemoveAssociationsCounts, RemoveTableCounts, ReleaseOldCounts, BrokenCounts
       DEF Associations
<1>5. ASSUME NEW t \in Threads, Memory(t)
      PROVE  CountInv'
    BY <1>5, AllocCounts, LetGoCounts, DrainCounts, AutoreleaseCounts DEF Memory
<1>6. QED
    BY <1>1, <1>2, <1>3, <1>4, <1>5 DEF Next

LEMMA CountSteps == Spec => [](TypeInv /\ CountInv)
<1>1. Init => CountInv
    BY InitCounts DEF CountInv
<1>2. QED
    BY <1>1, StructSteps, NextCounts, PTL DEF Spec

\* Whatever accessors, associations and removals run side by side, a retain
\* count is the number of references, and what is retained or copied has not
\* been freed.
THEOREM CountsAreReferencesCorrect == Spec => []CountsAreReferences
<1>1. TypeInv /\ CountInv => CountsAreReferences
    BY CountsAreRight DEF CountInv
<1>2. QED
    BY <1>1, CountSteps, PTL

-----------------------------------------------------------------------------
(* Associations end with their object.                                     *)

UsesIt(c, o) == "object" \in DOMAIN c /\ c.object = o

FreesIt(c, o) == {"object", "free"} \subseteq DOMAIN c /\ c.object = o /\ c.free

\* The associations of the object have been removed, or were not looked for.
FreesNow(c, o) == FreesIt(c, o) /\ c.at = "release"

\* An object in use is not freed, nor used by others once it is to be freed.
UsersOK ==
    \A o \in Owners, t \in Threads :
        /\ UsesIt(call[t], o) => isa[o] # nil
        /\ FreesIt(call[t], o) => \A u \in Threads : UsesIt(call[u], o) => u = t

NoneOrTwo(table, classes) ==
    \/ table = nil
    \/ DOMAIN table = {}
    \/ \E c, d \in classes : c # d

\* One of the classes that the object had is flagged if it has a table: the
\* one it had when the table was made.
EndsOK ==
    \A o \in Owners :
        /\ isa[o] # nil => isa[o] \in classesHad[o]
        /\ associations[o] # nil => \E c \in classesHad[o] : c \in hasAssociated
        /\ isa[o] = nil \/ (\E t \in Threads : FreesNow(call[t], o))
               => NoneOrTwo(associations[o], classesHad[o])

LEMMA UsersStep ==
    ASSUME UsersOK, NEW t \in Threads, NEW c, call'[t] = c,
           \A u \in Threads \ {t} : call'[u] = call[u],
           \A o \in Owners : UsesIt(c, o) => isa'[o] # nil /\ (UsesIt(call[t], o) \/ Live(o)),
           \A o \in Owners : isa[o] # nil /\ isa'[o] = nil => FreesIt(call[t], o),
           \A o \in Owners : FreesIt(c, o) => FreesIt(call[t], o) \/ (Live(o) /\ ~InUse(o))
    PROVE  UsersOK'
<1> SUFFICES ASSUME NEW o \in Owners, NEW u \in Threads
             PROVE  /\ UsesIt(call'[u], o) => isa'[o] # nil
                    /\ FreesIt(call'[u], o) => \A x \in Threads : UsesIt(call'[x], o) => x = u
    BY DEF UsersOK
<1>1. ASSUME UsesIt(call'[u], o)
      PROVE  isa'[o] # nil
  <2>1. CASE u = t
    BY <1>1, <2>1
  <2>2. CASE u # t
    <3>1. UsesIt(call[u], o)
      BY <1>1, <2>2
    <3>2. isa[o] # nil /\ ~FreesIt(call[t], o)
      BY <2>2, <3>1 DEF UsersOK
    <3>3. QED
      BY <3>2
  <2>3. QED
    BY <2>1, <2>2
<1>2. ASSUME FreesIt(call'[u], o), NEW x \in Threads, UsesIt(call'[x], o), x # u
      PROVE  FALSE
  <2>1. CASE u = t
    <3>1. UsesIt(call[x], o)
      BY <1>2, <2>1
    <3>2. InUse(o)
      BY <3>1 DEF InUse, UsesIt
    <3>3. FreesIt(call[t], o)
      BY <1>2, <2>1, <3>2
    <3>4. QED
      BY <1>2, <2>1, <3>1, <3>3 DEF UsersOK
  <2>2. CASE u # t
    <3>1. FreesIt(call[u], o)
      BY <1>2, <2>2
    <3>2. Destroyed(o)
      BY <3>1 DEF Destroyed, FreesIt
    <3>3. UsesIt(call[x], o)
      <4>1. CASE x = t
        BY <1>2, <3>2, <4>1 DEF Live
      <4>2. CASE x # t
        BY <1>2, <4>2
      <4>3. QED
        BY <4>1, <4>2
    <3>4. QED
      BY <1>2, <3>1, <3>3 DEF UsersOK
  <2>3. QED
    BY <2>1, <2>2
<1>3. QED
    BY <1>1, <1>2

LEMMA EndsStep ==
    ASSUME EndsOK, NEW t \in Threads, NEW c, call'[t] = c,
           \A u \in Threads \ {t} : call'[u] = call[u],
           UNCHANGED <<isa, hasAssociated, associations, classesHad>>,
           \A o \in Owners : FreesNow(c, o) =>
               FreesNow(call[t], o) \/ NoneOrTwo(associations[o], classesHad[o])
    PROVE  EndsOK'
<1>1. ASSUME NEW o \in Owners, NEW u \in Threads, FreesNow(call'[u], o)
      PROVE  NoneOrTwo(associations[o], classesHad[o])
  <2>1. CASE u = t
    BY <1>1, <2>1 DEF EndsOK
  <2>2. CASE u # t
    BY <1>1, <2>2 DEF EndsOK
  <2>3. QED
    BY <2>1, <2>2
<1>2. QED
    BY <1>1 DEF EndsOK

LivesInv == UsersOK /\ EndsOK

LEMMA SameLives ==
    ASSUME LivesInv, UNCHANGED <<call, isa, hasAssociated, associations, classesHad>>
    PROVE  LivesInv'
<1>1. UsersOK'
    BY DEF LivesInv, UsersOK
<1>2. EndsOK'
    BY DEF LivesInv, EndsOK
<1>3. QED
    BY <1>1, <1>2 DEF LivesInv

\* A step of a call that changes neither objects nor tables.
LEMMA CallLives ==
    ASSUME TypeInv, LivesInv, NEW t \in Threads, NEW c, call' = [call EXCEPT ![t] = c],
           UNCHANGED <<isa, hasAssociated, associations, classesHad>>,
           \A o \in Owners : UsesIt(c, o) => UsesIt(call[t], o) \/ Live(o),
           \A o \in Owners : FreesIt(c, o) => FreesIt(call[t], o) \/ (Live(o) /\ ~InUse(o)),
           \A o \in Owners : FreesNow(c, o) =>
               FreesNow(call[t], o) \/ NoneOrTwo(associations[o], classesHad[o])
    PROVE  LivesInv'
<1>1. call'[t] = c /\ \A u \in Threads \ {t} : call'[u] = call[u]
    BY OneCall
<1>2. ASSUME NEW o \in Owners, UsesIt(c, o)
      PROVE  isa'[o] # nil /\ (UsesIt(call[t], o) \/ Live(o))
    BY <1>2 DEF LivesInv, UsersOK, Live
<1>3. UsersOK'
    BY <1>1, <1>2, UsersStep DEF LivesInv
<1>4. EndsOK'
    BY <1>1, EndsStep DEF LivesInv
<1>5. QED
    BY <1>3, <1>4 DEF LivesInv

\* Calls of accessors and of the memory are about no object.
LEMMA NoObject ==
    ASSUME TypeInv, StructInv, NEW t \in Threads, Properties(t) \/ Structures(t) \/ Memory(t)
    PROVE  call' = call \/ \E c : "object" \notin DOMAIN c /\ call' = [call EXCEPT ![t] = c]
<1> DEFINE NewCall == \E c : "object" \notin DOMAIN c /\ call' = [call EXCEPT ![t] = c]
<1>1. CASE GetProperty(t)
  <2>1. PICK s, c : c = [at |-> "get", slot |-> s] /\ call' = [call EXCEPT ![t] = c]
    BY <1>1 DEF GetProperty, Become
  <2>2. "object" \notin DOMAIN c
    BY <2>1
  <2>3. QED
    BY <2>1, <2>2
<1>2. CASE GetLock(t)
  <2>1. PICK s, w, c : /\ c = [at |-> "get retain", slot |-> s, value |-> w]
                       /\ call' = [call EXCEPT ![t] = c]
    BY <1>2 DEF GetLock, Become
  <2>2. "object" \notin DOMAIN c
    BY <2>1
  <2>3. QED
    BY <2>1, <2>2
<1>3. CASE GetRetain(t)
  <2>1. PICK w, c : c = [at |-> "autorelease", value |-> w] /\ call' = [call EXCEPT ![t] = c]
    BY <1>3 DEF GetRetain, Become
  <2>2. "object" \notin DOMAIN c
    BY <2>1
  <2>3. QED
    BY <2>1, <2>2
<1>4. CASE SetProperty(t)
  <2>1. PICK s, w, copy, c : /\ c = [at |-> "set", slot |-> s, value |-> w, copy |-> copy]
                             /\ call' = [call EXCEPT ![t] = c]
    BY <1>4 DEF SetProperty, Become
  <2>2. "object" \notin DOMAIN c
    BY <2>1
  <2>3. QED
    BY <2>1, <2>2
<1>5. CASE SetAcquire(t)
  <2>1. PICK s, w, c : /\ c = [at |-> "set read", slot |-> s, value |-> w]
                       /\ call' = [call EXCEPT ![t] = c]
    BY <1>5 DEF SetAcquire, Become
  <2>2. "object" \notin DOMAIN c
    BY <2>1
  <2>3. QED
    BY <2>1, <2>2
<1>6. CASE SetRead(t)
  <2>1. PICK s, w, x, c : /\ c = [at |-> "set write", slot |-> s, value |-> w, old |-> x]
                          /\ call' = [call EXCEPT ![t] = c]
    BY <1>6 DEF SetRead, Become
  <2>2. "object" \notin DOMAIN c
    BY <2>1
  <2>3. QED
    BY <2>1, <2>2
<1>7. CASE SetWrite(t)
  <2>1. PICK w, c : c = [at |-> "set release", value |-> w] /\ call' = [call EXCEPT ![t] = c]
    BY <1>7 DEF SetWrite, Become
  <2>2. "object" \notin DOMAIN c
    BY <2>1
  <2>3. QED
    BY <2>1, <2>2
<1>8. ASSUME call' = [call EXCEPT ![t] = [at |-> "idle"]]
      PROVE  NewCall
  <2>1. PICK c : c = [at |-> "idle"]
    OBVIOUS
  <2>2. "object" \notin DOMAIN c
    BY <2>1
  <2>3. QED
    BY <1>8, <2>1, <2>2
<1>9. CASE SetRelease(t) \/ Autorelease(t)
    BY <1>8, <1>9 DEF SetRelease, Autorelease, Return, Become
<1>10. CASE Alloc(t) \/ LetGo(t) \/ Drain(t) \/ FillStruct(t)
    BY <1>10 DEF Alloc, LetGo, Drain, FillStruct
<1>11. CASE CopyStruct(t)
  <2>1. PICK src, dest, l, c :
                /\ c = [at |-> "copy lock", src |-> src, dest |-> dest, locks |-> l, next |-> 1]
                /\ call' = [call EXCEPT ![t] = c]
    BY <1>11 DEF CopyStruct, Become
  <2>2. "object" \notin DOMAIN c
    BY <2>1
  <2>3. QED
    BY <2>1, <2>2
<1>12. CASE CopyLock(t) \/ CopyMove(t) \/ CopyUnlock(t)
  <2>1. call[t] \in CopyCall
    BY <1>12, CopyFacts DEF CopyLock, CopyMove, CopyUnlock, At, Copies
  <2>2. "object" \notin DOMAIN call[t]
    BY <2>1 DEF CopyCall
  <2>3. PICK a, n, c : /\ \/ c = [call[t] EXCEPT !.next = n]
                          \/ c = [call[t] EXCEPT !.at = a, !.next = n]
                          \/ c = [at |-> "idle"]
                       /\ call' = [call EXCEPT ![t] = c]
    BY <1>12 DEF CopyLock, CopyMove, CopyUnlock, Become, Return
  <2>4. "object" \notin DOMAIN c
    <3>1. CASE c = [call[t] EXCEPT !.next = n]
      BY <2>2, <3>1
    <3>2. CASE c = [call[t] EXCEPT !.at = a, !.next = n]
      BY <2>2, <3>2
    <3>3. CASE c = [at |-> "idle"]
      BY <3>3
    <3>4. QED
      BY <2>3, <3>1, <3>2, <3>3
  <2>5. QED
    BY <2>3, <2>4
<1>13. QED
    BY <1>1, <1>2, <1>3, <1>4, <1>5, <1>6, <1>7, <1>9, <1>10, <1>11, <1>12
       DEF Properties, Structures, Memory

LEMMA OtherLives ==
    ASSUME TypeInv, StructInv, LivesInv, NEW t \in Threads,
           Properties(t) \/ Structures(t) \/ Memory(t)
    PROVE  LivesInv'
<1>1. UNCHANGED <<isa, hasAssociated, associations, classesHad>>
    BY DEF Properties, Structures, Memory, references
<1>2. CASE call' = call
    BY <1>1, <1>2, SameLives
<1>3. CASE call' # call
  <2>1. PICK c : "object" \notin DOMAIN c /\ call' = [call EXCEPT ![t] = c]
    BY <1>3, NoObject
  <2>2. \A o : ~UsesIt(c, o) /\ ~FreesIt(c, o) /\ ~FreesNow(c, o)
    BY <2>1 DEF UsesIt, FreesIt, FreesNow
  <2>3. QED
    BY <1>1, <2>1, <2>2, CallLives
<1>4. QED
    BY <1>2, <1>3

\* A function on associations is called on a live object, and keeps to it.
LEMMA StartLives ==
    ASSUME TypeInv, LivesInv, NEW t \in Threads,
           Associate(t) \/ GetAssociated(t) \/ RemoveAssociations(t)
    PROVE  LivesInv'
<1>1. UNCHANGED references
    BY DEF Associate, GetAssociated, RemoveAssociations
<1>2. PICK x, c :
              /\ x \in Owners
              /\ Live(x)
              /\ UsesIt(c, x)
              /\ \A o : ~FreesIt(c, o)
              /\ call' = [call EXCEPT ![t] = c]
  <2>1. CASE Associate(t)
    <3>1. PICK x, k, w, p, c :
                  /\ x \in Owners
                  /\ Live(x)
                  /\ c = [at |-> "associate", object |-> x, key |-> k,
                          value |-> w, policy |-> p, old |-> {}]
                  /\ call' = [call EXCEPT ![t] = c]
      BY <2>1 DEF Associate, Become
    <3>2. UsesIt(c, x) /\ "free" \notin DOMAIN c
      BY <3>1 DEF UsesIt
    <3>3. QED
      BY <3>1, <3>2 DEF FreesIt
  <2>2. CASE GetAssociated(t)
    <3>1. PICK x, k, c :
                  /\ x \in Owners
                  /\ Live(x)
                  /\ c = [at |-> "get associated", object |-> x, key |-> k]
                  /\ call' = [call EXCEPT ![t] = c]
      BY <2>2 DEF GetAssociated, Become
    <3>2. UsesIt(c, x) /\ "free" \notin DOMAIN c
      BY <3>1 DEF UsesIt
    <3>3. QED
      BY <3>1, <3>2 DEF FreesIt
  <2>3. CASE RemoveAssociations(t)
    <3>1. PICK x, c :
                  /\ x \in Owners
                  /\ Live(x)
                  /\ c = [at |-> "remove", object |-> x, free |-> FALSE]
                  /\ call' = [call EXCEPT ![t] = c]
      BY <2>3 DEF RemoveAssociations, Become
    <3>2. UsesIt(c, x) /\ c.free = FALSE
      BY <3>1 DEF UsesIt
    <3>3. QED
      BY <3>1, <3>2 DEF FreesIt
  <2>4. QED
    BY <2>1, <2>2, <2>3
<1>3. \A o : ~FreesNow(c, o) /\ (UsesIt(c, o) => o = x)
    BY <1>2 DEF FreesNow, UsesIt
<1>4. QED
    BY <1>1, <1>2, <1>3, CallLives DEF references

LEMMA MiddleLives ==
    ASSUME TypeInv, LivesInv, NEW t \in Threads,
           \/ AcquireValue(t) \/ FindOld(t) \/ FindAssociated(t) \/ RetainAssociated(t)
           \/ ReleaseOld(t)
    PROVE  LivesInv'
<1>1. UNCHANGED <<isa, hasAssociated, associations, classesHad>> /\ CallTyped(call[t])
    BY DEF AcquireValue, FindOld, FindAssociated, RetainAssociated, ReleaseOld, references,
           TypeInv, CallTypes
<1>2. PICK c : /\ \A o : UsesIt(c, o) => UsesIt(call[t], o)
               /\ \A o : FreesIt(c, o) => FreesIt(call[t], o)
               /\ \A o : FreesNow(c, o) => FreesNow(call[t], o)
               /\ call' = [call EXCEPT ![t] = c]
  <2>1. CASE AcquireValue(t) \/ FindOld(t)
    <3>1. call[t] \in AssociateCall
      BY <1>1, <2>1 DEF AcquireValue, FindOld, At, CallTyped
    <3>2. PICK a, w, old, c : /\ \/ c = [call[t] EXCEPT !.at = a, !.value = w]
                                 \/ c = [call[t] EXCEPT !.at = a, !.old = old]
                              /\ call' = [call EXCEPT ![t] = c]
      BY <2>1 DEF AcquireValue, FindOld, Become
    <3>3. "object" \in DOMAIN call[t] /\ c.object = call[t].object /\ "free" \notin DOMAIN c
      <4>1. CASE c = [call[t] EXCEPT !.at = a, !.value = w]
        BY <3>1, <4>1 DEF AssociateCall
      <4>2. CASE c = [call[t] EXCEPT !.at = a, !.old = old]
        BY <3>1, <4>2 DEF AssociateCall
      <4>3. QED
        BY <3>2, <4>1, <4>2
    <3>4. QED
      BY <3>2, <3>3 DEF UsesIt, FreesIt, FreesNow
  <2>2. CASE FindAssociated(t)
    <3>1. call[t] \in GetAssociatedCall
      BY <1>1, <2>2 DEF FindAssociated, At, CallTyped
    <3>2. PICK w, c : /\ \/ c = [at |-> "idle"]
                         \/ c = [at |-> "retain", object |-> call[t].object, value |-> w]
                      /\ call' = [call EXCEPT ![t] = c]
      BY <2>2 DEF FindAssociated, Return, Become
    <3>3. /\ "object" \in DOMAIN call[t] /\ "free" \notin DOMAIN c
          /\ "object" \in DOMAIN c => c.object = call[t].object
      <4>1. CASE c = [at |-> "idle"]
        BY <3>1, <4>1 DEF GetAssociatedCall
      <4>2. CASE c = [at |-> "retain", object |-> call[t].object, value |-> w]
        BY <3>1, <4>2 DEF GetAssociatedCall
      <4>3. QED
        BY <3>2, <4>1, <4>2
    <3>4. QED
      BY <3>2, <3>3 DEF UsesIt, FreesIt, FreesNow
  <2>3. CASE RetainAssociated(t)
    <3>1. call[t] \in RetainCall
      BY <1>1, <2>3 DEF RetainAssociated, At, CallTyped
    <3>2. PICK w, c : /\ c = [at |-> "autorelease", object |-> call[t].object, value |-> w]
                      /\ call' = [call EXCEPT ![t] = c]
      BY <2>3 DEF RetainAssociated, Become
    <3>3. "object" \in DOMAIN call[t] /\ c.object = call[t].object /\ "free" \notin DOMAIN c
      BY <3>1, <3>2 DEF RetainCall
    <3>4. QED
      BY <3>2, <3>3 DEF UsesIt, FreesIt, FreesNow
  <2>4. CASE ReleaseOld(t)
    <3>1. call[t] \in ReleaseCall
      BY <1>1, <2>4 DEF ReleaseOld, At, CallTyped
    <3>2. PICK old, c : /\ c = [call[t] EXCEPT !.old = old]
                        /\ call' = [call EXCEPT ![t] = c]
      BY <2>4 DEF ReleaseOld, Become
    <3>3. /\ {"object", "free"} \subseteq DOMAIN call[t] /\ call[t].at = "release"
          /\ c.object = call[t].object /\ c.free = call[t].free
      BY <3>1, <3>2 DEF ReleaseCall
    <3>4. QED
      BY <3>2, <3>3 DEF UsesIt, FreesIt, FreesNow
  <2>5. QED
    BY <2>1, <2>2, <2>3, <2>4
<1>3. QED
    BY <1>1, <1>2, CallLives

\* objc_destructInstance passes over an object only if its class is not
\* flagged: then it has no table, or it had another class.
LEMMA DisposeLives ==
    ASSUME TypeInv, LivesInv, NEW t \in Threads, Dispose(t)
    PROVE  LivesInv'
<1>1. PICK x, c :
              /\ x \in Owners
              /\ Live(x) /\ ~InUse(x)
              /\ c = IF isa[x] \in hasAssociated
                     THEN [at |-> "remove", object |-> x, free |-> TRUE]
                     ELSE [at |-> "release", object |-> x, free |-> TRUE, old |-> {}]
              /\ call' = [call EXCEPT ![t] = c]
              /\ UNCHANGED references
    BY DEF Dispose, Become
<1>2. /\ {"object", "free"} \subseteq DOMAIN c /\ c.object = x
      /\ c.at = "release" => isa[x] \notin hasAssociated
    BY <1>1
<1>3. \A o : /\ UsesIt(c, o) => o = x
             /\ FreesIt(c, o) => o = x
             /\ FreesNow(c, o) => o = x /\ isa[x] \notin hasAssociated
    BY <1>2 DEF UsesIt, FreesIt, FreesNow
<1>4. isa[x] \notin hasAssociated => NoneOrTwo(associations[x], classesHad[x])
    BY <1>1 DEF NoneOrTwo, LivesInv, EndsOK, Live
<1>5. call' = [call EXCEPT ![t] = c] /\ UNCHANGED <<isa, hasAssociated, associations, classesHad>>
    BY <1>1 DEF references
<1>6. /\ \A o \in Owners : UsesIt(c, o) => Live(o)
      /\ \A o \in Owners : FreesIt(c, o) => Live(o) /\ ~InUse(o)
      /\ \A o \in Owners : FreesNow(c, o) => NoneOrTwo(associations[o], classesHad[o])
    BY <1>1, <1>3, <1>4
<1>7. QED
    BY <1>5, <1>6, CallLives

\* The program creates an object, or gives it another class.
LEMMA CreateLives ==
    ASSUME TypeInv, LivesInv, NEW t \in Threads, Create(t) \/ SetClass(t)
    PROVE  LivesInv'
<1>1. UNCHANGED <<call, hasAssociated, associations>>
    BY DEF Create, SetClass
<1>2. PICK x \in Owners, d \in Classes :
              /\ isa' = [isa EXCEPT ![x] = d]
              /\ \/ /\ isa[x] = nil
                    /\ classesHad' = [classesHad EXCEPT ![x] =
                           {d} \cup IF associations[x] = nil THEN {} ELSE classesHad[x]]
                 \/ /\ Live(x)
                    /\ classesHad' = [classesHad EXCEPT ![x] = classesHad[x] \cup {d}]
  <2>1. CASE Create(t)
    BY <2>1 DEF Create
  <2>2. CASE SetClass(t)
    BY <2>2 DEF SetClass
  <2>3. QED
    BY <2>1, <2>2
<1>3. /\ isa'[x] = d /\ d # nil
      /\ \A o \in Owners \ {x} : isa'[o] = isa[o] /\ classesHad'[o] = classesHad[o]
      /\ d \in classesHad'[x]
      /\ associations[x] # nil => classesHad[x] \subseteq classesHad'[x]
    BY <1>2, ReferencesAssumption DEF TypeInv, ReferenceTypes
<1>4. UsersOK'
    BY <1>1, <1>3 DEF LivesInv, UsersOK
<1>5. ASSUME NEW u \in Threads, FreesNow(call[u], x)
      PROVE  FALSE
  <2>1. UsesIt(call[u], x) /\ Destroyed(x)
    BY <1>5 DEF FreesNow, FreesIt, UsesIt, Destroyed
  <2>2. isa[x] # nil
    BY <2>1 DEF LivesInv, UsersOK
  <2>3. QED
    BY <1>2, <2>1, <2>2 DEF Live
<1>6. EndsOK'
    BY <1>1, <1>3, <1>5 DEF LivesInv, EndsOK
<1>7. QED
    BY <1>4, <1>6 DEF LivesInv

\* The first association of an object flags its class.
LEMMA ChangeTableLives ==
    ASSUME TypeInv, LivesInv, NEW t \in Threads, ChangeTable(t)
    PROVE  LivesInv'
<1>1. call[t].at = "associate change" /\ call[t] \in AssociateCall
    BY DEF ChangeTable, At, TypeInv, CallTypes, CallTyped
<1>2. PICK x \in Owners : x = call[t].object
    BY <1>1 DEF AssociateCall
<1>3. UsesIt(call[t], x)
    BY <1>1, <1>2 DEF UsesIt, AssociateCall
<1>4. isa[x] # nil
    BY <1>3 DEF LivesInv, UsersOK
<1>5. PICK new, c : /\ new = Changed(associations[x], call[t])
                    /\ associations' = [associations EXCEPT ![x] = new]
                    /\ c = [at |-> "release", object |-> x, free |-> FALSE,
                            old |-> call[t].old]
                    /\ call' = [call EXCEPT ![t] = c]
                    /\ UNCHANGED <<isa, classesHad>>
                    /\ hasAssociated' = hasAssociated \cup
                           IF FirstOf(associations[x], call[t].value) THEN {isa[x]} ELSE {}
    BY <1>2 DEF ChangeTable, Become
<1>6. \A o : ~FreesIt(c, o) /\ (UsesIt(c, o) => o = x)
    BY <1>5 DEF FreesIt, UsesIt
<1>7. call'[t] = c /\ \A u \in Threads \ {t} : call'[u] = call[u]
  <2>1. call' = [call EXCEPT ![t] = c]
    BY <1>5
  <2>2. QED
    BY <2>1, OneCall
<1>8. associations'[x] = new /\ \A o \in Owners \ {x} : associations'[o] = associations[o]
    BY <1>5 DEF TypeInv, ReferenceTypes
<1>9. UsersOK'
    BY <1>3, <1>4, <1>5, <1>6, <1>7, UsersStep DEF LivesInv
<1>10. ASSUME NEW u \in Threads, NEW o \in Owners, FreesNow(call'[u], o)
       PROVE  FreesNow(call[u], o) /\ o # x
  <2>1. u # t
    BY <1>6, <1>7, <1>10 DEF FreesNow
  <2>2. FreesNow(call[u], o)
    BY <1>7, <1>10, <2>1
  <2>3. o # x
    BY <1>3, <2>1, <2>2 DEF FreesNow, LivesInv, UsersOK
  <2>4. QED
    BY <2>2, <2>3
<1>11. new # nil => \E d \in classesHad[x] : d \in hasAssociated'
  <2>1. CASE associations[x] = nil
    <3>1. call[t].value = nil => new = nil
      BY <1>5, <2>1 DEF Changed
    <3>2. call[t].value # nil => isa[x] \in hasAssociated'
      BY <1>5, <2>1 DEF FirstOf
    <3>3. isa[x] \in classesHad[x]
      BY <1>4 DEF LivesInv, EndsOK
    <3>4. QED
      BY <3>1, <3>2, <3>3
  <2>2. CASE associations[x] # nil
    BY <1>5, <2>2 DEF LivesInv, EndsOK
  <2>3. QED
    BY <2>1, <2>2
<1>12. hasAssociated \subseteq hasAssociated'
    BY <1>5
<1>13. EndsOK'
  <2>1. ASSUME NEW o \in Owners
        PROVE  /\ isa'[o] # nil => isa'[o] \in classesHad'[o]
               /\ associations'[o] # nil => \E d \in classesHad'[o] : d \in hasAssociated'
               /\ isa'[o] = nil \/ (\E u \in Threads : FreesNow(call'[u], o))
                      => NoneOrTwo(associations'[o], classesHad'[o])
    <3>1. CASE o = x
      <4>1. isa[x] \in classesHad[x]
        BY <1>4 DEF LivesInv, EndsOK
      <4>2. QED
        BY <1>4, <1>5, <1>8, <1>10, <1>11, <3>1, <4>1
    <3>2. CASE o # x
      BY <1>5, <1>8, <1>10, <1>12, <3>2 DEF LivesInv, EndsOK
    <3>3. QED
      BY <3>1, <3>2
  <2>2. QED
    BY <2>1 DEF EndsOK
<1>14. QED
    BY <1>9, <1>13 DEF LivesInv

LEMMA RemoveTableLives ==
    ASSUME TypeInv, LivesInv, NEW t \in Threads, RemoveTable(t)
    PROVE  LivesInv'
<1>1. call[t].at = "remove" /\ call[t] \in RemoveCall
    BY DEF RemoveTable, At, TypeInv, CallTypes, CallTyped
<1>2. PICK x \in Owners, f \in BOOLEAN : x = call[t].object /\ f = call[t].free
    BY <1>1 DEF RemoveCall
<1>3. PICK old, c : /\ c = [at |-> "release", object |-> x, free |-> f, old |-> old]
                    /\ call' = [call EXCEPT ![t] = c]
                    /\ associations' = [associations EXCEPT ![x] = nil]
                    /\ UNCHANGED <<isa, hasAssociated, classesHad>>
    BY <1>2 DEF RemoveTable, Become
<1>4. {"object", "free"} \subseteq DOMAIN c /\ c.object = x /\ c.free = f
    BY <1>3
<1>5. /\ {"object", "free"} \subseteq DOMAIN call[t]
      /\ \A o : UsesIt(c, o) => UsesIt(call[t], o)
      /\ \A o : FreesIt(c, o) => FreesIt(call[t], o)
      /\ \A o : FreesIt(c, o) => o = x
    BY <1>1, <1>2, <1>4 DEF RemoveCall, UsesIt, FreesIt
<1>6. call'[t] = c /\ \A u \in Threads \ {t} : call'[u] = call[u]
  <2>1. call' = [call EXCEPT ![t] = c]
    BY <1>3
  <2>2. QED
    BY <2>1, OneCall
<1>7. associations'[x] = nil /\ \A o \in Owners \ {x} : associations'[o] = associations[o]
    BY <1>3 DEF TypeInv, ReferenceTypes
<1>8. \A o \in Owners : UsesIt(c, o) => isa'[o] # nil
    BY <1>3, <1>5 DEF LivesInv, UsersOK
<1>9. UsersOK'
    BY <1>3, <1>5, <1>6, <1>8, UsersStep DEF LivesInv
<1>10. EndsOK'
  <2>1. ASSUME NEW o \in Owners
        PROVE  /\ isa'[o] # nil => isa'[o] \in classesHad'[o]
               /\ associations'[o] # nil => \E d \in classesHad'[o] : d \in hasAssociated'
               /\ isa'[o] = nil \/ (\E u \in Threads : FreesNow(call'[u], o))
                      => NoneOrTwo(associations'[o], classesHad'[o])
    <3>1. CASE o = x
      BY <1>3, <1>7, <3>1 DEF LivesInv, EndsOK, NoneOrTwo
    <3>2. CASE o # x
      <4>1. ASSUME NEW u \in Threads, FreesNow(call'[u], o)
            PROVE  FreesNow(call[u], o)
        BY <1>5, <1>6, <3>2, <4>1 DEF FreesNow
      <4>2. QED
        BY <1>3, <1>7, <3>2, <4>1 DEF LivesInv, EndsOK
    <3>3. QED
      BY <3>1, <3>2
  <2>2. QED
    BY <2>1 DEF EndsOK
<1>11. QED
    BY <1>9, <1>10 DEF LivesInv

\* The memory of an object is freed when its associations are gone, or were
\* passed over.
LEMMA BrokenLives ==
    ASSUME TypeInv, LivesInv, NEW t \in Threads, Broken(t)
    PROVE  LivesInv'
<1>1. call[t].at = "release" /\ call[t] \in ReleaseCall
    BY DEF Broken, At, TypeInv, CallTypes, CallTyped
<1>2. PICK x \in Owners : x = call[t].object
    BY <1>1 DEF ReleaseCall
<1>3. PICK c : /\ c = [at |-> "idle"]
               /\ call' = [call EXCEPT ![t] = c]
               /\ UNCHANGED <<hasAssociated, associations, classesHad>>
               /\ isa' = IF call[t].free THEN [isa EXCEPT ![x] = nil] ELSE isa
    BY <1>2 DEF Broken, Return, Become
<1>4. \A o : ~UsesIt(c, o) /\ ~FreesIt(c, o) /\ ~FreesNow(c, o)
    BY <1>3 DEF UsesIt, FreesIt, FreesNow
<1>5. call'[t] = c /\ \A u \in Threads \ {t} : call'[u] = call[u]
  <2>1. call' = [call EXCEPT ![t] = c]
    BY <1>3
  <2>2. QED
    BY <2>1, OneCall
<1>6. call[t].free => FreesIt(call[t], x) /\ FreesNow(call[t], x)
    BY <1>1, <1>2 DEF ReleaseCall, FreesIt, FreesNow
<1>7. ASSUME NEW o \in Owners, isa'[o] # isa[o]
      PROVE  isa'[o] = nil /\ o = x /\ call[t].free
    BY <1>3, <1>7 DEF TypeInv, ReferenceTypes
<1>8. UsersOK'
    BY <1>4, <1>5, <1>6, <1>7, UsersStep DEF LivesInv
<1>9. EndsOK'
  <2>1. ASSUME NEW o \in Owners
        PROVE  /\ isa'[o] # nil => isa'[o] \in classesHad'[o]
               /\ associations'[o] # nil => \E d \in classesHad'[o] : d \in hasAssociated'
               /\ isa'[o] = nil \/ (\E u \in Threads : FreesNow(call'[u], o))
                      => NoneOrTwo(associations'[o], classesHad'[o])
    <3>1. /\ isa[o] # nil => isa[o] \in classesHad[o]
          /\ associations[o] # nil => \E d \in classesHad[o] : d \in hasAssociated
          /\ isa[o] = nil \/ (\E u \in Threads : FreesNow(call[u], o))
                 => NoneOrTwo(associations[o], classesHad[o])
      BY DEF LivesInv, EndsOK
    <3>2. ASSUME NEW u \in Threads, FreesNow(call'[u], o)
          PROVE  FreesNow(call[u], o)
      BY <1>4, <1>5, <3>2
    <3>3. isa'[o] = nil => isa[o] = nil \/ FreesNow(call[t], o)
      BY <1>6, <1>7
    <3>4. QED
      BY <1>3, <1>7, <3>1, <3>2, <3>3
  <2>2. QED
    BY <2>1 DEF EndsOK
<1>10. QED
    BY <1>8, <1>9 DEF LivesInv

LEMMA NextLives == TypeInv /\ StructInv /\ LivesInv /\ [Next]_vars => LivesInv'
<1> SUFFICES ASSUME TypeInv, StructInv, LivesInv, [Next]_vars
             PROVE  LivesInv'
    OBVIOUS
<1>1. CASE UNCHANGED vars
    BY <1>1, SameLives DEF vars, references
<1>2. ASSUME NEW t \in Threads, Properties(t) \/ Structures(t) \/ Memory(t)
      PROVE  LivesInv'
    BY <1>2, OtherLives
<1>3. ASSUME NEW t \in Threads, Associations(t)
      PROVE  LivesInv'
    BY <1>3, StartLives, MiddleLives, DisposeLives, CreateLives, ChangeTableLives,
       RemoveTableLives, BrokenLives DEF Associations
<1>4. QED
    BY <1>1, <1>2, <1>3 DEF Next

LEMMA InitLives == Init => LivesInv
<1> SUFFICES ASSUME Init
             PROVE  LivesInv
    OBVIOUS
<1>1. \A t \in Threads : call[t] = [at |-> "idle"]
    BY DEF Init, ValuesInit
<1>2. \A t \in Threads : DOMAIN call[t] = {"at"}
    BY <1>1
<1>3. \A t \in Threads : \A o : ~UsesIt(call[t], o) /\ ~FreesIt(call[t], o)
    BY <1>2 DEF UsesIt, FreesIt
<1>4. \A o \in Owners : isa[o] = nil /\ associations[o] = nil
    BY DEF Init, ReferencesInit
<1>5. QED
    BY <1>3, <1>4 DEF LivesInv, UsersOK, EndsOK, NoneOrTwo

LEMMA LifeSteps == Spec => [](TypeInv /\ StructInv /\ LivesInv)
BY InitLives, StructSteps, NextLives, PTL DEF Spec

\* No associations are left at the address of an object that was freed,
\* unless object_setClass changed its class.
THEOREM AssociationsEndWithTheirObjectCorrect == Spec => []AssociationsEndWithTheirObject
<1>1. TypeInv /\ LivesInv => AssociationsEndWithTheirObject
  <2> SUFFICES ASSUME TypeInv, LivesInv, NEW o \in Owners, isa[o] = nil, ~HasNone(o)
               PROVE  Cardinality(classesHad[o]) > 1
    BY DEF AssociationsEndWithTheirObject
  <2>1. PICK c, d \in classesHad[o] : c # d
    BY DEF LivesInv, EndsOK, NoneOrTwo, HasNone
  <2>2. IsFiniteSet(classesHad[o])
    BY ObjectsAssumption, FS_Subset DEF TypeInv, ReferenceTypes
  <2>3. /\ IsFiniteSet(classesHad[o] \ {c})
        /\ Cardinality(classesHad[o] \ {c}) = Cardinality(classesHad[o]) - 1
    BY <2>1, <2>2, FS_RemoveElement
  <2>4. Cardinality(classesHad[o] \ {c}) # 0
    BY <2>1, <2>3, FS_EmptySet
  <2>5. Cardinality(classesHad[o]) \in Nat /\ Cardinality(classesHad[o] \ {c}) \in Nat
    BY <2>2, <2>3, FS_CardinalityType
  <2>6. QED
    BY <2>3, <2>4, <2>5
<1>2. QED
    BY <1>1, LifeSteps, PTL

-----------------------------------------------------------------------------
(* Types.                                                                  *)

\* Only classes are flagged: who associates uses an object that has one.
LEMMA FlagsStep ==
    TypeInv /\ LivesInv /\ hasAssociated \subseteq Classes /\ [Next]_vars
        => (hasAssociated \subseteq Classes)'
<1> SUFFICES ASSUME TypeInv, LivesInv, hasAssociated \subseteq Classes, [Next]_vars
             PROVE  hasAssociated' \subseteq Classes
    OBVIOUS
<1>1. CASE UNCHANGED vars
    BY <1>1 DEF vars, references
<1>2. ASSUME NEW t \in Threads, Properties(t) \/ Structures(t) \/ Memory(t)
      PROVE  hasAssociated' \subseteq Classes
    BY <1>2 DEF Properties, Structures, Memory, references
<1>3. ASSUME NEW t \in Threads, ChangeTable(t)
      PROVE  hasAssociated' \subseteq Classes
  <2>1. call[t] \in AssociateCall
    BY <1>3 DEF ChangeTable, At, TypeInv, CallTypes, CallTyped
  <2>2. PICK x \in Owners : x = call[t].object
    BY <2>1 DEF AssociateCall
  <2>3. UsesIt(call[t], x)
    BY <2>1, <2>2 DEF UsesIt, AssociateCall
  <2>4. isa[x] \in Classes
    BY <2>3 DEF LivesInv, UsersOK, TypeInv, ReferenceTypes
  <2>5. hasAssociated' \subseteq hasAssociated \cup {isa[x]}
    BY <1>3, <2>2 DEF ChangeTable
  <2>6. QED
    BY <2>4, <2>5
<1>4. ASSUME NEW t \in Threads, Associations(t), ~ChangeTable(t)
      PROVE  hasAssociated' \subseteq Classes
    BY <1>4 DEF Associations, Create, SetClass, Associate, AcquireValue, FindOld,
       GetAssociated, FindAssociated, RetainAssociated, RemoveAssociations, Dispose,
       RemoveTable, ReleaseOld, Broken, references
<1>5. QED
    BY <1>1, <1>2, <1>3, <1>4 DEF Next

\* Every reachable state is well typed; a count is never negative, for it is a
\* number of references.
THEOREM TypeCorrect == Spec => []TypeOK
<1>1. TypeInv /\ StructInv /\ CountInv /\ hasAssociated \subseteq Classes => TypeOK
  <2> SUFFICES ASSUME TypeInv, StructInv, CountInv, hasAssociated \subseteq Classes
               PROVE  TypeOK
    OBVIOUS
  <2>1. ASSUME NEW v \in Objects
        PROVE  retainCount[v] \in Nat
    <3>1. /\ Cardinality(SlotsWith(ivar, v)) \in Nat /\ Cardinality(Holders(held, v)) \in Nat
          /\ Cardinality(Holders(pool, v)) \in Nat /\ Cardinality(Carriers(call, v)) \in Nat
          /\ Cardinality(Tabled(associations, v)) \in Nat
          /\ Cardinality(Owers(call, v)) \in Nat
      BY Finite
    <3>2. QED
      BY <3>1, Sums DEF CountInv, CountsOK
  <2>2. retainCount \in [Objects -> Nat]
    BY <2>1 DEF TypeInv, MemoryTypes
  <2>3. QED
    BY <2>2 DEF TypeOK, TypeInv, MemoryTypes, AccessorTypes, ReferenceTypes, Value,
       StructInv, StructTypes
<1>2. Init => hasAssociated \subseteq Classes
    BY DEF Init, ReferencesInit
<1>3. QED
    BY <1>1, <1>2, StructSteps, CountSteps, LifeSteps, FlagsStep, PTL DEF Spec

=============================================================================
