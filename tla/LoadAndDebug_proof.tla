------------------------- MODULE LoadAndDebug_proof -------------------------
(***************************************************************************)
(* Proofs about LoadMethods and, after them, about DebuggerMode, which     *)
(* share loadMethodLock and are proved about one by one.                   *)
(*                                                                         *)
(* LoadMethods: one +load method runs at a time, each is called once and   *)
(* in order, and none is forgotten, for any images, classes, categories    *)
(* and threads.  First what prepare_load_methods schedules, by induction   *)
(* over the class hierarchy and over the image's list; then the inductive  *)
(* invariant IInv: the methods that were called, those of the list that is *)
(* being run, loadable_classes and loadable_categories, in this sequence,  *)
(* repeat no method and have every method after those that it needs, and   *)
(* they are all that was scheduled.                                        *)
(*                                                                         *)
(* DebuggerMode: every lock is held as often as it was taken, for any      *)
(* threads and any nesting of loadMethodLock and of debugger mode, by the  *)
(* inductive invariant Inv.                                                *)
(***************************************************************************)
EXTENDS LoadMethods, DebuggerMode, Inductions

-----------------------------------------------------------------------------
(* Scheduling: what prepare_load_methods puts into loadable_classes.       *)

\* Heights as LoadMethodsAssumption gives them.
LEMMA Heights ==
    \E height : Descends(Classes, Super, Cardinality(Classes), height)
<1>1. Cardinality(Classes) \in Nat
    BY LoadMethodsAssumption, FS_CardinalityType DEF LoadMethodsAssumption
<1>2. PICK height \in [Classes -> 0..Cardinality(Classes)] :
            \A c \in Classes : Super[c] # None => height[Super[c]] < height[c]
    BY LoadMethodsAssumption DEF LoadMethodsAssumption
<1>3. \A c \in Classes : Super[c] \in Classes => Super[c] # None
    BY LoadMethodsAssumption DEF LoadMethodsAssumption, Methods
<1>4. QED
    BY <1>1, <1>2, <1>3 DEF Descends

LEMMA AncestorsRecur ==
    /\ Ancestors \in [Classes -> SUBSET Classes]
    /\ \A c \in Classes :
        Ancestors[c] = IF Super[c] = None THEN {} ELSE {Super[c]} \cup Ancestors[Super[c]]
<1> PICK N, height : Descends(Classes, Super, N, height)
    BY Heights
<1>a. PICK V : V = SUBSET Classes
    OBVIOUS
<1>b. PICK Ends : Ends = {c \in Classes : Super[c] = None}
    OBVIOUS
<1>c. PICK base : base = [c \in Classes |-> {}]
    OBVIOUS
<1>d. PICK step : step = [c \in Classes |-> [v \in V |-> IF c \in Ends THEN {} ELSE {Super[c]} \cup v]]
    OBVIOUS
<1>1. \A c \in Classes \ Ends : Super[c] \in Classes
    BY <1>b, LoadMethodsAssumption DEF LoadMethodsAssumption
<1>2. step \in [Classes -> [V -> V]] /\ base \in [Classes -> V] /\ Ends \in SUBSET Classes
    BY <1>1, <1>a, <1>b, <1>c, <1>d
<1>e. Recursion(Classes, Super, N, height, V, Ends, base, step)
    BY <1>1, <1>2 DEF Recursion
<1>3. PICK g \in [Classes -> V] : \A c \in Classes :
              g[c] = IF c \in Ends THEN base[c] ELSE step[c][g[Super[c]]]
    BY <1>e, HierarchyRecursion
<1>4. ASSUME NEW c \in Classes
      PROVE  g[c] = IF Super[c] = None THEN {} ELSE {Super[c]} \cup g[Super[c]]
    BY <1>1, <1>2, <1>3, <1>a, <1>b, <1>c, <1>d
<1>5. g = [c \in Classes |-> IF Super[c] = None THEN {} ELSE {Super[c]} \cup g[Super[c]]]
    BY <1>4
<1>6. Ancestors = [c \in Classes |->
            IF Super[c] = None THEN {} ELSE {Super[c]} \cup Ancestors[Super[c]]]
    BY <1>5 DEF Ancestors
<1>7. \A c \in Classes :
        Ancestors[c] = IF Super[c] = None THEN {} ELSE {Super[c]} \cup Ancestors[Super[c]]
    BY <1>6
<1> DEFINE G == {c \in Classes : Ancestors[c] \subseteq Classes}
<1>8. \A c \in Classes : (Super[c] \in Classes => Super[c] \in G) => c \in G
    BY <1>1, <1>7, <1>b
<1>9. G = Classes
  <2>1. G \in SUBSET Classes
    OBVIOUS
  <2> HIDE DEF G
  <2>2. QED
    BY <1>8, <2>1, HierarchyInduction
<1>10. Ancestors \in [Classes -> SUBSET Classes]
  <2>1. \A c \in Classes : Ancestors[c] \in SUBSET Classes
    BY <1>9
  <2>2. Ancestors = [c \in Classes |-> Ancestors[c]]
    BY <1>6
  <2>3. QED
    BY <2>1, <2>2
<1>11. QED
    BY <1>7, <1>10

LEMMA NotItsOwnAncestor ==
    ASSUME NEW c \in Classes
    PROVE  c \notin Ancestors[c]
<1> PICK N, height : Descends(Classes, Super, N, height)
    BY Heights
<1> DEFINE G == {d \in Classes : \A e \in Ancestors[d] : height[e] < height[d]}
<1>1. \A d \in Classes : (Super[d] \in Classes => Super[d] \in G) => d \in G
  <2> SUFFICES ASSUME NEW d \in Classes, Super[d] \in Classes => Super[d] \in G,
                      NEW e \in Ancestors[d]
               PROVE  height[e] < height[d]
    OBVIOUS
  <2>1. Super[d] \in Classes /\ e \in {Super[d]} \cup Ancestors[Super[d]] /\ e \in Classes
    BY AncestorsRecur, LoadMethodsAssumption DEF LoadMethodsAssumption
  <2>2. height[Super[d]] < height[d] /\ height \in [Classes -> 0..N] /\ N \in Nat
    BY <2>1 DEF Descends
  <2>3. CASE e = Super[d]
    BY <2>2, <2>3
  <2>4. CASE e \in Ancestors[Super[d]]
    <3>1. height[e] < height[Super[d]]
      BY <2>1, <2>4
    <3>2. height[e] \in Int /\ height[d] \in Int /\ height[Super[d]] \in Int
      BY <2>1, <2>2
    <3>3. QED
      BY <2>2, <3>1, <3>2
  <2>5. QED
    BY <2>1, <2>3, <2>4
<1>2. G = Classes
  <2>1. G \in SUBSET Classes
    OBVIOUS
  <2> HIDE DEF G
  <2>2. QED
    BY <1>1, <2>1, HierarchyInduction
<1>3. height \in [Classes -> 0..N] /\ N \in Nat
    BY DEF Descends
<1>4. height[c] \in Int
    BY <1>3
<1>5. QED
    BY <1>2, <1>4

LEMMA ScheduleRecurs ==
    ASSUME NEW done \in SUBSET Classes
    PROVE  /\ ScheduleClassLoad(done) \in [Classes -> Seq(Classes)]
           /\ \A c \in Classes :
                ScheduleClassLoad(done)[c] =
                    IF c \in done THEN <<>>
                    ELSE IF Super[c] = None THEN <<c>>
                    ELSE Append(ScheduleClassLoad(done)[Super[c]], c)
<1> PICK N, height : Descends(Classes, Super, N, height)
    BY Heights
<1>a. PICK V : V = Seq(Classes)
    OBVIOUS
<1>b. PICK Ends : Ends = {c \in Classes : c \in done \/ Super[c] = None}
    OBVIOUS
<1>c. PICK base : base = [c \in Classes |-> IF c \in done THEN <<>> ELSE <<c>>]
    OBVIOUS
<1>d. PICK step : step = [c \in Classes |-> [v \in V |-> Append(v, c)]]
    OBVIOUS
<1>1. \A c \in Classes \ Ends : Super[c] \in Classes
    BY <1>b, LoadMethodsAssumption DEF LoadMethodsAssumption
<1>2. step \in [Classes -> [V -> V]] /\ base \in [Classes -> V] /\ Ends \in SUBSET Classes
    BY <1>a, <1>b, <1>c, <1>d
<1>3. Recursion(Classes, Super, N, height, V, Ends, base, step)
    BY <1>1, <1>2 DEF Recursion
<1>4. PICK g \in [Classes -> V] : \A c \in Classes :
              g[c] = IF c \in Ends THEN base[c] ELSE step[c][g[Super[c]]]
    BY <1>3, HierarchyRecursion
<1>5. ASSUME NEW c \in Classes
      PROVE  g[c] = IF c \in done THEN <<>>
                    ELSE IF Super[c] = None THEN <<c>>
                    ELSE Append(g[Super[c]], c)
    BY <1>1, <1>2, <1>4, <1>a, <1>b, <1>c, <1>d
<1>6. g = [c \in Classes |-> IF c \in done THEN <<>>
                             ELSE IF Super[c] = None THEN <<c>>
                             ELSE Append(g[Super[c]], c)]
    BY <1>5
<1>7. PICK f : f = ScheduleClassLoad(done)
    OBVIOUS
<1>8. f = [c \in Classes |-> IF c \in done THEN <<>>
                             ELSE IF Super[c] = None THEN <<c>>
                             ELSE Append(f[Super[c]], c)]
    BY <1>6, <1>7 DEF ScheduleClassLoad
<1>9. \A c \in Classes : f[c] = IF c \in done THEN <<>>
                                ELSE IF Super[c] = None THEN <<c>>
                                ELSE Append(f[Super[c]], c)
    BY <1>8
<1> DEFINE G == {c \in Classes : f[c] \in Seq(Classes)}
<1>10. ASSUME NEW c \in Classes, Super[c] \in Classes => f[Super[c]] \in Seq(Classes)
       PROVE  f[c] \in Seq(Classes)
  <2>1. CASE c \in Ends
    <3>1. f[c] = <<>> \/ f[c] = <<c>>
      BY <1>9, <1>b, <2>1
    <3>2. <<>> \in Seq(Classes) /\ <<c>> \in Seq(Classes)
      OBVIOUS
    <3>3. QED
      BY <3>1, <3>2
  <2>2. CASE c \notin Ends
    <3>1. f[c] = Append(f[Super[c]], c) /\ Super[c] \in Classes
      BY <1>1, <1>9, <1>b, <2>2
    <3>2. QED
      BY <1>10, <3>1
  <2>3. QED
    BY <2>1, <2>2
<1>11. G = Classes
  <2>1. G \in SUBSET Classes
    OBVIOUS
  <2>2. \A c \in Classes : (Super[c] \in Classes => Super[c] \in G) => c \in G
    BY <1>10
  <2> HIDE DEF G
  <2>3. QED
    BY <2>1, <2>2, HierarchyInduction
<1>12. f \in [Classes -> Seq(Classes)]
  <2>1. \A c \in Classes : f[c] \in Seq(Classes)
    BY <1>11
  <2>2. f = [c \in Classes |-> f[c]]
    BY <1>8
  <2>3. QED
    BY <2>1, <2>2
<1>13. QED
    BY <1>7, <1>9, <1>12

\* What comes before the n-th element of a list.
Before(list, n) == {list[k] : k \in 1..n - 1}

\* With a class, all of its ancestors are in done.
Closed(done) == done \subseteq Classes /\ \A c \in done : Ancestors[c] \subseteq done

\* A list of methods that is to follow those in done: it repeats none, and has
\* every method after those that the method needs.
GoodList(list, done, needs) ==
    /\ list \in Seq(Methods)
    /\ IsInjective(list)
    /\ ToSet(list) \cap done = {}
    /\ \A n \in DOMAIN list : needs[list[n]] \subseteq done \cup Before(list, n)

\* A list of classes, each after its ancestors.
GoodSchedule(list, done) ==
    list \in Seq(Classes) /\ GoodList(list, done, Ancestors)

LEMMA EmptyList ==
    ASSUME NEW done, NEW needs
    PROVE  GoodList(<<>>, done, needs) /\ ToSet(<<>>) = {}
BY DEF GoodList, IsInjective, ToSet

LEMMA EmptySchedule ==
    ASSUME NEW done
    PROVE  GoodSchedule(<<>>, done) /\ ToSet(<<>>) = {}
BY EmptyList DEF GoodSchedule

LEMMA AppendSet ==
    ASSUME NEW S, NEW list \in Seq(S), NEW c
    PROVE  ToSet(Append(list, c)) = ToSet(list) \cup {c}
<1>1. ASSUME NEW x \in ToSet(Append(list, c))
      PROVE  x \in ToSet(list) \cup {c}
  <2>1. PICK n \in 1..Len(list) + 1 : x = Append(list, c)[n]
    BY <1>1 DEF ToSet
  <2>2. QED
    BY <2>1 DEF ToSet
<1>2. ASSUME NEW x \in ToSet(list) \cup {c}
      PROVE  x \in ToSet(Append(list, c))
  <2>1. Append(list, c)[Len(list) + 1] = c /\ Len(list) + 1 \in DOMAIN Append(list, c)
    OBVIOUS
  <2>2. \A n \in DOMAIN list : n \in DOMAIN Append(list, c) /\ Append(list, c)[n] = list[n]
    OBVIOUS
  <2>3. QED
    BY <2>1, <2>2 DEF ToSet
<1>3. QED
    BY <1>1, <1>2

LEMMA AppendList ==
    ASSUME NEW done, NEW needs, NEW list, GoodList(list, done, needs),
           NEW c \in Methods, c \notin done \cup ToSet(list),
           needs[c] \subseteq done \cup ToSet(list)
    PROVE  GoodList(Append(list, c), done, needs)
<1> DEFINE longer == Append(list, c)
<1>1. list \in Seq(Methods) /\ longer \in Seq(Methods) /\ DOMAIN longer = 1..Len(list) + 1
    BY DEF GoodList
<1>2. /\ \A n \in 1..Len(list) : longer[n] = list[n] /\ list[n] \in ToSet(list)
      /\ longer[Len(list) + 1] = c
    BY <1>1 DEF ToSet
<1>3. IsInjective(longer)
  <2> SUFFICES ASSUME NEW a \in 1..Len(list) + 1, NEW b \in 1..Len(list) + 1, longer[a] = longer[b]
               PROVE  a = b
    BY <1>1 DEF IsInjective
  <2>1. \A x, y \in 1..Len(list) : list[x] = list[y] => x = y
    BY <1>1 DEF GoodList, IsInjective
  <2> HIDE DEF longer
  <2>2. QED
    BY <1>1, <1>2, <2>1
<1>4. ToSet(longer) \cap done = {}
    BY <1>1, AppendSet DEF GoodList
<1>5. ASSUME NEW n \in 1..Len(list) + 1
      PROVE  needs[longer[n]] \subseteq done \cup Before(longer, n)
  <2>1. CASE n = Len(list) + 1
    <3>1. Before(longer, n) = ToSet(list)
      BY <1>1, <1>2, <2>1 DEF Before, ToSet
    <3>2. QED
      BY <1>2, <2>1, <3>1
  <2>2. CASE n # Len(list) + 1
    <3>1. n \in 1..Len(list)
      BY <1>1, <2>2
    <3>2. Before(longer, n) = Before(list, n)
      BY <1>1, <1>2, <3>1 DEF Before
    <3>3. QED
      BY <1>1, <1>2, <3>1, <3>2 DEF GoodList
  <2>3. QED
    BY <2>1, <2>2
<1>6. QED
    BY <1>1, <1>3, <1>4, <1>5 DEF GoodList

LEMMA AppendSchedule ==
    ASSUME NEW done, NEW list, GoodSchedule(list, done),
           NEW c \in Classes, c \notin done \cup ToSet(list),
           Ancestors[c] \subseteq done \cup ToSet(list)
    PROVE  GoodSchedule(Append(list, c), done)
<1>1. c \in Methods
    BY DEF Methods
<1>2. GoodList(Append(list, c), done, Ancestors)
    BY <1>1, AppendList DEF GoodSchedule
<1>3. QED
    BY <1>2 DEF GoodSchedule

\* schedule_class_load brings a class and all its ancestors, in order.
LEMMA ScheduleIsGood ==
    ASSUME NEW done, Closed(done), NEW c \in Classes
    PROVE  LET list == ScheduleClassLoad(done)[c] IN
           /\ GoodSchedule(list, done)
           /\ {c} \cup Ancestors[c] \subseteq done \cup ToSet(list)
<1> PICK N, height : Descends(Classes, Super, N, height)
    BY Heights
<1>1. PICK f : f = ScheduleClassLoad(done)
    OBVIOUS
<1>2. /\ f \in [Classes -> Seq(Classes)]
      /\ \A d \in Classes : f[d] = IF d \in done THEN <<>>
                                   ELSE IF Super[d] = None THEN <<d>>
                                   ELSE Append(f[Super[d]], d)
    BY <1>1, ScheduleRecurs DEF Closed
<1> DEFINE Good(d) ==
        /\ GoodSchedule(f[d], done)
        /\ {d} \cup Ancestors[d] \subseteq done \cup ToSet(f[d])
        /\ ToSet(f[d]) \subseteq {d} \cup Ancestors[d]
<1> DEFINE G == {d \in Classes : Good(d)}
<1>3. ASSUME NEW d \in Classes, Super[d] \in Classes => Super[d] \in G
      PROVE  Good(d)
  <2>1. CASE d \in done
    <3>1. f[d] = <<>>
      BY <1>2, <2>1
    <3>2. Ancestors[d] \subseteq done
      BY <2>1 DEF Closed
    <3>3. QED
      BY <2>1, <3>1, <3>2, EmptySchedule
  <2>2. CASE d \notin done /\ Super[d] = None
    <3>1. f[d] = Append(<<>>, d) /\ Ancestors[d] = {}
      BY <1>2, <2>2, AncestorsRecur
    <3>2. GoodSchedule(f[d], done)
      BY <2>2, <3>1, EmptySchedule, AppendSchedule
    <3>3. ToSet(f[d]) = {d}
      <4>1. <<>> \in Seq(Classes) /\ ToSet(<<>>) = {}
        BY EmptySchedule
      <4>2. ToSet(Append(<<>>, d)) = ToSet(<<>>) \cup {d}
        BY <4>1, AppendSet
      <4>3. QED
        BY <3>1, <4>1, <4>2
    <3>4. QED
      BY <3>1, <3>2, <3>3
  <2>3. CASE d \notin done /\ Super[d] # None
    <3>1. /\ Super[d] \in Classes
          /\ f[d] = Append(f[Super[d]], d)
          /\ Ancestors[d] = {Super[d]} \cup Ancestors[Super[d]]
      BY <1>2, <2>3, AncestorsRecur, LoadMethodsAssumption DEF LoadMethodsAssumption
    <3>2. Good(Super[d])
      BY <1>3, <3>1
    <3>3. d \notin ToSet(f[Super[d]])
      BY <3>1, <3>2, NotItsOwnAncestor
    <3>4. GoodSchedule(f[d], done)
      BY <2>3, <3>1, <3>2, <3>3, AppendSchedule
    <3>5. ToSet(f[d]) = ToSet(f[Super[d]]) \cup {d}
      BY <1>2, <3>1, AppendSet
    <3>6. QED
      BY <3>1, <3>2, <3>4, <3>5
  <2>4. QED
    BY <2>1, <2>2, <2>3
<1>4. G = Classes
  <2>1. G \in SUBSET Classes
    OBVIOUS
  <2>2. \A d \in Classes : (Super[d] \in Classes => Super[d] \in G) => d \in G
    BY <1>3
  <2> HIDE DEF G
  <2>3. QED
    BY <2>1, <2>2, HierarchyInduction
<1>5. Good(c)
    BY <1>4
<1>6. QED
    BY <1>1, <1>5

LEMMA ConcatSet ==
    ASSUME NEW S, NEW list \in Seq(S), NEW more \in Seq(S)
    PROVE  ToSet(list \o more) = ToSet(list) \cup ToSet(more)
<1> DEFINE both == list \o more
<1>1. /\ both \in Seq(S) /\ Len(both) = Len(list) + Len(more)
      /\ \A n \in 1..Len(list) : both[n] = list[n]
      /\ \A n \in 1..Len(more) : both[Len(list) + n] = more[n]
    OBVIOUS
<1>2. ASSUME NEW x \in ToSet(both)
      PROVE  x \in ToSet(list) \cup ToSet(more)
  <2>1. PICK n \in 1..Len(list) + Len(more) : x = both[n]
    BY <1>1 DEF ToSet
  <2>2. CASE n <= Len(list)
    BY <1>1, <2>1, <2>2 DEF ToSet
  <2>3. CASE n > Len(list)
    <3>1. n - Len(list) \in 1..Len(more) /\ n = Len(list) + (n - Len(list))
      BY <2>1, <2>3
    <3>2. x = more[n - Len(list)]
      BY <1>1, <2>1, <3>1
    <3>3. QED
      BY <3>1, <3>2 DEF ToSet
  <2>4. QED
    BY <2>1, <2>2, <2>3
<1>3. \A n \in DOMAIN list : n \in DOMAIN both /\ both[n] = list[n]
    BY <1>1
<1>4. \A n \in DOMAIN more : Len(list) + n \in DOMAIN both /\ both[Len(list) + n] = more[n]
    BY <1>1
<1> HIDE DEF both
<1>5. ToSet(list) \cup ToSet(more) \subseteq ToSet(both)
    BY <1>3, <1>4 DEF ToSet
<1>6. QED
    BY <1>2, <1>5 DEF both

\* A list followed by one that is to follow it too.
LEMMA ConcatList ==
    ASSUME NEW done, NEW needs, NEW list, NEW more,
           GoodList(list, done, needs), GoodList(more, done \cup ToSet(list), needs)
    PROVE  GoodList(list \o more, done, needs)
<1>1. PICK both : both = list \o more
    OBVIOUS
<1>2. list \in Seq(Methods) /\ more \in Seq(Methods)
    BY DEF GoodList
<1>3. /\ both \in Seq(Methods) /\ DOMAIN both = 1..Len(list) + Len(more)
      /\ \A n \in 1..Len(list) : both[n] = list[n]
      /\ \A n \in 1..Len(more) : both[Len(list) + n] = more[n]
      /\ \A n \in 1..Len(list) + Len(more) :
            n > Len(list) => n - Len(list) \in 1..Len(more) /\ both[n] = more[n - Len(list)]
    BY <1>1, <1>2
<1>4. ToSet(both) = ToSet(list) \cup ToSet(more)
    BY <1>1, <1>2, ConcatSet
<1>5. /\ \A n \in 1..Len(list) : both[n] \in ToSet(list)
      /\ \A n \in 1..Len(list) + Len(more) : n > Len(list) => both[n] \in ToSet(more)
  <2>1. \A n \in 1..Len(list) : list[n] \in ToSet(list)
    BY <1>2 DEF ToSet
  <2>2. \A n \in 1..Len(more) : more[n] \in ToSet(more)
    BY <1>2 DEF ToSet
  <2>3. QED
    BY <1>3, <2>1, <2>2
<1>6. IsInjective(both)
  <2> SUFFICES ASSUME NEW a \in 1..Len(list) + Len(more), NEW b \in 1..Len(list) + Len(more),
                      both[a] = both[b]
               PROVE  a = b
    BY <1>3 DEF IsInjective
  <2>1. CASE a <= Len(list) /\ b <= Len(list)
    <3>1. a \in 1..Len(list) /\ b \in 1..Len(list)
      BY <2>1
    <3>2. list[a] = list[b]
      BY <1>3, <3>1
    <3>3. QED
      BY <1>2, <3>1, <3>2 DEF GoodList, IsInjective
  <2>2. CASE a > Len(list) /\ b > Len(list)
    <3>1. a - Len(list) \in 1..Len(more) /\ b - Len(list) \in 1..Len(more)
      BY <1>3, <2>2
    <3>2. more[a - Len(list)] = more[b - Len(list)]
      BY <1>3, <2>2
    <3>3. a - Len(list) = b - Len(list)
      BY <1>2, <3>1, <3>2 DEF GoodList, IsInjective
    <3>4. QED
      BY <1>2, <3>3
  <2>3. ToSet(list) \cap ToSet(more) = {}
    BY DEF GoodList
  <2>4. QED
    BY <1>2, <1>5, <2>1, <2>2, <2>3
<1>7. ToSet(both) \cap done = {}
    BY <1>4 DEF GoodList
<1>8. ASSUME NEW n \in 1..Len(list) + Len(more)
      PROVE  needs[both[n]] \subseteq done \cup Before(both, n)
  <2>1. CASE n <= Len(list)
    <3>1. n \in 1..Len(list)
      BY <2>1
    <3>2. Before(both, n) = Before(list, n)
      <4>1. \A k \in 1..n - 1 : k \in 1..Len(list)
        BY <1>2, <3>1
      <4>2. QED
        BY <1>3, <4>1 DEF Before
    <3>3. QED
      BY <1>2, <1>3, <3>1, <3>2 DEF GoodList
  <2>2. CASE n > Len(list)
    <3>1. PICK m \in 1..Len(more) : m = n - Len(list)
      BY <1>3, <2>2
    <3>2. both[n] = more[m]
      BY <1>3, <2>2, <3>1
    <3>3. needs[more[m]] \subseteq done \cup ToSet(list) \cup Before(more, m)
      BY <1>2 DEF GoodList
    <3>4. ToSet(list) \subseteq Before(both, n)
      <4>1. \A k \in DOMAIN list : k \in 1..n - 1 /\ list[k] = both[k]
        BY <1>2, <1>3, <2>2
      <4>2. QED
        BY <4>1 DEF ToSet, Before
    <3>5. Before(more, m) \subseteq Before(both, n)
      <4>1. \A k \in 1..m - 1 : Len(list) + k \in 1..n - 1 /\ both[Len(list) + k] = more[k]
        BY <1>2, <1>3, <3>1
      <4>2. QED
        BY <4>1 DEF Before
    <3>6. QED
      BY <3>2, <3>3, <3>4, <3>5
  <2>3. QED
    BY <1>2, <2>1, <2>2
<1>9. QED
    BY <1>1, <1>3, <1>6, <1>7, <1>8 DEF GoodList

LEMMA ConcatSchedule ==
    ASSUME NEW done, NEW list, NEW more,
           GoodSchedule(list, done), GoodSchedule(more, done \cup ToSet(list))
    PROVE  GoodSchedule(list \o more, done)
BY ConcatList DEF GoodSchedule

LEMMA ScheduledIsClosed ==
    ASSUME NEW done, NEW list, Closed(done), GoodSchedule(list, done)
    PROVE  Closed(done \cup ToSet(list))
<1>1. list \in Seq(Classes)
    BY DEF GoodSchedule
<1>2. ToSet(list) \subseteq Classes
    BY <1>1 DEF ToSet
<1>3. ASSUME NEW n \in DOMAIN list
      PROVE  Ancestors[list[n]] \subseteq done \cup ToSet(list)
  <2>1. Before(list, n) \subseteq ToSet(list)
    <3>1. \A k \in 1..n - 1 : k \in DOMAIN list
      BY <1>1
    <3>2. QED
      BY <3>1 DEF Before, ToSet
  <2>2. QED
    BY <2>1 DEF GoodSchedule, GoodList
<1>4. \A c \in ToSet(list) : Ancestors[c] \subseteq done \cup ToSet(list)
    BY <1>3 DEF ToSet
<1>5. QED
    BY <1>2, <1>4 DEF Closed

\* prepare_load_methods schedules the classes of an image, with all their
\* ancestors, in order.
LEMMA ScheduledIsGood ==
    ASSUME Closed(marked), NEW i \in Images
    PROVE  /\ GoodSchedule(Scheduled(i), marked)
           /\ ToSet(NonlazyClasses[i]) \subseteq marked \cup ToSet(Scheduled(i))
<1>1. PICK list : list = NonlazyClasses[i]
    OBVIOUS
<1>2. list \in Seq(Classes) /\ Len(list) \in Nat /\ DOMAIN list = 1..Len(list)
    BY <1>1, LoadMethodsAssumption DEF LoadMethodsAssumption
<1>3. marked \subseteq Classes
    BY DEF Closed
<1>4. PICK V : V = Seq(Classes)
    OBVIOUS
<1>5. PICK step : step = [n \in 1..Len(list) |-> [v \in V |->
                              v \o ScheduleClassLoad(marked \cup ToSet(v))[list[n]]]]
    OBVIOUS
<1>6. step \in [1..Len(list) -> [V -> V]]
  <2>1. ASSUME NEW n \in 1..Len(list), NEW v \in V
        PROVE  v \o ScheduleClassLoad(marked \cup ToSet(v))[list[n]] \in V
    <3>1. ToSet(v) \subseteq Classes
      BY <1>4 DEF ToSet
    <3>2. marked \cup ToSet(v) \in SUBSET Classes
      BY <1>3, <3>1
    <3>3. list[n] \in Classes
      BY <1>2
    <3>4. ScheduleClassLoad(marked \cup ToSet(v))[list[n]] \in Seq(Classes)
      BY <3>2, <3>3, ScheduleRecurs
    <3>5. QED
      BY <1>4, <3>4
  <2>2. QED
    BY <1>5, <2>1
<1>7. <<>> \in V
    BY <1>4
<1>8. PICK g \in [0..Len(list) -> V] : \A n \in 0..Len(list) :
              g[n] = IF n = 0 THEN <<>> ELSE step[n][g[n - 1]]
  <2>1. PICK N \in Nat : N = Len(list)
    BY <1>2
  <2>2. step \in [1..N -> [V -> V]]
    BY <1>6, <2>1
  <2>3. Iteration(N, V, <<>>, step)
    BY <1>7, <2>2 DEF Iteration
  <2>4. QED
    BY <2>1, <2>3, PrefixRecursion
<1>9. g = [n \in 0..Len(list) |->
               IF n = 0 THEN <<>>
               ELSE g[n - 1] \o ScheduleClassLoad(marked \cup ToSet(g[n - 1]))[list[n]]]
  <2>1. ASSUME NEW n \in 0..Len(list), n # 0
        PROVE  g[n] = g[n - 1] \o ScheduleClassLoad(marked \cup ToSet(g[n - 1]))[list[n]]
    <3>1. n \in 1..Len(list) /\ n - 1 \in 0..Len(list)
      BY <1>2, <2>1
    <3>2. g[n - 1] \in V
      BY <3>1
    <3>3. g[n] = step[n][g[n - 1]]
      BY <1>8, <2>1
    <3>4. QED
      BY <1>5, <3>1, <3>2, <3>3
  <2>2. g[0] = <<>>
    BY <1>2, <1>8
  <2>3. QED
    BY <2>1, <2>2
<1> DEFINE upTo[n \in 0..Len(NonlazyClasses[i])] ==
              IF n = 0 THEN <<>>
              ELSE upTo[n - 1] \o ScheduleClassLoad(marked \cup ToSet(upTo[n - 1]))[NonlazyClasses[i][n]]
<1>10. upTo = [n \in 0..Len(list) |->
               IF n = 0 THEN <<>>
               ELSE upTo[n - 1] \o ScheduleClassLoad(marked \cup ToSet(upTo[n - 1]))[list[n]]]
    BY <1>1, <1>9
<1>11. Scheduled(i) = upTo[Len(list)]
    BY <1>1 DEF Scheduled
<1> HIDE DEF upTo
<1> DEFINE Good(n) ==
        /\ GoodSchedule(upTo[n], marked)
        /\ \A k \in 1..n : list[k] \in marked \cup ToSet(upTo[n])
<1> DEFINE G == {n \in 0..Len(list) : Good(n)}
<1>12. 0 \in G
  <2>1. upTo[0] = <<>> /\ 0 \in 0..Len(list)
    BY <1>2, <1>10
  <2>2. QED
    BY <2>1, EmptySchedule
<1>13. ASSUME NEW n \in 0..Len(list), Good(n), n < Len(list)
       PROVE  Good(n + 1)
  <2>1. n + 1 \in 1..Len(list) /\ n + 1 \in 0..Len(list) /\ n + 1 # 0 /\ (n + 1) - 1 = n
    BY <1>2, <1>13
  <2>2. PICK more : more = ScheduleClassLoad(marked \cup ToSet(upTo[n]))[list[n + 1]]
    OBVIOUS
  <2>3. upTo[n + 1] = upTo[n] \o more
    BY <1>10, <2>1, <2>2
  <2>4. Closed(marked \cup ToSet(upTo[n]))
    BY <1>13, ScheduledIsClosed
  <2>5. /\ GoodSchedule(more, marked \cup ToSet(upTo[n]))
        /\ list[n + 1] \in marked \cup ToSet(upTo[n]) \cup ToSet(more)
    BY <1>2, <2>1, <2>2, <2>4, ScheduleIsGood
  <2>6. GoodSchedule(upTo[n + 1], marked)
    BY <1>13, <2>3, <2>5, ConcatSchedule
  <2>7. upTo[n] \in Seq(Classes) /\ more \in Seq(Classes)
    BY <1>13, <2>5 DEF GoodSchedule
  <2>8. ToSet(upTo[n + 1]) = ToSet(upTo[n]) \cup ToSet(more)
    BY <2>3, <2>7, ConcatSet
  <2>9. \A k \in 1..n + 1 : list[k] \in marked \cup ToSet(upTo[n + 1])
    <3>1. \A k \in 1..n + 1 : k \in 1..n \/ k = n + 1
      BY <1>2
    <3>2. QED
      BY <1>13, <2>5, <2>8, <3>1
  <2>10. QED
    BY <2>6, <2>9
<1>14. G = 0..Len(list)
  <2>1. G \in SUBSET (0..Len(list))
    OBVIOUS
  <2>2. \A n \in 0..Len(list) : n \in G /\ n < Len(list) => n + 1 \in G
    <3>1. \A n \in 0..Len(list) : n < Len(list) => n + 1 \in 0..Len(list)
      BY <1>2
    <3>2. QED
      BY <1>13, <3>1
  <2> HIDE DEF G
  <2>3. QED
    BY <1>2, <1>12, <2>1, <2>2, PrefixInduction
<1>15. Good(Len(list))
  <2>1. Len(list) \in 0..Len(list)
    BY <1>2
  <2>2. QED
    BY <1>14, <2>1
<1>16. QED
    BY <1>1, <1>2, <1>11, <1>15 DEF ToSet

\* The +load methods that must be called before a method is: those of a class's
\* ancestors, those of all the classes in a category's image.
Needs == [m \in Methods |->
    IF m \in Classes THEN Ancestors[m] \cap HasLoad
    ELSE UNION {ToSet(NonlazyClasses[i]) :
                    i \in {j \in Images : m \in ToSet(NonlazyCategories[j])}}]

LEMMA LoadableRecurs ==
    ASSUME NEW list \in Seq(Classes)
    PROVE  \E f \in [0..Len(list) -> Seq(HasLoad)] :
              /\ Loadable(list) = f[Len(list)]
              /\ f[0] = <<>>
              /\ \A n \in 1..Len(list) :
                    f[n] = IF list[n] \in HasLoad THEN Append(f[n - 1], list[n]) ELSE f[n - 1]
<1>1. Len(list) \in Nat /\ DOMAIN list = 1..Len(list)
    OBVIOUS
<1>2. PICK V : V = Seq(HasLoad)
    OBVIOUS
<1>3. PICK step : step = [n \in 1..Len(list) |-> [v \in V |->
                              IF list[n] \in HasLoad THEN Append(v, list[n]) ELSE v]]
    OBVIOUS
<1>4. step \in [1..Len(list) -> [V -> V]]
  <2>1. ASSUME NEW n \in 1..Len(list), NEW v \in V
        PROVE  (IF list[n] \in HasLoad THEN Append(v, list[n]) ELSE v) \in V
    BY <1>2
  <2>2. QED
    BY <1>3, <2>1
<1>5. <<>> \in V
    BY <1>2
<1>6. PICK g \in [0..Len(list) -> V] : \A n \in 0..Len(list) :
              g[n] = IF n = 0 THEN <<>> ELSE step[n][g[n - 1]]
  <2>1. PICK N : N = Len(list)
    OBVIOUS
  <2>2. Iteration(N, V, <<>>, step)
    BY <1>1, <1>4, <1>5, <2>1 DEF Iteration
  <2>3. QED
    BY <2>1, <2>2, PrefixRecursion
<1>7. \A n \in 1..Len(list) :
        g[n] = IF list[n] \in HasLoad THEN Append(g[n - 1], list[n]) ELSE g[n - 1]
  <2> SUFFICES ASSUME NEW n \in 1..Len(list)
               PROVE  g[n] = IF list[n] \in HasLoad THEN Append(g[n - 1], list[n]) ELSE g[n - 1]
    OBVIOUS
  <2>1. n - 1 \in 0..Len(list) /\ n \in 0..Len(list) /\ n # 0
    BY <1>1
  <2>2. g[n - 1] \in V
    BY <2>1
  <2>3. g[n] = step[n][g[n - 1]]
    BY <1>6, <2>1
  <2>4. QED
    BY <1>3, <2>2, <2>3
<1>8. g[0] = <<>>
    BY <1>1, <1>6
<1>9. g = [n \in 0..Len(list) |->
              IF n = 0 THEN <<>>
              ELSE IF list[n] \in HasLoad THEN Append(g[n - 1], list[n])
              ELSE g[n - 1]]
  <2>1. \A n \in 0..Len(list) : n # 0 => n \in 1..Len(list)
    BY <1>1
  <2>2. QED
    BY <1>7, <1>8, <2>1
<1> DEFINE upTo[n \in 0..Len(list)] ==
              IF n = 0 THEN <<>>
              ELSE IF list[n] \in HasLoad THEN Append(upTo[n - 1], list[n])
              ELSE upTo[n - 1]
<1>10. upTo = [n \in 0..Len(list) |->
              IF n = 0 THEN <<>>
              ELSE IF list[n] \in HasLoad THEN Append(upTo[n - 1], list[n])
              ELSE upTo[n - 1]]
    BY <1>9
<1>11. Loadable(list) = upTo[Len(list)]
    BY DEF Loadable
<1> HIDE DEF upTo
<1>12. upTo[0] = <<>>
    BY <1>1, <1>10
<1>13. \A n \in 1..Len(list) :
        upTo[n] = IF list[n] \in HasLoad THEN Append(upTo[n - 1], list[n]) ELSE upTo[n - 1]
  <2>1. \A n \in 1..Len(list) : n \in 0..Len(list) /\ n # 0
    BY <1>1
  <2>2. QED
    BY <1>10, <2>1
<1> DEFINE G == {n \in 0..Len(list) : upTo[n] \in Seq(HasLoad)}
<1>14. ASSUME NEW n \in 0..Len(list), upTo[n] \in Seq(HasLoad), n < Len(list)
       PROVE  upTo[n + 1] \in Seq(HasLoad)
  <2>1. n + 1 \in 1..Len(list) /\ (n + 1) - 1 = n
    BY <1>1, <1>14
  <2>2. upTo[n + 1] = IF list[n + 1] \in HasLoad THEN Append(upTo[n], list[n + 1]) ELSE upTo[n]
    BY <1>13, <2>1
  <2>3. QED
    BY <1>14, <2>2
<1>15. G = 0..Len(list)
  <2>1. G \in SUBSET (0..Len(list)) /\ 0 \in G
    <3>1. 0 \in 0..Len(list) /\ <<>> \in Seq(HasLoad)
      BY <1>1
    <3>2. QED
      BY <1>12, <3>1
  <2>2. \A n \in 0..Len(list) : n \in G /\ n < Len(list) => n + 1 \in G
    <3>1. \A n \in 0..Len(list) : n < Len(list) => n + 1 \in 0..Len(list)
      BY <1>1
    <3>2. QED
      BY <1>14, <3>1
  <2> HIDE DEF G
  <2>3. QED
    BY <1>1, <2>1, <2>2, PrefixInduction
<1>16. upTo \in [0..Len(list) -> Seq(HasLoad)]
  <2>1. \A n \in 0..Len(list) : upTo[n] \in Seq(HasLoad)
    BY <1>15
  <2>2. upTo = [n \in 0..Len(list) |-> upTo[n]]
    BY <1>10
  <2>3. QED
    BY <2>1, <2>2
<1>17. QED
    BY <1>11, <1>12, <1>13, <1>16

\* What add_class_to_loadable_list keeps of a schedule is in order as well.
LEMMA LoadableIsGood ==
    ASSUME NEW done, NEW list, GoodSchedule(list, done)
    PROVE  /\ Loadable(list) \in Seq(HasLoad)
           /\ GoodList(Loadable(list), done \cap HasLoad, Needs)
           /\ ToSet(Loadable(list)) = ToSet(list) \cap HasLoad
<1>1. list \in Seq(Classes) /\ Len(list) \in Nat /\ DOMAIN list = 1..Len(list)
    BY DEF GoodSchedule
<1>2. PICK f \in [0..Len(list) -> Seq(HasLoad)] :
              /\ Loadable(list) = f[Len(list)]
              /\ f[0] = <<>>
              /\ \A n \in 1..Len(list) :
                    f[n] = IF list[n] \in HasLoad THEN Append(f[n - 1], list[n]) ELSE f[n - 1]
    BY <1>1, LoadableRecurs
<1> DEFINE Good(n) ==
        /\ GoodList(f[n], done \cap HasLoad, Needs)
        /\ ToSet(f[n]) = {list[k] : k \in 1..n} \cap HasLoad
<1> DEFINE G == {n \in 0..Len(list) : Good(n)}
<1>3. Good(0)
  <2>1. GoodList(<<>>, done \cap HasLoad, Needs) /\ ToSet(<<>>) = {}
    BY EmptyList
  <2>2. {list[k] : k \in 1..0} = {}
    OBVIOUS
  <2>3. QED
    BY <1>2, <2>1, <2>2
<1>4. ASSUME NEW n \in 0..Len(list), Good(n), n < Len(list)
      PROVE  Good(n + 1)
  <2>1. n + 1 \in 1..Len(list) /\ (n + 1) - 1 = n /\ n \in 0..Len(list)
    BY <1>1, <1>4
  <2>2. {list[k] : k \in 1..n + 1} = {list[k] : k \in 1..n} \cup {list[n + 1]}
    <3>1. \A k : k \in 1..n + 1 <=> k \in 1..n \/ k = n + 1
      BY <1>1, <2>1
    <3>2. QED
      BY <3>1
  <2>3. CASE list[n + 1] \notin HasLoad
    <3>1. f[n + 1] = f[n]
      BY <1>2, <2>1, <2>3
    <3>2. QED
      BY <1>4, <2>2, <2>3, <3>1
  <2>4. CASE list[n + 1] \in HasLoad
    <3>1. f[n + 1] = Append(f[n], list[n + 1])
      BY <1>2, <2>1, <2>4
    <3>2. list[n + 1] \in Classes /\ list[n + 1] \in Methods
      BY <1>1, <2>1 DEF Methods
    <3>3. list[n + 1] \notin done
      BY <1>1, <2>1 DEF GoodSchedule, GoodList, ToSet
    <3>4. list[n + 1] \notin ToSet(f[n])
      <4>1. \A k \in 1..n : k \in 1..Len(list) /\ k # n + 1
        BY <1>1, <2>1
      <4>2. \A k \in 1..n : list[k] # list[n + 1]
        BY <1>1, <2>1, <4>1 DEF GoodSchedule, GoodList, IsInjective
      <4>3. QED
        BY <1>4, <4>2
    <3>5. Needs[list[n + 1]] \subseteq (done \cap HasLoad) \cup ToSet(f[n])
      <4>1. Needs[list[n + 1]] = Ancestors[list[n + 1]] \cap HasLoad
        BY <3>2 DEF Needs
      <4>2. Ancestors[list[n + 1]] \subseteq done \cup Before(list, n + 1)
        BY <1>1, <2>1 DEF GoodSchedule, GoodList
      <4>3. Before(list, n + 1) = {list[k] : k \in 1..n}
        BY <2>1 DEF Before
      <4>4. QED
        BY <1>4, <4>1, <4>2, <4>3
    <3>6. GoodList(f[n + 1], done \cap HasLoad, Needs)
      BY <1>4, <3>1, <3>2, <3>3, <3>4, <3>5, AppendList
    <3>7. ToSet(f[n + 1]) = ToSet(f[n]) \cup {list[n + 1]}
      <4>1. f[n] \in Seq(HasLoad)
        BY <1>2, <2>1
      <4>2. QED
        BY <3>1, <4>1, AppendSet
    <3>8. ToSet(f[n + 1]) = {list[k] : k \in 1..n + 1} \cap HasLoad
      BY <1>4, <2>2, <2>4, <3>7
    <3>9. QED
      BY <3>6, <3>8
  <2>5. QED
    BY <2>3, <2>4
<1>5. G = 0..Len(list)
  <2>1. G \in SUBSET (0..Len(list)) /\ 0 \in G
    BY <1>1, <1>3
  <2>2. \A n \in 0..Len(list) : n \in G /\ n < Len(list) => n + 1 \in G
    <3>1. \A n \in 0..Len(list) : n < Len(list) => n + 1 \in 0..Len(list)
      BY <1>1
    <3>2. QED
      BY <1>4, <3>1
  <2> HIDE DEF G
  <2>3. QED
    BY <1>1, <2>1, <2>2, PrefixInduction
<1>6. Len(list) \in 0..Len(list)
    BY <1>1
<1>7. Good(Len(list))
    BY <1>5, <1>6
<1>8. f[Len(list)] \in Seq(HasLoad)
    BY <1>2, <1>6
<1>9. ToSet(list) = {list[k] : k \in 1..Len(list)}
    BY <1>1 DEF ToSet
<1>10. QED
    BY <1>2, <1>7, <1>8, <1>9

-----------------------------------------------------------------------------
(* The inductive invariant.                                                *)

\* An activation in call_load_methods, and in a list of +load methods.
Working == {"loop", "classLoads", "categoryLoads"}
Calling == {"classLoads", "categoryLoads"}

\* An activation of load_images in thread t, while holder has loadMethodLock.
FrameOK(t, f, holder) ==
    /\ f.running # None => f.at \in Calling
    /\ f.at \notin Calling => f.detached = <<>>
    /\ f.at # "lock" => holder = t

\* Only the thread that holds loadMethodLock is past it, in at most two
\* activations: one in a +load method and one that this method announced.
StackOK(t) ==
    /\ Len(stack[t]) <= 2
    /\ \A k \in DOMAIN stack[t] : FrameOK(t, stack[t][k], lock)
    /\ Len(stack[t]) = 2 => stack[t][1].at \notin Working /\ stack[t][2].running # None

StacksOK == \A t \in Threads : StackOK(t)

LockOK ==
    IF lock = None THEN lockDepth = 0
    ELSE /\ stack[lock] # <<>>
         /\ lockDepth = IF stack[lock][1].at = "lock" THEN Len(stack[lock]) - 1
                        ELSE Len(stack[lock])
         /\ lockDepth > 0

LoadingOK ==
    /\ loading <=> \E t \in Threads : \E k \in DOMAIN stack[t] : stack[t][k].at \in Working
    /\ ~ loading => classes = <<>> /\ categories = <<>>

\* An image is announced once, and prepared by the thread it was announced to.
ImagesOK ==
    \A t \in Threads : \A k \in DOMAIN stack[t] :
        /\ stack[t][k].image \in announced
        /\ stack[t][k].at \in {"lock", "prepare"} => stack[t][k].image \notin prepared
        /\ \A u \in Threads : \A j \in DOMAIN stack[u] :
            stack[t][k].image = stack[u][j].image => t = u /\ k = j

\* The methods in detached lists.
Detached == UNION {UNION {ToSet(stack[t][k].detached) : k \in DOMAIN stack[t]} : t \in Threads}

\* The methods that were called or are detached to be called.
Taken == ToSet(called) \cup Detached

\* What is called, then what is detached, then loadable_classes and then
\* loadable_categories is one list in the right order, of all that was scheduled.
ListsOK ==
    /\ Closed(marked)
    /\ GoodList(called, {}, Needs)
    /\ \A t \in Threads : \A k \in DOMAIN stack[t] :
            GoodList(stack[t][k].detached, ToSet(called), Needs)
    /\ GoodList(classes, Taken, Needs)
    /\ GoodList(categories, Taken \cup ToSet(classes), Needs)

Complete ==
    /\ marked \cap HasLoad = (Taken \cup ToSet(classes)) \cap Classes
    /\ UNION {ToSet(NonlazyCategories[i]) : i \in prepared}
           = (Taken \cup ToSet(categories)) \cap Categories
    /\ \A i \in prepared : ToSet(NonlazyClasses[i]) \subseteq marked

IInv ==
    TypeOK /\ StacksOK /\ LockOK /\ LoadingOK /\ ImagesOK /\ ListsOK /\ Complete

-----------------------------------------------------------------------------
(* What the steps do to the stacks.                                        *)

LEMMA TopOfStack ==
    ASSUME TypeOK, NEW t \in Threads, stack[t] # <<>>
    PROVE  /\ stack[t] \in Seq(Frame) /\ Len(stack[t]) \in Nat \ {0}
           /\ 1 \in DOMAIN stack[t] /\ DOMAIN stack[t] = 1..Len(stack[t])
           /\ Top(t) = stack[t][1] /\ Top(t) \in Frame
BY DEF TypeOK, Top

\* Become changes the innermost activation and nothing else.
LEMMA Becoming ==
    ASSUME TypeOK, NEW t \in Threads, stack[t] # <<>>, NEW f \in Frame, Become(t, f)
    PROVE  /\ stack' \in [Threads -> Seq(Frame)]
           /\ Len(stack'[t]) = Len(stack[t])
           /\ stack'[t] # <<>>
           /\ \A u \in Threads : u # t => stack'[u] = stack[u]
           /\ \A u \in Threads : DOMAIN stack'[u] = DOMAIN stack[u]
           /\ \A u \in Threads : \A k \in DOMAIN stack[u] :
                stack'[u][k] = IF u = t /\ k = 1 THEN f ELSE stack[u][k]
<1>1. stack[t] \in Seq(Frame) /\ Len(stack[t]) \in Nat \ {0}
    BY TopOfStack
<1>2. PICK s : s = <<f>> \o Tail(stack[t])
    OBVIOUS
<1>3. /\ s \in Seq(Frame) /\ Len(s) = Len(stack[t]) /\ s # <<>> /\ s[1] = f
      /\ DOMAIN s = DOMAIN stack[t]
      /\ \A k \in DOMAIN stack[t] : k # 1 => s[k] = stack[t][k]
    BY <1>1, <1>2
<1>4. stack' = [stack EXCEPT ![t] = s]
    BY <1>2 DEF Become
<1>5. stack'[t] = s /\ \A u \in Threads : u # t => stack'[u] = stack[u]
    BY <1>4 DEF TypeOK
<1>6. stack' \in [Threads -> Seq(Frame)]
    BY <1>3, <1>4 DEF TypeOK
<1>7. QED
    BY <1>3, <1>5, <1>6

\* What Announce puts on a stack.
LEMMA Pushing ==
    ASSUME TypeOK, NEW t \in Threads, NEW f \in Frame,
           stack' = [stack EXCEPT ![t] = <<f>> \o @]
    PROVE  /\ stack' \in [Threads -> Seq(Frame)]
           /\ \A u \in Threads : u # t => stack'[u] = stack[u]
           /\ Len(stack[t]) \in Nat
           /\ DOMAIN stack[t] = 1..Len(stack[t])
           /\ Len(stack'[t]) = Len(stack[t]) + 1
           /\ DOMAIN stack'[t] = 1..Len(stack[t]) + 1
           /\ stack'[t][1] = f
           /\ \A k \in DOMAIN stack[t] : k + 1 \in DOMAIN stack'[t] /\ stack'[t][k + 1] = stack[t][k]
           /\ \A k \in DOMAIN stack'[t] :
                k # 1 => k - 1 \in DOMAIN stack[t] /\ stack'[t][k] = stack[t][k - 1]
<1>1. stack[t] \in Seq(Frame) /\ Len(stack[t]) \in Nat /\ DOMAIN stack[t] = 1..Len(stack[t])
    BY DEF TypeOK
<1>2. PICK s : s = <<f>> \o stack[t]
    OBVIOUS
<1>3. /\ s \in Seq(Frame) /\ Len(s) = Len(stack[t]) + 1 /\ s[1] = f
      /\ DOMAIN s = 1..Len(stack[t]) + 1
    BY <1>1, <1>2
<1>4. \A k \in DOMAIN s : k # 1 => k - 1 \in DOMAIN stack[t] /\ s[k] = stack[t][k - 1]
    BY <1>1, <1>2
<1>5. \A k \in DOMAIN stack[t] : k + 1 \in DOMAIN s /\ s[k + 1] = stack[t][k]
    BY <1>1, <1>2
<1>6. stack' = [stack EXCEPT ![t] = s]
    BY <1>2
<1>7. stack'[t] = s /\ \A u \in Threads : u # t => stack'[u] = stack[u]
    BY <1>6 DEF TypeOK
<1>8. stack' \in [Threads -> Seq(Frame)]
    BY <1>3, <1>6 DEF TypeOK
<1>9. QED
    BY <1>1, <1>3, <1>4, <1>5, <1>7, <1>8

\* What Unlock leaves of a stack.
LEMMA Popping ==
    ASSUME TypeOK, NEW t \in Threads, stack[t] # <<>>, stack' = [stack EXCEPT ![t] = Tail(@)]
    PROVE  /\ stack' \in [Threads -> Seq(Frame)]
           /\ \A u \in Threads : u # t => stack'[u] = stack[u]
           /\ Len(stack'[t]) = Len(stack[t]) - 1
           /\ DOMAIN stack'[t] = 1..Len(stack[t]) - 1
           /\ \A k \in DOMAIN stack'[t] : k + 1 \in DOMAIN stack[t] /\ stack'[t][k] = stack[t][k + 1]
           /\ \A k \in DOMAIN stack[t] :
                k # 1 => k - 1 \in DOMAIN stack'[t] /\ stack'[t][k - 1] = stack[t][k]
<1>1. stack[t] \in Seq(Frame) /\ Len(stack[t]) \in Nat \ {0} /\ DOMAIN stack[t] = 1..Len(stack[t])
    BY TopOfStack
<1>2. PICK s : s = Tail(stack[t])
    OBVIOUS
<1>3. /\ s \in Seq(Frame) /\ Len(s) = Len(stack[t]) - 1
      /\ DOMAIN s = 1..Len(stack[t]) - 1
      /\ \A k \in DOMAIN s : k + 1 \in DOMAIN stack[t] /\ s[k] = stack[t][k + 1]
    BY <1>1, <1>2
<1>4. \A k \in DOMAIN stack[t] : k # 1 => k - 1 \in DOMAIN s /\ s[k - 1] = stack[t][k]
    BY <1>1, <1>3
<1>5. stack' = [stack EXCEPT ![t] = s]
    BY <1>2
<1>6. stack'[t] = s /\ \A u \in Threads : u # t => stack'[u] = stack[u]
    BY <1>5 DEF TypeOK
<1>7. stack' \in [Threads -> Seq(Frame)]
    BY <1>3, <1>5 DEF TypeOK
<1>8. QED
    BY <1>3, <1>4, <1>6, <1>7

\* A thread in call_load_methods is in no other activation, and is alone there.
LEMMA Alone ==
    ASSUME TypeOK, StacksOK, NEW t \in Threads, stack[t] # <<>>, Top(t).at \in Working
    PROVE  /\ Len(stack[t]) = 1
           /\ lock = t
           /\ \A u \in Threads : \A k \in DOMAIN stack[u] :
                u # t \/ k # 1 => stack[u][k].at \notin Working /\ stack[u][k].detached = <<>>
<1>1. /\ stack[t] \in Seq(Frame) /\ Len(stack[t]) \in Nat \ {0} /\ DOMAIN stack[t] = 1..Len(stack[t])
      /\ 1 \in DOMAIN stack[t] /\ Top(t) = stack[t][1]
    BY TopOfStack
<1>2. StackOK(t)
    BY DEF StacksOK
<1>3. Len(stack[t]) = 1
  <2>1. PICK n \in Nat \ {0} : n = Len(stack[t])
    BY <1>1
  <2>2. n <= 2 /\ n # 2
    BY <1>1, <1>2, <2>1 DEF StackOK
  <2>3. n = 1
    BY <2>2
  <2>4. QED
    BY <2>1, <2>3
<1>4. lock = t
    BY <1>1, <1>2 DEF StackOK, FrameOK, Working
<1>5. ASSUME NEW u \in Threads, NEW k \in DOMAIN stack[u], u # t \/ k # 1
      PROVE  stack[u][k].at \notin Working /\ stack[u][k].detached = <<>>
  <2>1. u # t
    BY <1>1, <1>3, <1>5
  <2>2. FrameOK(u, stack[u][k], lock)
    BY DEF StacksOK, StackOK
  <2>3. stack[u][k].at = "lock"
    BY <1>4, <2>1, <2>2 DEF FrameOK
  <2>4. QED
    BY <2>2, <2>3 DEF FrameOK, Working, Calling
<1>6. QED
    BY <1>3, <1>4, <1>5

-----------------------------------------------------------------------------
(* The initial state and the steps.                                        *)

LEMMA InitIInv == Init => IInv
<1> SUFFICES ASSUME Init PROVE IInv
    OBVIOUS
<1> USE DEF Init
<1>1. TypeOK
  <2>1. \A S : <<>> \in Seq(S)
    OBVIOUS
  <2>2. stack \in [Threads -> Seq(Frame)]
    BY <2>1
  <2>3. QED
    BY <2>1, <2>2 DEF TypeOK
<1>2. \A t \in Threads : stack[t] = <<>> /\ DOMAIN stack[t] = {} /\ Len(stack[t]) = 0
    OBVIOUS
<1>3. StacksOK
    BY <1>2 DEF StacksOK, StackOK
<1>4. LockOK /\ LoadingOK /\ ImagesOK
    BY <1>2 DEF LockOK, LoadingOK, ImagesOK
<1>5. Detached = {}
    BY <1>2 DEF Detached
<1>6. ToSet(<<>>) = {}
    BY DEF ToSet
<1>7. ListsOK
    BY <1>2, EmptyList DEF ListsOK, Closed
<1>8. Complete
    BY <1>5, <1>6 DEF Complete, Taken
<1>9. QED
    BY <1>1, <1>3, <1>4, <1>7, <1>8 DEF IInv

\* What Prepare schedules.
LEMMA Scheduling ==
    ASSUME IInv, NEW i \in Images
    PROVE  /\ GoodSchedule(Scheduled(i), marked)
           /\ ToSet(NonlazyClasses[i]) \subseteq marked \cup ToSet(Scheduled(i))
           /\ ToSet(Scheduled(i)) \subseteq Classes
           /\ Loadable(Scheduled(i)) \in Seq(HasLoad)
           /\ GoodList(Loadable(Scheduled(i)), marked \cap HasLoad, Needs)
           /\ ToSet(Loadable(Scheduled(i))) = ToSet(Scheduled(i)) \cap HasLoad
<1>1. Closed(marked)
    BY DEF IInv, ListsOK
<1>2. /\ GoodSchedule(Scheduled(i), marked)
      /\ ToSet(NonlazyClasses[i]) \subseteq marked \cup ToSet(Scheduled(i))
    BY <1>1, ScheduledIsGood
<1>3. ToSet(Scheduled(i)) \subseteq Classes
  <2>1. Scheduled(i) \in Seq(Classes)
    BY <1>2 DEF GoodSchedule
  <2>2. QED
    BY <2>1 DEF ToSet
<1>4. QED
    BY <1>2, <1>3, LoadableIsGood

LEMMA NextTypeOK ==
    ASSUME IInv, [Next]_vars
    PROVE  TypeOK'
<1>a. TypeOK
    BY DEF IInv
<1>0. SUFFICES ASSUME Next PROVE TypeOK'
  <2>1. CASE UNCHANGED vars
    BY <1>a, <2>1 DEF TypeOK, vars
  <2>2. QED
    BY <2>1
<1>1. PICK t \in Threads : Runtime(t) \/ \E i \in Images : Announce(t, i)
    BY <1>0 DEF Next
<1>2. ASSUME NEW i \in Images, Announce(t, i)
      PROVE  TypeOK'
  <2>1. [image |-> i, at |-> "lock", detached |-> <<>>, running |-> None] \in Frame
    BY DEF Frame
  <2>2. stack' \in [Threads -> Seq(Frame)]
    BY <1>2, <1>a, <2>1, Pushing DEF Announce
  <2>3. QED
    BY <1>2, <1>a, <2>2 DEF Announce, TypeOK
<1> DEFINE T == Top(t)
<1>3. ASSUME stack[t] # <<>>
      PROVE  /\ T \in Frame
             /\ \A f \in Frame : Become(t, f) => stack' \in [Threads -> Seq(Frame)]
    BY <1>3, <1>a, TopOfStack, Becoming
<1>4. /\ \A w : At(t, w) => stack[t] # <<>>
      /\ InLoad(t) => stack[t] # <<>>
    BY DEF At, InLoad
<1>5. CASE Lock(t)
  <2>1. T \in Frame /\ Become(t, [T EXCEPT !.at = "prepare"])
    BY <1>3, <1>4, <1>5 DEF Lock
  <2>2. [T EXCEPT !.at = "prepare"] \in Frame
    BY <2>1 DEF Frame
  <2>3. stack' \in [Threads -> Seq(Frame)]
    BY <1>3, <1>4, <1>5, <2>1, <2>2 DEF Lock
  <2>4. QED
    BY <1>5, <1>a, <2>3 DEF Lock, TypeOK
<1>6. CASE Prepare(t)
  <2>1. T \in Frame /\ Become(t, [T EXCEPT !.at = IF Reentrant THEN "unlock" ELSE "loop"])
    BY <1>3, <1>4, <1>6 DEF Prepare
  <2>2. [T EXCEPT !.at = IF Reentrant THEN "unlock" ELSE "loop"] \in Frame
    BY <2>1 DEF Frame
  <2>3. stack' \in [Threads -> Seq(Frame)]
    BY <1>3, <1>4, <1>6, <2>1, <2>2 DEF Prepare
  <2>4. T.image \in Images /\ T.image \in announced
    <3>1. T = stack[t][1] /\ 1 \in DOMAIN stack[t]
      BY <1>4, <1>6, <1>a, TopOfStack DEF Prepare
    <3>2. QED
      BY <2>1, <3>1 DEF IInv, ImagesOK, Frame
  <2>5. /\ ToSet(Scheduled(T.image)) \subseteq Classes
        /\ Loadable(Scheduled(T.image)) \in Seq(HasLoad)
        /\ NonlazyCategories[T.image] \in Seq(Categories)
    BY <2>4, Scheduling, LoadMethodsAssumption DEF LoadMethodsAssumption
  <2>6. QED
    BY <1>6, <1>a, <2>3, <2>4, <2>5 DEF Prepare, TypeOK
<1>7. CASE DetachClasses(t)
  <2>1. T \in Frame /\ Become(t, [T EXCEPT !.at = "classLoads", !.detached = classes])
    BY <1>3, <1>4, <1>7 DEF DetachClasses
  <2>2. classes \in Seq(Methods)
    BY <1>a, LoadMethodsAssumption DEF TypeOK, Methods, LoadMethodsAssumption
  <2>3. [T EXCEPT !.at = "classLoads", !.detached = classes] \in Frame
    BY <2>1, <2>2 DEF Frame
  <2>4. stack' \in [Threads -> Seq(Frame)]
    BY <1>3, <1>4, <1>7, <2>1, <2>3 DEF DetachClasses
  <2>5. QED
    BY <1>7, <1>a, <2>4 DEF DetachClasses, TypeOK
<1>8. CASE DetachCategories(t)
  <2>1. T \in Frame /\ Become(t, [T EXCEPT !.at = "categoryLoads", !.detached = categories])
    BY <1>3, <1>4, <1>8 DEF DetachCategories
  <2>2. categories \in Seq(Methods)
    BY <1>a DEF TypeOK, Methods
  <2>3. [T EXCEPT !.at = "categoryLoads", !.detached = categories] \in Frame
    BY <2>1, <2>2 DEF Frame
  <2>4. stack' \in [Threads -> Seq(Frame)]
    BY <1>3, <1>4, <1>8, <2>1, <2>3 DEF DetachCategories
  <2>5. QED
    BY <1>8, <1>a, <2>4 DEF DetachCategories, TypeOK
<1>9. CASE CallLoad(t)
  <2>1. /\ T \in Frame /\ T.detached # <<>>
        /\ Become(t, [T EXCEPT !.running = Head(T.detached), !.detached = Tail(T.detached)])
    BY <1>3, <1>4, <1>9 DEF CallLoad
  <2>2. Head(T.detached) \in Methods /\ Tail(T.detached) \in Seq(Methods)
    BY <2>1 DEF Frame
  <2>3. [T EXCEPT !.running = Head(T.detached), !.detached = Tail(T.detached)] \in Frame
    BY <2>1, <2>2 DEF Frame
  <2>4. stack' \in [Threads -> Seq(Frame)]
    BY <1>3, <1>4, <1>9, <2>1, <2>3 DEF CallLoad
  <2>5. called' \in Seq(Methods)
    BY <1>9, <1>a, <2>2 DEF CallLoad, TypeOK
  <2>6. QED
    BY <1>9, <1>a, <2>4, <2>5 DEF CallLoad, TypeOK
<1>10. CASE LoadReturns(t)
  <2>1. T \in Frame /\ Become(t, [T EXCEPT !.running = None])
    BY <1>3, <1>4, <1>10 DEF LoadReturns
  <2>2. [T EXCEPT !.running = None] \in Frame
    BY <2>1 DEF Frame
  <2>3. stack' \in [Threads -> Seq(Frame)]
    BY <1>3, <1>4, <1>10, <2>1, <2>2 DEF LoadReturns
  <2>4. QED
    BY <1>10, <1>a, <2>3 DEF LoadReturns, TypeOK
<1>11. CASE EndClasses(t)
  <2>1. T \in Frame /\ Become(t, [T EXCEPT !.at = "loop"])
    BY <1>3, <1>4, <1>11 DEF EndClasses
  <2>2. [T EXCEPT !.at = "loop"] \in Frame
    BY <2>1 DEF Frame
  <2>3. stack' \in [Threads -> Seq(Frame)]
    BY <1>3, <1>4, <1>11, <2>1, <2>2 DEF EndClasses
  <2>4. QED
    BY <1>11, <1>a, <2>3 DEF EndClasses, TypeOK
<1>12. CASE EndCategories(t)
  <2>1. T \in Frame /\ Become(t, [T EXCEPT !.at = IF MoreToLoad THEN "loop" ELSE "unlock"])
    BY <1>3, <1>4, <1>12 DEF EndCategories
  <2>2. [T EXCEPT !.at = IF MoreToLoad THEN "loop" ELSE "unlock"] \in Frame
    BY <2>1 DEF Frame
  <2>3. stack' \in [Threads -> Seq(Frame)]
    BY <1>3, <1>4, <1>12, <2>1, <2>2 DEF EndCategories
  <2>4. QED
    BY <1>12, <1>a, <2>3 DEF EndCategories, MoreToLoad, TypeOK
<1>13. CASE Unlock(t)
  <2>1. stack' \in [Threads -> Seq(Frame)]
    BY <1>4, <1>13, <1>a, Popping DEF Unlock
  <2>2. lockDepth > 0
    <3>1. T = stack[t][1] /\ 1 \in DOMAIN stack[t] /\ T.at = "unlock"
      BY <1>4, <1>13, <1>a, TopOfStack DEF Unlock, At
    <3>2. lock = t
      BY <3>1 DEF IInv, StacksOK, StackOK, FrameOK
    <3>3. QED
      BY <3>2, LoadMethodsAssumption DEF IInv, LockOK, LoadMethodsAssumption
  <2>3. lockDepth' \in Nat
    BY <1>13, <1>a, <2>2 DEF Unlock, TypeOK
  <2>4. QED
    BY <1>13, <1>a, <2>1, <2>3 DEF Unlock, HolderAfter, TypeOK
<1>14. QED
    BY <1>1, <1>2, <1>5, <1>6, <1>7, <1>8, <1>9, <1>10, <1>11, <1>12, <1>13 DEF Runtime

\* What every step but Announce and Unlock does to the stack, to the lock and
\* to the flag, when t's innermost activation becomes f.
Turns(t, f) ==
    /\ stack[t] # <<>> /\ f \in Frame /\ Become(t, f)
    /\ f.image = Top(t).image /\ f.at # "lock"
    /\ f.at = "prepare" => Top(t).at = "lock"
    /\ f.at \in Working => Top(t).at \in Working \/ ~ loading
    /\ FrameOK(t, f, t)
    /\ lock \in {None, t} /\ lock' = t
    /\ lockDepth' = IF Top(t).at = "lock" THEN lockDepth + 1 ELSE lockDepth
    /\ loading' <=> f.at \in Working \/ (Top(t).at \notin Working /\ loading)
    /\ ~ loading' => classes' = <<>> /\ categories' = <<>>
    /\ prepared' = IF Top(t).at = "prepare" THEN prepared \cup {f.image} ELSE prepared
    /\ announced' = announced

LEMMA RuntimeTurns ==
    ASSUME IInv, NEW t \in Threads, Runtime(t)
    PROVE  Unlock(t) \/ \E f : Turns(t, f)
<1>a. TypeOK /\ StacksOK /\ LoadingOK
    BY DEF IInv
<1> DEFINE T == Top(t)
<1>b. stack[t] # <<>>
    BY DEF Runtime, Lock, Prepare, DetachClasses, DetachCategories, CallLoad, LoadReturns,
           EndClasses, EndCategories, Unlock, At, InLoad
<1>c. /\ T \in Frame /\ T = stack[t][1] /\ 1 \in DOMAIN stack[t] /\ stack[t] \in Seq(Frame)
    BY <1>a, <1>b, TopOfStack
<1>d. FrameOK(t, T, lock)
    BY <1>a, <1>c DEF StacksOK, StackOK
<1>e. T.at # "lock" => lock = t
    BY <1>d DEF FrameOK
<1>f. T.at \in Working => loading
    BY <1>a, <1>c DEF LoadingOK
<1>g. ~ loading => classes = <<>> /\ categories = <<>>
    BY <1>a DEF LoadingOK
<1>1. CASE Lock(t)
  <2>1. PICK f : f = [T EXCEPT !.at = "prepare"]
    OBVIOUS
  <2>2. T.at = "lock" /\ T.running = None /\ T.detached = <<>>
    BY <1>1, <1>d DEF Lock, At, FrameOK, Calling
  <2>3. /\ f \in Frame /\ f.at = "prepare" /\ f.image = T.image /\ f.running = None
        /\ f.detached = <<>>
    BY <1>c, <2>1, <2>2 DEF Frame
  <2>4. FrameOK(t, f, t)
    BY <2>3 DEF FrameOK
  <2>5. Turns(t, f)
    BY <1>1, <1>b, <1>g, <2>1, <2>2, <2>3, <2>4 DEF Turns, Lock, Working
  <2>6. QED
    BY <2>5
<1>2. CASE Prepare(t)
  <2>1. PICK f : f = [T EXCEPT !.at = IF Reentrant THEN "unlock" ELSE "loop"]
    OBVIOUS
  <2>2. T.at = "prepare" /\ T.running = None /\ T.detached = <<>>
    BY <1>2, <1>d DEF Prepare, At, FrameOK, Calling
  <2>3. /\ f \in Frame /\ f.at = IF loading THEN "unlock" ELSE "loop"
        /\ f.image = T.image /\ f.running = None /\ f.detached = <<>>
    BY <1>c, <2>1, <2>2 DEF Frame, Reentrant
  <2>4. FrameOK(t, f, t)
    BY <2>3 DEF FrameOK
  <2>5. Turns(t, f)
    BY <1>2, <1>b, <1>e, <2>1, <2>2, <2>3, <2>4 DEF Turns, Prepare, Working
  <2>6. QED
    BY <2>5
<1>3. CASE DetachClasses(t)
  <2>1. PICK f : f = [T EXCEPT !.at = "classLoads", !.detached = classes]
    OBVIOUS
  <2>2. T.at = "loop" /\ T.running = None /\ classes \in Seq(Methods)
    BY <1>3, <1>a, LoadMethodsAssumption
    DEF DetachClasses, At, TypeOK, Methods, LoadMethodsAssumption
  <2>3. f \in Frame /\ f.at = "classLoads" /\ f.image = T.image /\ f.running = None
    BY <1>c, <2>1, <2>2 DEF Frame
  <2>4. FrameOK(t, f, t)
    BY <2>3 DEF FrameOK, Calling
  <2>5. Turns(t, f)
    BY <1>3, <1>b, <1>e, <1>f, <2>1, <2>2, <2>3, <2>4 DEF Turns, DetachClasses, Working
  <2>6. QED
    BY <2>5
<1>4. CASE DetachCategories(t)
  <2>1. PICK f : f = [T EXCEPT !.at = "categoryLoads", !.detached = categories]
    OBVIOUS
  <2>2. T.at = "loop" /\ T.running = None /\ categories \in Seq(Methods)
    BY <1>4, <1>a DEF DetachCategories, At, TypeOK, Methods
  <2>3. f \in Frame /\ f.at = "categoryLoads" /\ f.image = T.image /\ f.running = None
    BY <1>c, <2>1, <2>2 DEF Frame
  <2>4. FrameOK(t, f, t)
    BY <2>3 DEF FrameOK, Calling
  <2>5. Turns(t, f)
    BY <1>4, <1>b, <1>e, <1>f, <2>1, <2>2, <2>3, <2>4 DEF Turns, DetachCategories, Working
  <2>6. QED
    BY <2>5
<1>5. CASE CallLoad(t)
  <2>1. PICK f : f = [T EXCEPT !.running = Head(T.detached), !.detached = Tail(T.detached)]
    OBVIOUS
  <2>2. T.at \in Calling /\ T.detached # <<>>
    BY <1>5 DEF CallLoad, At, Calling
  <2>3. Head(T.detached) \in Methods /\ Tail(T.detached) \in Seq(Methods)
    BY <1>c, <2>2 DEF Frame
  <2>4. f \in Frame /\ f.at = T.at /\ f.image = T.image
    BY <1>c, <2>1, <2>3 DEF Frame
  <2>5. Become(t, f)
    BY <1>5, <2>1 DEF CallLoad
  <2>6. FrameOK(t, f, t) /\ f.at \in Working /\ f.at \notin {"lock", "prepare"}
    BY <2>2, <2>4 DEF FrameOK, Calling, Working
  <2>7. Turns(t, f)
    BY <1>5, <1>b, <1>e, <1>f, <2>4, <2>5, <2>6 DEF Turns, CallLoad
  <2>8. QED
    BY <2>7
<1>6. CASE LoadReturns(t)
  <2>1. PICK f : f = [T EXCEPT !.running = None]
    OBVIOUS
  <2>2. T.at \in Calling
    BY <1>6, <1>d DEF LoadReturns, InLoad, FrameOK
  <2>3. f \in Frame /\ f.at = T.at /\ f.image = T.image
    BY <1>c, <2>1 DEF Frame
  <2>4. FrameOK(t, f, t) /\ f.at \in Working /\ f.at \notin {"lock", "prepare"}
    BY <2>2, <2>3 DEF FrameOK, Calling, Working
  <2>5. Turns(t, f)
    BY <1>6, <1>b, <1>e, <1>f, <2>1, <2>3, <2>4 DEF Turns, LoadReturns
  <2>6. QED
    BY <2>5
<1>7. CASE EndClasses(t)
  <2>1. PICK f : f = [T EXCEPT !.at = "loop"]
    OBVIOUS
  <2>2. T.at = "classLoads" /\ T.running = None /\ T.detached = <<>>
    BY <1>7 DEF EndClasses, At
  <2>3. /\ f \in Frame /\ f.at = "loop" /\ f.image = T.image /\ f.running = None
        /\ f.detached = <<>>
    BY <1>c, <2>1, <2>2 DEF Frame
  <2>4. FrameOK(t, f, t)
    BY <2>3 DEF FrameOK
  <2>5. Turns(t, f)
    BY <1>7, <1>b, <1>e, <1>f, <2>1, <2>2, <2>3, <2>4 DEF Turns, EndClasses, Working
  <2>6. QED
    BY <2>5
<1>8. CASE EndCategories(t)
  <2>1. PICK f : f = [T EXCEPT !.at = IF MoreToLoad THEN "loop" ELSE "unlock"]
    OBVIOUS
  <2>2. T.at = "categoryLoads" /\ T.running = None /\ T.detached = <<>>
    BY <1>8 DEF EndCategories, At
  <2>3. /\ f \in Frame /\ f.at = IF MoreToLoad THEN "loop" ELSE "unlock"
        /\ f.image = T.image /\ f.running = None /\ f.detached = <<>>
    BY <1>c, <2>1, <2>2 DEF Frame
  <2>4. FrameOK(t, f, t)
    BY <2>3 DEF FrameOK
  <2>5. /\ loading' = MoreToLoad
        /\ ~ MoreToLoad => classes' = <<>> /\ categories' = <<>>
    BY <1>8 DEF EndCategories, MoreToLoad
  <2>6. Turns(t, f)
    BY <1>8, <1>b, <1>e, <1>f, <2>1, <2>2, <2>3, <2>4, <2>5 DEF Turns, EndCategories, Working
  <2>7. QED
    BY <2>6
<1>9. QED
    BY <1>1, <1>2, <1>3, <1>4, <1>5, <1>6, <1>7, <1>8 DEF Runtime

\* The control part of the invariant is kept by such a step.
LEMMA TurnsKeep ==
    ASSUME IInv, NEW t \in Threads, NEW f, Turns(t, f)
    PROVE  StacksOK' /\ LockOK' /\ LoadingOK' /\ ImagesOK'
<1>a. TypeOK /\ StacksOK /\ LockOK /\ LoadingOK /\ ImagesOK
    BY DEF IInv
<1>b. /\ stack[t] \in Seq(Frame) /\ Len(stack[t]) \in Nat \ {0} /\ 1 \in DOMAIN stack[t]
      /\ DOMAIN stack[t] = 1..Len(stack[t]) /\ Top(t) = stack[t][1] /\ Top(t) \in Frame
    BY <1>a, TopOfStack DEF Turns
<1>c. /\ stack' \in [Threads -> Seq(Frame)]
      /\ Len(stack'[t]) = Len(stack[t])
      /\ stack'[t] # <<>>
      /\ \A u \in Threads : u # t => stack'[u] = stack[u]
      /\ \A u \in Threads : DOMAIN stack'[u] = DOMAIN stack[u]
      /\ \A u \in Threads : \A k \in DOMAIN stack[u] :
            stack'[u][k] = IF u = t /\ k = 1 THEN f ELSE stack[u][k]
    BY <1>a, Becoming DEF Turns
<1>d. t # None
    BY LoadMethodsAssumption DEF LoadMethodsAssumption
<1>1. ASSUME NEW u \in Threads, NEW k \in DOMAIN stack[u]
      PROVE  FrameOK(u, stack'[u][k], lock')
  <2>1. CASE u = t /\ k = 1
    BY <1>c, <2>1 DEF Turns
  <2>2. CASE ~ (u = t /\ k = 1)
    <3>1. FrameOK(u, stack[u][k], lock) /\ stack'[u][k] = stack[u][k]
      BY <1>a, <1>c, <2>2 DEF StacksOK, StackOK
    <3>2. lock = u => lock' = u
      BY LoadMethodsAssumption DEF LoadMethodsAssumption, Turns
    <3>3. QED
      BY <3>1, <3>2 DEF FrameOK
  <2>3. QED
    BY <2>1, <2>2
<1>2. ASSUME NEW u \in Threads, Len(stack'[u]) = 2
      PROVE  stack'[u][1].at \notin Working /\ stack'[u][2].running # None
  <2>1. StackOK(u) /\ StackOK(t)
    BY <1>a DEF StacksOK
  <2>2. CASE u # t
    BY <1>2, <1>c, <2>1, <2>2 DEF StackOK
  <2>3. CASE u = t
    <3>1. 2 \in DOMAIN stack[t] /\ Len(stack[t]) = 2
      <4>1. Len(stack[t]) = 2
        BY <1>2, <1>c, <2>3
      <4>2. DOMAIN stack[t] = 1..2
        BY <1>b, <4>1
      <4>3. QED
        BY <4>1, <4>2
    <3>2. stack[t][2].running # None /\ Top(t).at \notin Working
      BY <1>b, <2>1, <3>1 DEF StackOK
    <3>3. stack'[t][2] = stack[t][2] /\ stack'[t][1] = f
      BY <1>b, <1>c, <3>1
    <3>4. stack[t][2].at \in Working
      BY <2>1, <3>1, <3>2 DEF StackOK, FrameOK, Calling, Working
    <3>5. loading
      BY <1>a, <3>1, <3>4 DEF LoadingOK
    <3>6. f.at \notin Working
      BY <3>2, <3>5 DEF Turns
    <3>7. QED
      BY <2>3, <3>2, <3>3, <3>6
  <2>4. QED
    BY <2>2, <2>3
<1>3. StacksOK'
  <2>1. ASSUME NEW u \in Threads
        PROVE  StackOK(u)'
    <3>1. Len(stack'[u]) <= 2
      BY <1>a, <1>c DEF StacksOK, StackOK
    <3>2. \A k \in DOMAIN stack'[u] : FrameOK(u, stack'[u][k], lock')
      BY <1>1, <1>c
    <3>3. QED
      BY <1>2, <3>1, <3>2 DEF StackOK, FrameOK
  <2>2. QED
    BY <2>1 DEF StacksOK
<1>4. LockOK'
  <2>1. stack'[t][1] = f /\ f.at # "lock" /\ lock' = t
    BY <1>b, <1>c DEF Turns
  <2>2. lockDepth' = Len(stack[t])
    <3>1. CASE lock = t
      BY <1>a, <1>b, <1>d, <3>1 DEF LockOK, Turns
    <3>2. CASE lock = None
      <4>1. StackOK(t)
        BY <1>a DEF StacksOK
      <4>2. \A k \in DOMAIN stack[t] : stack[t][k].at = "lock" /\ stack[t][k].running = None
        BY <1>d, <3>2, <4>1 DEF StackOK, FrameOK, Calling
      <4>3. lockDepth' = 1
        BY <1>a, <1>b, <3>2, <4>2 DEF LockOK, Turns
      <4>4. PICK n \in Nat \ {0} : n = Len(stack[t])
        BY <1>b
      <4>5. n <= 2 /\ n # 2
        <5>1. n = 2 => 2 \in DOMAIN stack[t]
          BY <1>b, <4>4
        <5>2. QED
          BY <4>1, <4>2, <4>4, <5>1 DEF StackOK
      <4>6. n = 1
        BY <4>5
      <4>7. QED
        BY <4>3, <4>4, <4>6
    <3>3. QED
      BY <3>1, <3>2 DEF Turns
  <2>3. QED
    BY <1>b, <1>c, <1>d, <2>1, <2>2 DEF LockOK
<1>5. LoadingOK'
  <2>1. loading' => \E u \in Threads : \E k \in DOMAIN stack'[u] : stack'[u][k].at \in Working
    <3>1. CASE f.at \in Working
      BY <1>b, <1>c, <3>1
    <3>2. CASE Top(t).at \notin Working /\ loading
      <4>0. PICK u \in Threads : \E k \in DOMAIN stack[u] : stack[u][k].at \in Working
        BY <1>a, <3>2 DEF LoadingOK
      <4>1. PICK k \in DOMAIN stack[u] : stack[u][k].at \in Working
        BY <4>0
      <4>2. ~ (u = t /\ k = 1)
        BY <1>b, <3>2, <4>1
      <4>3. QED
        BY <1>c, <4>1, <4>2
    <3>3. QED
      BY <3>1, <3>2 DEF Turns
  <2>2. ASSUME NEW u \in Threads, NEW k \in DOMAIN stack'[u], stack'[u][k].at \in Working
        PROVE  loading'
    <3>1. CASE u = t /\ k = 1
      BY <1>b, <1>c, <2>2, <3>1 DEF Turns
    <3>2. CASE ~ (u = t /\ k = 1)
      <4>1. k \in DOMAIN stack[u] /\ stack[u][k].at \in Working
        BY <1>c, <2>2, <3>2
      <4>2. loading
        BY <1>a, <4>1 DEF LoadingOK
      <4>3. Top(t).at \notin Working
        BY <1>a, <3>2, <4>1, Alone DEF Turns
      <4>4. QED
        BY <4>2, <4>3 DEF Turns
    <3>3. QED
      BY <3>1, <3>2
  <2>3. ~ loading' => classes' = <<>> /\ categories' = <<>>
    BY DEF Turns
  <2>4. QED
    BY <2>1, <2>2, <2>3 DEF LoadingOK
<1>6. ImagesOK'
  <2>1. \A u \in Threads : \A k \in DOMAIN stack[u] : stack'[u][k].image = stack[u][k].image
    BY <1>b, <1>c DEF Turns
  <2>2. ASSUME NEW u \in Threads, NEW k \in DOMAIN stack[u],
               stack'[u][k].at \in {"lock", "prepare"}
        PROVE  stack'[u][k].image \notin prepared'
    <3>1. CASE u = t /\ k = 1
      <4>1. f.at = "prepare" /\ Top(t).at = "lock" /\ stack'[u][k] = f
        BY <1>b, <1>c, <2>2, <3>1 DEF Turns
      <4>2. Top(t).image \notin prepared
        BY <1>a, <1>b, <4>1 DEF ImagesOK
      <4>3. QED
        BY <4>1, <4>2 DEF Turns
    <3>2. CASE ~ (u = t /\ k = 1)
      <4>1. stack[u][k].image \notin prepared
        BY <1>a, <1>c, <2>2, <3>2 DEF ImagesOK
      <4>2. stack[u][k].image # f.image
        BY <1>a, <1>b, <3>2 DEF ImagesOK, Turns
      <4>3. QED
        BY <2>1, <4>1, <4>2 DEF Turns
    <3>3. QED
      BY <3>1, <3>2
  <2>3. \A u \in Threads : \A k \in DOMAIN stack'[u] :
            /\ k \in DOMAIN stack[u]
            /\ stack'[u][k].image \in announced'
    BY <1>a, <1>c, <2>1 DEF ImagesOK, Turns
  <2>4. ASSUME NEW u \in Threads, NEW k \in DOMAIN stack[u],
               NEW v \in Threads, NEW j \in DOMAIN stack[v],
               stack'[u][k].image = stack'[v][j].image
        PROVE  u = v /\ k = j
    BY <1>a, <2>1, <2>4 DEF ImagesOK
  <2>5. QED
    BY <2>2, <2>3, <2>4 DEF ImagesOK
<1>7. QED
    BY <1>3, <1>4, <1>5, <1>6

LEMMA AnnounceKeeps ==
    ASSUME IInv, NEW t \in Threads, NEW i \in Images, Announce(t, i)
    PROVE  StacksOK' /\ LockOK' /\ LoadingOK' /\ ImagesOK'
<1>a. TypeOK /\ StacksOK /\ LockOK /\ LoadingOK /\ ImagesOK
    BY DEF IInv
<1>b. PICK f : f = [image |-> i, at |-> "lock", detached |-> <<>>, running |-> None]
    OBVIOUS
<1>c. /\ f \in Frame /\ f.image = i /\ f.at = "lock" /\ f.detached = <<>> /\ f.running = None
      /\ stack' = [stack EXCEPT ![t] = <<f>> \o @]
    BY <1>b DEF Announce, Frame
<1>d. /\ stack' \in [Threads -> Seq(Frame)]
      /\ \A u \in Threads : u # t => stack'[u] = stack[u]
      /\ Len(stack[t]) \in Nat
      /\ DOMAIN stack[t] = 1..Len(stack[t])
      /\ Len(stack'[t]) = Len(stack[t]) + 1
      /\ DOMAIN stack'[t] = 1..Len(stack[t]) + 1
      /\ stack'[t][1] = f
      /\ \A k \in DOMAIN stack[t] : k + 1 \in DOMAIN stack'[t] /\ stack'[t][k + 1] = stack[t][k]
      /\ \A k \in DOMAIN stack'[t] :
            k # 1 => k - 1 \in DOMAIN stack[t] /\ stack'[t][k] = stack[t][k - 1]
    BY <1>a, <1>c, Pushing
<1>e. /\ UNCHANGED <<prepared, classes, categories, loading, lock, lockDepth>>
      /\ i \notin announced /\ announced' = announced \cup {i}
    BY DEF Announce
\* t is in no announcement, or in a +load method and holds the lock.
<1>f. \/ stack[t] = <<>> /\ Len(stack[t]) = 0
      \/ /\ stack[t] # <<>> /\ Len(stack[t]) = 1 /\ lock = t
         /\ stack[t][1].running # None /\ stack[t][1].at \in Working
  <2>1. CASE stack[t] = <<>>
    BY <2>1
  <2>2. CASE stack[t] # <<>> /\ InLoad(t)
    <3>1. Top(t) = stack[t][1] /\ 1 \in DOMAIN stack[t]
      BY <1>a, <2>2, TopOfStack
    <3>2. Top(t).running # None
      BY <2>2 DEF InLoad
    <3>3. Top(t).at \in Working
      BY <1>a, <3>1, <3>2 DEF StacksOK, StackOK, FrameOK, Working, Calling
    <3>4. QED
      BY <1>a, <2>2, <3>1, <3>2, <3>3, Alone
  <2>3. QED
    BY <2>1, <2>2 DEF Announce, InLoad
<1>g. t # None
    BY LoadMethodsAssumption DEF LoadMethodsAssumption
<1>h. ASSUME NEW u \in Threads, NEW k \in DOMAIN stack'[u], ~ (u = t /\ k = 1)
      PROVE  \E j \in DOMAIN stack[u] : /\ stack'[u][k] = stack[u][j]
                                        /\ j = IF u = t THEN k - 1 ELSE k
    BY <1>d, <1>h
<1>1. StacksOK'
  <2>1. ASSUME NEW u \in Threads, NEW k \in DOMAIN stack'[u]
        PROVE  FrameOK(u, stack'[u][k], lock)
    <3>1. CASE u = t /\ k = 1
      BY <1>c, <1>d, <3>1 DEF FrameOK, Calling
    <3>2. CASE ~ (u = t /\ k = 1)
      <4>1. PICK j \in DOMAIN stack[u] : stack'[u][k] = stack[u][j]
        BY <1>h, <3>2
      <4>2. FrameOK(u, stack[u][j], lock)
        BY <1>a DEF StacksOK, StackOK
      <4>3. QED
        BY <4>1, <4>2
    <3>3. QED
      BY <3>1, <3>2
  <2>2. ASSUME NEW u \in Threads
        PROVE  /\ Len(stack'[u]) <= 2
               /\ Len(stack'[u]) = 2 =>
                    stack'[u][1].at \notin Working /\ stack'[u][2].running # None
    <3>1. CASE u # t
      BY <1>a, <1>d, <3>1 DEF StacksOK, StackOK
    <3>2. CASE u = t /\ Len(stack[t]) = 0
      <4>1. Len(stack'[t]) = 1
        BY <1>d, <3>2
      <4>2. QED
        BY <3>2, <4>1
    <3>3. CASE u = t /\ Len(stack[t]) = 1 /\ stack[t][1].running # None
      <4>1. Len(stack'[t]) = 2 /\ 1 \in DOMAIN stack[t]
        BY <1>d, <3>3
      <4>2. stack'[t][2] = stack[t][1]
        <5>1. stack'[t][1 + 1] = stack[t][1]
          BY <1>d, <4>1
        <5>2. QED
          BY <5>1
      <4>3. stack'[t][1].at \notin Working
        BY <1>c, <1>d DEF Working
      <4>4. QED
        BY <3>3, <4>1, <4>2, <4>3
    <3>4. QED
      BY <1>f, <3>1, <3>2, <3>3
  <2>3. ASSUME NEW u \in Threads
        PROVE  StackOK(u)'
    BY <1>e, <2>1, <2>2 DEF StackOK, FrameOK
  <2>4. QED
    BY <2>3 DEF StacksOK
<1>2. LockOK'
  <2>1. CASE lock # t
    <3>1. lock # None => lock \in Threads /\ stack'[lock] = stack[lock]
      BY <1>a, <1>d, <2>1 DEF TypeOK
    <3>2. QED
      BY <1>a, <1>e, <3>1 DEF LockOK
  <2>2. CASE lock = t
    <3>1. Len(stack[t]) = 1 /\ stack[t][1].at # "lock"
      BY <1>a, <1>f, <1>g, <2>2 DEF LockOK, Working
    <3>2. lockDepth = 1
      BY <1>a, <1>g, <2>2, <3>1 DEF LockOK
    <3>3. Len(stack'[t]) = 2 /\ stack'[t] # <<>>
      <4>1. Len(stack'[t]) = 2
        BY <1>d, <3>1
      <4>2. QED
        BY <4>1
    <3>4. QED
      BY <1>c, <1>d, <1>e, <1>g, <2>2, <3>2, <3>3 DEF LockOK
  <2>3. QED
    BY <2>1, <2>2
<1>3. LoadingOK'
  <2>1. ASSUME NEW u \in Threads, NEW k \in DOMAIN stack'[u], stack'[u][k].at \in Working
        PROVE  loading
    <3>1. ~ (u = t /\ k = 1)
      BY <1>c, <1>d, <2>1 DEF Working
    <3>2. PICK j \in DOMAIN stack[u] : stack'[u][k] = stack[u][j]
      BY <1>h, <3>1
    <3>3. QED
      BY <1>a, <2>1, <3>2 DEF LoadingOK
  <2>2. ASSUME loading
        PROVE  \E u \in Threads : \E k \in DOMAIN stack'[u] : stack'[u][k].at \in Working
    <3>1. PICK u \in Threads : \E k \in DOMAIN stack[u] : stack[u][k].at \in Working
      BY <1>a, <2>2 DEF LoadingOK
    <3>2. PICK k \in DOMAIN stack[u] : stack[u][k].at \in Working
      BY <3>1
    <3>3. \E j \in DOMAIN stack'[u] : stack'[u][j] = stack[u][k]
      <4>1. CASE u = t
        BY <1>d, <4>1
      <4>2. CASE u # t
        BY <1>d, <4>2
      <4>3. QED
        BY <4>1, <4>2
    <3>4. QED
      BY <3>2, <3>3
  <2>3. QED
    BY <1>a, <1>e, <2>1, <2>2 DEF LoadingOK
<1>4. ImagesOK'
  <2>1. ASSUME NEW u \in Threads, NEW k \in DOMAIN stack'[u], ~ (u = t /\ k = 1)
        PROVE  stack'[u][k].image \in announced
    BY <1>a, <1>h, <2>1 DEF ImagesOK
  <2>2. ASSUME NEW u \in Threads, NEW k \in DOMAIN stack'[u],
               stack'[u][k].at \in {"lock", "prepare"}
        PROVE  stack'[u][k].image \notin prepared
    <3>1. CASE u = t /\ k = 1
      BY <1>a, <1>c, <1>d, <1>e, <3>1 DEF TypeOK
    <3>2. CASE ~ (u = t /\ k = 1)
      BY <1>a, <1>h, <2>2, <3>2 DEF ImagesOK
    <3>3. QED
      BY <3>1, <3>2
  <2>3. ASSUME NEW u \in Threads, NEW k \in DOMAIN stack'[u],
               NEW v \in Threads, NEW j \in DOMAIN stack'[v],
               stack'[u][k].image = stack'[v][j].image
        PROVE  u = v /\ k = j
    <3>1. CASE (u = t /\ k = 1) \/ (v = t /\ j = 1)
      BY <1>c, <1>d, <1>e, <2>1, <2>3, <3>1
    <3>2. CASE ~ (u = t /\ k = 1) /\ ~ (v = t /\ j = 1)
      <4>1. PICK k1 \in DOMAIN stack[u] : /\ stack'[u][k] = stack[u][k1]
                                          /\ k1 = IF u = t THEN k - 1 ELSE k
        BY <1>h, <3>2
      <4>2. PICK j1 \in DOMAIN stack[v] : /\ stack'[v][j] = stack[v][j1]
                                          /\ j1 = IF v = t THEN j - 1 ELSE j
        BY <1>h, <3>2
      <4>3. u = v /\ k1 = j1
        BY <1>a, <2>3, <4>1, <4>2 DEF ImagesOK
      <4>4. u = t => k \in Int /\ j \in Int
        BY <1>d, <4>3
      <4>5. QED
        BY <4>1, <4>2, <4>3, <4>4
    <3>3. QED
      BY <3>1, <3>2
  <2>4. \A u \in Threads : \A k \in DOMAIN stack'[u] : stack'[u][k].image \in announced'
    BY <1>c, <1>d, <1>e, <2>1
  <2>5. QED
    BY <1>e, <2>2, <2>3, <2>4 DEF ImagesOK
<1>5. QED
    BY <1>1, <1>2, <1>3, <1>4

LEMMA UnlockKeeps ==
    ASSUME IInv, NEW t \in Threads, Unlock(t)
    PROVE  StacksOK' /\ LockOK' /\ LoadingOK' /\ ImagesOK'
<1>a. TypeOK /\ StacksOK /\ LockOK /\ LoadingOK /\ ImagesOK
    BY DEF IInv
<1>b. /\ stack[t] # <<>> /\ stack[t] \in Seq(Frame) /\ Len(stack[t]) \in Nat \ {0}
      /\ 1 \in DOMAIN stack[t] /\ DOMAIN stack[t] = 1..Len(stack[t]) /\ Top(t) = stack[t][1]
      /\ Top(t).at = "unlock"
    BY <1>a, TopOfStack DEF Unlock, At
<1>c. /\ stack' \in [Threads -> Seq(Frame)]
      /\ \A u \in Threads : u # t => stack'[u] = stack[u]
      /\ Len(stack'[t]) = Len(stack[t]) - 1
      /\ DOMAIN stack'[t] = 1..Len(stack[t]) - 1
      /\ \A k \in DOMAIN stack'[t] : k + 1 \in DOMAIN stack[t] /\ stack'[t][k] = stack[t][k + 1]
      /\ \A k \in DOMAIN stack[t] :
            k # 1 => k - 1 \in DOMAIN stack'[t] /\ stack'[t][k - 1] = stack[t][k]
    BY <1>a, <1>b, Popping DEF Unlock
<1>d. t # None /\ t \in Threads
    BY LoadMethodsAssumption DEF LoadMethodsAssumption
<1>e. UNCHANGED <<announced, prepared, classes, categories, loading>>
    BY DEF Unlock
<1>f. lock = t /\ lockDepth = Len(stack[t])
    BY <1>a, <1>b, <1>d DEF StacksOK, StackOK, FrameOK, LockOK
<1>g. \/ Len(stack[t]) = 1 /\ lock' = None /\ lockDepth' = 0
      \/ Len(stack[t]) = 2 /\ lock' = t /\ lockDepth' = 1
  <2>1. PICK n \in Nat \ {0} : n = Len(stack[t])
    BY <1>b
  <2>2. n <= 2
    BY <1>a, <2>1 DEF StacksOK, StackOK
  <2>3. n = 1 \/ n = 2
    BY <2>2
  <2>4. QED
    BY <1>f, <2>1, <2>3 DEF Unlock, HolderAfter
<1>h. ASSUME NEW u \in Threads, NEW k \in DOMAIN stack'[u]
      PROVE  \E j \in DOMAIN stack[u] : /\ stack'[u][k] = stack[u][j]
                                        /\ j = IF u = t THEN k + 1 ELSE k
    BY <1>c
<1>1. StacksOK'
  <2>1. ASSUME NEW u \in Threads, NEW k \in DOMAIN stack'[u]
        PROVE  FrameOK(u, stack'[u][k], lock')
    <3>1. PICK j \in DOMAIN stack[u] : /\ stack'[u][k] = stack[u][j]
                                       /\ j = IF u = t THEN k + 1 ELSE k
      BY <1>h
    <3>2. FrameOK(u, stack[u][j], lock)
      BY <1>a DEF StacksOK, StackOK
    <3>3. CASE u # t
      BY <1>f, <3>1, <3>2, <3>3 DEF FrameOK
    <3>4. CASE u = t
      <4>1. Len(stack[t]) # 1
        BY <1>c, <3>4
      <4>2. QED
        BY <1>f, <1>g, <3>1, <3>2, <3>4, <4>1
    <3>5. QED
      BY <3>3, <3>4
  <2>2. ASSUME NEW u \in Threads
        PROVE  /\ Len(stack'[u]) <= 2
               /\ Len(stack'[u]) = 2 =>
                    stack'[u][1].at \notin Working /\ stack'[u][2].running # None
    <3>1. CASE u # t
      BY <1>a, <1>c, <3>1 DEF StacksOK, StackOK
    <3>2. CASE u = t
      <4>1. Len(stack'[t]) = 0 \/ Len(stack'[t]) = 1
        BY <1>c, <1>g
      <4>2. QED
        BY <3>2, <4>1
    <3>3. QED
      BY <3>1, <3>2
  <2>3. ASSUME NEW u \in Threads
        PROVE  StackOK(u)'
    BY <2>1, <2>2 DEF StackOK, FrameOK
  <2>4. QED
    BY <2>3 DEF StacksOK
<1>2. LockOK'
  <2>1. CASE lock' = None
    BY <1>d, <1>g, <2>1 DEF LockOK
  <2>2. CASE Len(stack[t]) = 2 /\ lock' = t /\ lockDepth' = 1
    <3>1. Len(stack'[t]) = 1 /\ 1 \in DOMAIN stack'[t] /\ 2 \in DOMAIN stack[t]
      BY <1>b, <1>c, <2>2
    <3>2. stack'[t][1] = stack[t][2] /\ stack'[t] # <<>>
      BY <1>c, <3>1
    <3>3. stack[t][2].at # "lock"
      BY <1>a, <2>2, <3>1 DEF StacksOK, StackOK, FrameOK, Calling
    <3>4. QED
      BY <1>d, <2>2, <3>1, <3>2, <3>3 DEF LockOK
  <2>3. QED
    BY <1>g, <2>1, <2>2
<1>3. LoadingOK'
  <2>1. ASSUME NEW u \in Threads, NEW k \in DOMAIN stack'[u], stack'[u][k].at \in Working
        PROVE  loading
    BY <1>a, <1>h, <2>1 DEF LoadingOK
  <2>2. ASSUME loading
        PROVE  \E u \in Threads : \E k \in DOMAIN stack'[u] : stack'[u][k].at \in Working
    <3>1. PICK u \in Threads : \E k \in DOMAIN stack[u] : stack[u][k].at \in Working
      BY <1>a, <2>2 DEF LoadingOK
    <3>2. PICK k \in DOMAIN stack[u] : stack[u][k].at \in Working
      BY <3>1
    <3>3. ~ (u = t /\ k = 1)
      BY <1>b, <3>2 DEF Working
    <3>4. \E j \in DOMAIN stack'[u] : stack'[u][j] = stack[u][k]
      BY <1>c, <3>3
    <3>5. QED
      BY <3>2, <3>4
  <2>3. QED
    BY <1>a, <1>e, <2>1, <2>2 DEF LoadingOK
<1>4. ImagesOK'
  <2>1. ASSUME NEW u \in Threads, NEW k \in DOMAIN stack'[u]
        PROVE  /\ stack'[u][k].image \in announced
               /\ stack'[u][k].at \in {"lock", "prepare"} => stack'[u][k].image \notin prepared
    BY <1>a, <1>h DEF ImagesOK
  <2>2. ASSUME NEW u \in Threads, NEW k \in DOMAIN stack'[u],
               NEW v \in Threads, NEW j \in DOMAIN stack'[v],
               stack'[u][k].image = stack'[v][j].image
        PROVE  u = v /\ k = j
    <3>1. PICK k1 \in DOMAIN stack[u] : /\ stack'[u][k] = stack[u][k1]
                                        /\ k1 = IF u = t THEN k + 1 ELSE k
      BY <1>h
    <3>2. PICK j1 \in DOMAIN stack[v] : /\ stack'[v][j] = stack[v][j1]
                                        /\ j1 = IF v = t THEN j + 1 ELSE j
      BY <1>h
    <3>3. u = v /\ k1 = j1
      BY <1>a, <2>2, <3>1, <3>2 DEF ImagesOK
    <3>4. u = t => k \in Int /\ j \in Int
      BY <1>c, <3>3
    <3>5. QED
      BY <3>1, <3>2, <3>3, <3>4
  <2>3. QED
    BY <1>e, <2>1, <2>2 DEF ImagesOK
<1>5. QED
    BY <1>1, <1>2, <1>3, <1>4

LEMMA DetachedBy ==
    \A m : m \in Detached <=>
        \E t \in Threads : \E k \in DOMAIN stack[t] : m \in ToSet(stack[t][k].detached)
BY DEF Detached

LEMMA DetachedBy_next ==
    \A m : m \in Detached' <=>
        \E t \in Threads : \E k \in DOMAIN stack'[t] : m \in ToSet(stack'[t][k].detached)
BY DEF Detached

LEMMA MoreDone ==
    ASSUME NEW done, NEW more, NEW needs, NEW list, GoodList(list, done, needs),
           done \subseteq more, ToSet(list) \cap more = {}
    PROVE  GoodList(list, more, needs)
BY DEF GoodList

LEMMA ListSets ==
    ASSUME TypeOK
    PROVE  /\ ToSet(classes) \subseteq HasLoad /\ HasLoad \subseteq Classes
           /\ ToSet(categories) \subseteq Categories
           /\ Classes \cap Categories = {} /\ Methods = Classes \cup Categories
           /\ ToSet(<<>>) = {}
BY LoadMethodsAssumption DEF TypeOK, ToSet, LoadMethodsAssumption, Methods

\* The first method of a list goes to the end of the one before it.
LEMMA MoveFirst ==
    ASSUME NEW needs, NEW list, NEW rest,
           GoodList(list, {}, needs), GoodList(rest, ToSet(list), needs), rest # <<>>
    PROVE  /\ GoodList(Append(list, Head(rest)), {}, needs)
           /\ GoodList(Tail(rest), ToSet(Append(list, Head(rest))), needs)
           /\ ToSet(Append(list, Head(rest))) = ToSet(list) \cup {Head(rest)}
           /\ ToSet(rest) = {Head(rest)} \cup ToSet(Tail(rest))
<1>1. /\ list \in Seq(Methods) /\ rest \in Seq(Methods) /\ Len(rest) \in Nat \ {0}
      /\ DOMAIN rest = 1..Len(rest) /\ 1 \in DOMAIN rest
    BY DEF GoodList
<1>2. PICK m : m = Head(rest)
    OBVIOUS
<1>3. PICK tail : tail = Tail(rest)
    OBVIOUS
<1>4. /\ m = rest[1] /\ m \in Methods
      /\ tail \in Seq(Methods) /\ Len(tail) = Len(rest) - 1 /\ DOMAIN tail = 1..Len(rest) - 1
      /\ \A k \in DOMAIN tail : k + 1 \in DOMAIN rest /\ tail[k] = rest[k + 1]
    BY <1>1, <1>2, <1>3
<1>5. m \in ToSet(rest) /\ m \notin ToSet(list)
    BY <1>1, <1>4 DEF GoodList, ToSet
<1>6. needs[m] \subseteq ToSet(list)
  <2>1. Before(rest, 1) = {}
    BY DEF Before
  <2>2. needs[rest[1]] \subseteq ToSet(list) \cup Before(rest, 1)
    BY <1>1 DEF GoodList
  <2>3. QED
    BY <1>4, <2>1, <2>2
<1>7. GoodList(Append(list, m), {}, needs)
    BY <1>4, <1>5, <1>6, AppendList
<1>8. ToSet(Append(list, m)) = ToSet(list) \cup {m}
    BY <1>1, AppendSet
<1>9. ToSet(rest) = {m} \cup ToSet(tail)
  <2>1. ASSUME NEW k \in DOMAIN rest, k # 1
        PROVE  rest[k] \in ToSet(tail)
    <3>1. k - 1 \in DOMAIN tail /\ tail[k - 1] = rest[(k - 1) + 1]
      BY <1>1, <1>4, <2>1
    <3>2. (k - 1) + 1 = k
      BY <1>1
    <3>3. QED
      BY <3>1, <3>2 DEF ToSet
  <2>2. \A k \in DOMAIN tail : tail[k] \in ToSet(rest)
    BY <1>4 DEF ToSet
  <2>3. ToSet(tail) \subseteq ToSet(rest)
    BY <2>2 DEF ToSet
  <2>4. ToSet(rest) \subseteq {m} \cup ToSet(tail)
    BY <1>4, <2>1 DEF ToSet
  <2>5. QED
    BY <1>5, <2>3, <2>4
<1>10. IsInjective(tail)
  <2> SUFFICES ASSUME NEW a \in DOMAIN tail, NEW b \in DOMAIN tail, tail[a] = tail[b]
               PROVE  a = b
    BY DEF IsInjective
  <2>1. a + 1 \in DOMAIN rest /\ b + 1 \in DOMAIN rest /\ rest[a + 1] = rest[b + 1]
    BY <1>4
  <2>2. a + 1 = b + 1
    BY <2>1 DEF GoodList, IsInjective
  <2>3. a \in Int /\ b \in Int
    BY <1>4
  <2>4. QED
    BY <2>2, <2>3
<1>11. m \notin ToSet(tail)
  <2>1. ASSUME NEW k \in DOMAIN tail
        PROVE  tail[k] # m
    <3>1. k + 1 \in DOMAIN rest /\ tail[k] = rest[k + 1] /\ k + 1 # 1
      BY <1>4
    <3>2. QED
      BY <1>1, <1>4, <3>1 DEF GoodList, IsInjective
  <2>2. QED
    BY <2>1 DEF ToSet
<1>12. ASSUME NEW k \in DOMAIN tail
       PROVE  needs[tail[k]] \subseteq ToSet(list) \cup {m} \cup Before(tail, k)
  <2>1. needs[rest[k + 1]] \subseteq ToSet(list) \cup Before(rest, k + 1) /\ tail[k] = rest[k + 1]
    BY <1>4 DEF GoodList
  <2>2. Before(rest, k + 1) \subseteq {m} \cup Before(tail, k)
    <3> SUFFICES ASSUME NEW j \in 1..(k + 1) - 1, j # 1
                 PROVE  rest[j] \in Before(tail, k)
      BY <1>4 DEF Before
    <3>1. k \in 1..Len(rest) - 1
      BY <1>4
    <3>2. j - 1 \in DOMAIN tail /\ j - 1 \in 1..k - 1 /\ (j - 1) + 1 = j
      BY <1>1, <1>4, <3>1
    <3>3. tail[j - 1] = rest[j]
      BY <1>4, <3>2
    <3>4. QED
      BY <3>2, <3>3 DEF Before
  <2>3. QED
    BY <2>1, <2>2
<1>13. GoodList(tail, ToSet(list) \cup {m}, needs)
  <2>1. ToSet(tail) \cap (ToSet(list) \cup {m}) = {}
    BY <1>9, <1>11 DEF GoodList
  <2>2. QED
    BY <1>4, <1>10, <1>12, <2>1 DEF GoodList
<1>14. QED
    BY <1>2, <1>3, <1>7, <1>8, <1>9, <1>13

\* A step that leaves the lists alone.
LEMMA ListsStay ==
    ASSUME IInv, UNCHANGED <<called, classes, categories, marked, prepared>>,
           \A u \in Threads : \A k \in DOMAIN stack[u] :
                \/ stack[u][k].detached = <<>>
                \/ \E j \in DOMAIN stack'[u] : stack'[u][j].detached = stack[u][k].detached,
           \A u \in Threads : \A k \in DOMAIN stack'[u] :
                \/ stack'[u][k].detached = <<>>
                \/ \E j \in DOMAIN stack[u] : stack'[u][k].detached = stack[u][j].detached
    PROVE  ListsOK' /\ Complete'
<1>a. TypeOK /\ ListsOK /\ Complete
    BY DEF IInv
<1>1. ToSet(<<>>) = {}
    BY DEF ToSet
<1>2. Detached \subseteq Detached'
  <2> SUFFICES ASSUME NEW m \in Detached
               PROVE  m \in Detached'
    OBVIOUS
  <2>1. PICK u \in Threads : \E k \in DOMAIN stack[u] : m \in ToSet(stack[u][k].detached)
    BY DetachedBy
  <2>2. PICK k \in DOMAIN stack[u] : m \in ToSet(stack[u][k].detached)
    BY <2>1
  <2>3. stack[u][k].detached # <<>>
    BY <1>1, <2>2
  <2>4. PICK j \in DOMAIN stack'[u] : stack'[u][j].detached = stack[u][k].detached
    BY <2>3
  <2>5. QED
    BY <2>2, <2>4, DetachedBy_next
<1>3. Detached' \subseteq Detached
  <2> SUFFICES ASSUME NEW m \in Detached'
               PROVE  m \in Detached
    OBVIOUS
  <2>1. PICK u \in Threads : \E k \in DOMAIN stack'[u] : m \in ToSet(stack'[u][k].detached)
    BY DetachedBy_next
  <2>2. PICK k \in DOMAIN stack'[u] : m \in ToSet(stack'[u][k].detached)
    BY <2>1
  <2>3. stack'[u][k].detached # <<>>
    BY <1>1, <2>2
  <2>4. PICK j \in DOMAIN stack[u] : stack'[u][k].detached = stack[u][j].detached
    BY <2>3
  <2>5. QED
    BY <2>2, <2>4, DetachedBy
<1>4. Taken' = Taken
    BY <1>2, <1>3 DEF Taken
<1>5. \A u \in Threads : \A k \in DOMAIN stack'[u] :
            GoodList(stack'[u][k].detached, ToSet(called), Needs)
    BY <1>a, EmptyList DEF ListsOK
<1>6. ListsOK'
  <2>1. /\ Closed(marked') /\ GoodList(called', {}, Needs)
        /\ \A u \in Threads : \A k \in DOMAIN stack'[u] :
                GoodList(stack'[u][k].detached, ToSet(called'), Needs)
        /\ GoodList(classes', Taken', Needs)
        /\ GoodList(categories', Taken' \cup ToSet(classes'), Needs)
    BY <1>a, <1>4, <1>5 DEF ListsOK
  <2>2. QED
    BY <2>1 DEF ListsOK
<1>7. Complete'
    BY <1>a, <1>4 DEF Complete
<1>8. QED
    BY <1>6, <1>7

\* The detached lists while a thread is in call_load_methods.
LEMMA OneDetached ==
    ASSUME IInv, NEW t \in Threads, NEW f, Turns(t, f), Top(t).at \in Working
    PROVE  /\ Detached = ToSet(Top(t).detached)
           /\ Detached' = ToSet(f.detached)
           /\ \A u \in Threads : \A k \in DOMAIN stack'[u] :
                stack'[u][k].detached \in {f.detached, <<>>}
<1>a. TypeOK /\ StacksOK
    BY DEF IInv
<1>b. 1 \in DOMAIN stack[t] /\ Top(t) = stack[t][1]
    BY <1>a, TopOfStack DEF Turns
<1>c. /\ \A u \in Threads : DOMAIN stack'[u] = DOMAIN stack[u]
      /\ \A u \in Threads : \A k \in DOMAIN stack[u] :
            stack'[u][k] = IF u = t /\ k = 1 THEN f ELSE stack[u][k]
    BY <1>a, Becoming DEF Turns
<1>d. \A u \in Threads : \A k \in DOMAIN stack[u] :
            u # t \/ k # 1 => stack[u][k].detached = <<>>
    BY <1>a, Alone DEF Turns
<1>e. ToSet(<<>>) = {}
    BY DEF ToSet
<1>1. Detached = ToSet(Top(t).detached)
    BY <1>b, <1>d, <1>e, DetachedBy
<1>2. Detached' = ToSet(f.detached)
  <2>1. \A u \in Threads : \A k \in DOMAIN stack'[u] :
            stack'[u][k].detached = IF u = t /\ k = 1 THEN f.detached ELSE <<>>
    BY <1>c, <1>d
  <2>2. 1 \in DOMAIN stack'[t]
    BY <1>b, <1>c
  <2>3. \A m \in Detached' : m \in ToSet(f.detached)
    BY <1>e, <2>1, DetachedBy_next
  <2>4. \A m \in ToSet(f.detached) : m \in Detached'
    BY <2>1, <2>2, DetachedBy_next
  <2>5. QED
    BY <2>3, <2>4
<1>3. QED
    BY <1>1, <1>2, <1>c, <1>d

LEMMA PrepareKeepsLists ==
    ASSUME IInv, NEW t \in Threads, NEW f, Turns(t, f), Prepare(t),
           f.detached = <<>>
    PROVE  ListsOK' /\ Complete'
<1>a. TypeOK /\ ListsOK /\ Complete /\ ImagesOK /\ StacksOK
    BY DEF IInv
<1>b. 1 \in DOMAIN stack[t] /\ Top(t) = stack[t][1] /\ Top(t) \in Frame
    BY <1>a, TopOfStack DEF Turns
<1>c. /\ \A u \in Threads : DOMAIN stack'[u] = DOMAIN stack[u]
      /\ \A u \in Threads : \A k \in DOMAIN stack[u] :
            stack'[u][k] = IF u = t /\ k = 1 THEN f ELSE stack[u][k]
    BY <1>a, Becoming DEF Turns
<1>d. PICK i : i = Top(t).image
    OBVIOUS
<1>e. i \in Images /\ Top(t).at = "prepare" /\ i \notin prepared
    BY <1>a, <1>b, <1>d DEF Frame, Prepare, At, ImagesOK
<1>f. Top(t).detached = <<>>
    BY <1>a, <1>b, <1>e DEF StacksOK, StackOK, FrameOK, Calling
<1>g. PICK S : S = Scheduled(i)
    OBVIOUS
<1>h. PICK L : L = Loadable(S)
    OBVIOUS
<1>i. PICK C : C = NonlazyCategories[i]
    OBVIOUS
<1>j. /\ GoodSchedule(S, marked) /\ ToSet(S) \subseteq Classes
      /\ ToSet(NonlazyClasses[i]) \subseteq marked \cup ToSet(S)
      /\ L \in Seq(HasLoad) /\ GoodList(L, marked \cap HasLoad, Needs)
      /\ ToSet(L) = ToSet(S) \cap HasLoad
    BY <1>e, <1>g, <1>h, Scheduling
<1>k. /\ marked' = marked \cup ToSet(S) /\ classes' = classes \o L
      /\ categories' = categories \o C /\ called' = called /\ prepared' = prepared \cup {i}
    BY <1>d, <1>g, <1>h, <1>i DEF Prepare
<1>l. /\ ToSet(classes) \subseteq HasLoad /\ HasLoad \subseteq Classes
      /\ ToSet(categories) \subseteq Categories
      /\ Classes \cap Categories = {} /\ Methods = Classes \cup Categories
    BY <1>a, ListSets
<1>m. /\ C \in Seq(Categories) /\ IsInjective(C) /\ ToSet(C) \subseteq Categories
      /\ \A j \in Images : j # i => ToSet(NonlazyCategories[j]) \cap ToSet(C) = {}
  <2>1. C \in Seq(Categories)
    BY <1>e, <1>i, LoadMethodsAssumption DEF LoadMethodsAssumption
  <2>2. ToSet(C) \subseteq Categories
    BY <2>1 DEF ToSet
  <2>3. IsInjective(C)
    BY <1>e, <1>i, LoadMethodsAssumption DEF LoadMethodsAssumption
  <2>4. \A j \in Images : j # i => ToSet(NonlazyCategories[j]) \cap ToSet(C) = {}
    BY <1>e, <1>i, LoadMethodsAssumption DEF LoadMethodsAssumption
  <2>5. QED
    BY <2>1, <2>2, <2>3, <2>4
<1>n. /\ classes \in Seq(Methods) /\ L \in Seq(Methods)
      /\ categories \in Seq(Methods) /\ C \in Seq(Methods)
    BY <1>a, <1>j, <1>l, <1>m DEF TypeOK
<1>o. ToSet(classes') = ToSet(classes) \cup ToSet(L)
    BY <1>k, <1>n, ConcatSet
<1>p. ToSet(categories') = ToSet(categories) \cup ToSet(C)
    BY <1>k, <1>n, ConcatSet
<1>1. \A u \in Threads : \A k \in DOMAIN stack[u] : stack'[u][k].detached = stack[u][k].detached
    BY <1>b, <1>c, <1>f
<1>2. Detached' = Detached
  <2>1. \A m : m \in Detached' <=> m \in Detached
    BY <1>1, <1>c, DetachedBy, DetachedBy_next
  <2>2. QED
    BY <2>1
<1>3. Taken' = Taken
    BY <1>2, <1>k DEF Taken
<1>4. Closed(marked')
    BY <1>a, <1>j, <1>k, ScheduledIsClosed DEF ListsOK
<1>5. GoodList(classes', Taken, Needs)
  <2>1. GoodList(classes, Taken, Needs)
    BY <1>a DEF ListsOK
  <2>2. marked \cap HasLoad = (Taken \cup ToSet(classes)) \cap Classes
    BY <1>a DEF Complete
  <2>3. ToSet(L) \cap (marked \cap HasLoad) = {}
    BY <1>j DEF GoodList
  <2>4. ToSet(L) \cap (Taken \cup ToSet(classes)) = {}
    BY <1>j, <2>2, <2>3
  <2>5. GoodList(L, Taken \cup ToSet(classes), Needs)
    BY <1>j, <2>2, <2>4, MoreDone
  <2>6. QED
    BY <1>k, <2>1, <2>5, ConcatList
<1>6. marked' \cap HasLoad = (Taken \cup ToSet(classes')) \cap Classes
    BY <1>a, <1>j, <1>k, <1>l, <1>o DEF Complete
<1>7. GoodList(C, Taken \cup ToSet(classes') \cup ToSet(categories), Needs)
  <2>1. ToSet(C) \cap (Taken \cup ToSet(categories)) = {}
    <3>1. ToSet(C) \cap UNION {ToSet(NonlazyCategories[j]) : j \in prepared} = {}
      BY <1>a, <1>e, <1>m DEF TypeOK
    <3>2. QED
      BY <1>a, <1>m, <3>1 DEF Complete
  <2>2. ToSet(C) \cap ToSet(classes') = {}
    BY <1>j, <1>l, <1>m, <1>o
  <2>3. ASSUME NEW n \in DOMAIN C
        PROVE  Needs[C[n]] \subseteq Taken \cup ToSet(classes')
    <3>1. C[n] \in ToSet(C) /\ C[n] \in Methods /\ C[n] \notin Classes
      BY <1>l, <1>m DEF ToSet
    <3>2. Needs[C[n]] = UNION {ToSet(NonlazyClasses[j]) :
                                  j \in {h \in Images : C[n] \in ToSet(NonlazyCategories[h])}}
      BY <3>1 DEF Needs
    <3>3. \A j \in Images : C[n] \in ToSet(NonlazyCategories[j]) => j = i
      BY <1>m, <3>1
    <3>4. Needs[C[n]] \subseteq ToSet(NonlazyClasses[i])
      BY <3>2, <3>3
    <3>5. ToSet(NonlazyClasses[i]) \subseteq HasLoad
      BY <1>e, LoadMethodsAssumption DEF LoadMethodsAssumption, ToSet
    <3>6. QED
      BY <1>6, <1>j, <1>k, <3>4, <3>5
  <2>4. QED
    BY <1>m, <1>n, <2>1, <2>2, <2>3 DEF GoodList
<1>8. GoodList(categories', Taken \cup ToSet(classes'), Needs)
  <2>1. GoodList(categories, Taken \cup ToSet(classes), Needs)
    BY <1>a DEF ListsOK
  <2>2. ToSet(categories) \cap (Taken \cup ToSet(classes')) = {}
    BY <1>j, <1>l, <1>o, <2>1 DEF GoodList
  <2>3. GoodList(categories, Taken \cup ToSet(classes'), Needs)
    BY <1>o, <2>1, <2>2, MoreDone
  <2>4. QED
    BY <1>7, <1>k, <2>3, ConcatList
<1>9. \A u \in Threads : \A k \in DOMAIN stack'[u] :
            GoodList(stack'[u][k].detached, ToSet(called), Needs)
    BY <1>1, <1>a, <1>c DEF ListsOK
<1>10. ListsOK'
  <2>1. GoodList(called, {}, Needs)
    BY <1>a DEF ListsOK
  <2>2. QED
    BY <1>3, <1>4, <1>5, <1>8, <1>9, <1>k, <2>1 DEF ListsOK
<1>11. UNION {ToSet(NonlazyCategories[j]) : j \in prepared'}
            = (Taken \cup ToSet(categories')) \cap Categories
  <2>1. PICK Old : Old = UNION {ToSet(NonlazyCategories[j]) : j \in prepared}
    OBVIOUS
  <2>2. \A m : m \in UNION {ToSet(NonlazyCategories[j]) : j \in prepared'} <=> m \in Old \cup ToSet(C)
    BY <1>i, <1>k, <2>1
  <2>3. Old = (Taken \cup ToSet(categories)) \cap Categories
    BY <1>a, <2>1 DEF Complete
  <2>4. Old \cup ToSet(C) = (Taken \cup ToSet(categories')) \cap Categories
    BY <1>m, <1>p, <2>3
  <2>5. QED
    BY <2>2, <2>4
<1>12. \A j \in prepared' : ToSet(NonlazyClasses[j]) \subseteq marked'
    BY <1>a, <1>j, <1>k DEF Complete
<1>13. QED
    BY <1>3, <1>6, <1>10, <1>11, <1>12 DEF Complete

\* The lists move on within call_load_methods.
LEMMA RunKeepsLists ==
    ASSUME IInv, NEW t \in Threads, NEW f, Turns(t, f), Top(t).at \in Working,
           \/ DetachClasses(t) /\ f.detached = classes
           \/ DetachCategories(t) /\ f.detached = categories
           \/ /\ CallLoad(t) /\ Top(t).detached # <<>>
              /\ f.detached = Tail(Top(t).detached)
    PROVE  ListsOK' /\ Complete'
<1>a. TypeOK /\ StacksOK /\ ListsOK /\ Complete
    BY DEF IInv
<1>b. 1 \in DOMAIN stack[t] /\ Top(t) = stack[t][1]
    BY <1>a, TopOfStack DEF Turns
<1>c. /\ Detached = ToSet(Top(t).detached)
      /\ Detached' = ToSet(f.detached)
      /\ \A u \in Threads : \A k \in DOMAIN stack'[u] :
            stack'[u][k].detached \in {f.detached, <<>>}
    BY OneDetached
<1>d. GoodList(Top(t).detached, ToSet(called), Needs)
    BY <1>a, <1>b DEF ListsOK
<1>e. /\ ToSet(classes) \subseteq HasLoad /\ HasLoad \subseteq Classes
      /\ ToSet(categories) \subseteq Categories
      /\ Classes \cap Categories = {} /\ Methods = Classes \cup Categories
      /\ ToSet(<<>>) = {}
    BY <1>a, ListSets
<1>f. marked' = marked /\ prepared' = prepared
    BY DEF DetachClasses, DetachCategories, CallLoad
<1>g. Top(t).at = "loop" => Top(t).detached = <<>>
    BY <1>a, <1>b DEF StacksOK, StackOK, FrameOK, Calling
<1>h. /\ GoodList(called, {}, Needs)
      /\ GoodList(classes, Taken, Needs)
      /\ GoodList(categories, Taken \cup ToSet(classes), Needs)
      /\ Closed(marked)
    BY <1>a DEF ListsOK
<1>1. CASE DetachClasses(t) /\ f.detached = classes
  <2>1. called' = called /\ categories' = categories /\ classes' = <<>> /\ Top(t).at = "loop"
    BY <1>1 DEF DetachClasses, At
  <2>2. Taken = ToSet(called) /\ Taken' = ToSet(called) \cup ToSet(classes)
    BY <1>1, <1>c, <1>e, <1>g, <2>1 DEF Taken
  <2>3. \A u \in Threads : \A k \in DOMAIN stack'[u] :
            GoodList(stack'[u][k].detached, ToSet(called), Needs)
    BY <1>1, <1>c, <1>h, <2>2, EmptyList
  <2>4. GoodList(classes', Taken', Needs) /\ ToSet(classes') = {}
    BY <2>1, EmptyList
  <2>5. GoodList(categories', Taken' \cup ToSet(classes'), Needs)
    BY <1>h, <2>1, <2>2, <2>4
  <2>6. ListsOK'
    BY <1>f, <1>h, <2>1, <2>3, <2>4, <2>5 DEF ListsOK
  <2>7. Complete'
    BY <1>a, <1>e, <1>f, <2>1, <2>2, <2>4 DEF Complete
  <2>8. QED
    BY <2>6, <2>7
<1>2. CASE DetachCategories(t) /\ f.detached = categories
  <2>1. /\ called' = called /\ classes' = classes /\ categories' = <<>> /\ classes = <<>>
        /\ Top(t).at = "loop"
    BY <1>2 DEF DetachCategories, At, NoClassLeft
  <2>2. Taken = ToSet(called) /\ Taken' = ToSet(called) \cup ToSet(categories)
    BY <1>2, <1>c, <1>e, <1>g, <2>1 DEF Taken
  <2>3. \A u \in Threads : \A k \in DOMAIN stack'[u] :
            GoodList(stack'[u][k].detached, ToSet(called), Needs)
    BY <1>2, <1>c, <1>e, <1>h, <2>1, <2>2, EmptyList
  <2>4. /\ GoodList(classes', Taken', Needs)
        /\ GoodList(categories', Taken' \cup ToSet(classes'), Needs)
        /\ ToSet(classes') = {} /\ ToSet(categories') = {}
    BY <1>e, <2>1, EmptyList
  <2>5. ListsOK'
    BY <1>f, <1>h, <2>1, <2>3, <2>4 DEF ListsOK
  <2>6. Complete'
    BY <1>a, <1>e, <1>f, <2>1, <2>2, <2>4 DEF Complete
  <2>7. QED
    BY <2>5, <2>6
<1>3. CASE CallLoad(t) /\ Top(t).detached # <<>> /\ f.detached = Tail(Top(t).detached)
  <2>1. /\ called' = Append(called, Head(Top(t).detached))
        /\ classes' = classes /\ categories' = categories
    BY <1>3 DEF CallLoad
  <2>2. /\ GoodList(called', {}, Needs)
        /\ GoodList(f.detached, ToSet(called'), Needs)
        /\ ToSet(called') = ToSet(called) \cup {Head(Top(t).detached)}
        /\ ToSet(Top(t).detached) = {Head(Top(t).detached)} \cup ToSet(f.detached)
    BY <1>3, <1>d, <1>h, <2>1, MoveFirst
  <2>3. Taken' = Taken
    BY <1>c, <2>2 DEF Taken
  <2>4. \A u \in Threads : \A k \in DOMAIN stack'[u] :
            GoodList(stack'[u][k].detached, ToSet(called'), Needs)
    BY <1>c, <2>2, EmptyList
  <2>5. /\ GoodList(classes', Taken', Needs)
        /\ GoodList(categories', Taken' \cup ToSet(classes'), Needs)
    BY <1>h, <2>1, <2>3
  <2>6. ListsOK'
    BY <1>f, <1>h, <2>2, <2>4, <2>5 DEF ListsOK
  <2>7. Complete'
    BY <1>a, <1>f, <2>1, <2>3 DEF Complete
  <2>8. QED
    BY <2>6, <2>7
<1>4. QED
    BY <1>1, <1>2, <1>3

LEMMA NextIInv ==
    ASSUME IInv, [Next]_vars
    PROVE  IInv'
<1>a. TypeOK /\ StacksOK
    BY DEF IInv
<1>1. TypeOK'
    BY NextTypeOK
<1>2. CASE UNCHANGED vars
  <2>1. /\ UNCHANGED <<announced, prepared, marked, classes, categories, loading, lock,
                       lockDepth, stack, called>>
    BY <1>2 DEF vars
  <2>2. ListsOK' /\ Complete'
    <3>1. \A u \in Threads : DOMAIN stack'[u] = DOMAIN stack[u]
      BY <2>1
    <3>2. QED
      BY <2>1, <3>1, ListsStay
  <2>3. StacksOK' /\ LockOK' /\ LoadingOK' /\ ImagesOK'
    BY <2>1 DEF IInv, StacksOK, StackOK, LockOK, LoadingOK, ImagesOK
  <2>4. QED
    BY <1>1, <2>2, <2>3 DEF IInv
<1>3. ASSUME NEW t \in Threads, NEW i \in Images, Announce(t, i)
      PROVE  IInv'
  <2>1. StacksOK' /\ LockOK' /\ LoadingOK' /\ ImagesOK'
    BY <1>3, AnnounceKeeps
  <2>2. PICK f : f = [image |-> i, at |-> "lock", detached |-> <<>>, running |-> None]
    OBVIOUS
  <2>3. f \in Frame /\ f.detached = <<>> /\ stack' = [stack EXCEPT ![t] = <<f>> \o @]
    BY <1>3, <2>2 DEF Announce, Frame
  <2>4. /\ \A u \in Threads : u # t => stack'[u] = stack[u]
        /\ stack'[t][1] = f
        /\ \A k \in DOMAIN stack[t] : k + 1 \in DOMAIN stack'[t] /\ stack'[t][k + 1] = stack[t][k]
        /\ \A k \in DOMAIN stack'[t] :
                k # 1 => k - 1 \in DOMAIN stack[t] /\ stack'[t][k] = stack[t][k - 1]
    BY <1>a, <2>3, Pushing
  <2>5. UNCHANGED <<called, classes, categories, marked, prepared>>
    BY <1>3 DEF Announce
  <2>6. \A u \in Threads : \A k \in DOMAIN stack[u] :
            \E j \in DOMAIN stack'[u] : stack'[u][j].detached = stack[u][k].detached
    <3> SUFFICES ASSUME NEW u \in Threads, NEW k \in DOMAIN stack[u]
                 PROVE  \E j \in DOMAIN stack'[u] : stack'[u][j].detached = stack[u][k].detached
      OBVIOUS
    <3>1. CASE u = t
      BY <2>4, <3>1
    <3>2. CASE u # t
      BY <2>4, <3>2
    <3>3. QED
      BY <3>1, <3>2
  <2>7. \A u \in Threads : \A k \in DOMAIN stack'[u] :
            \/ stack'[u][k].detached = <<>>
            \/ \E j \in DOMAIN stack[u] : stack'[u][k].detached = stack[u][j].detached
    BY <2>3, <2>4
  <2>8. ListsOK' /\ Complete'
    BY <2>5, <2>6, <2>7, ListsStay
  <2>9. QED
    BY <1>1, <2>1, <2>8 DEF IInv
<1>4. ASSUME NEW t \in Threads, Unlock(t)
      PROVE  IInv'
  <2>1. StacksOK' /\ LockOK' /\ LoadingOK' /\ ImagesOK'
    BY <1>4, UnlockKeeps
  <2>2. stack[t] # <<>> /\ Top(t).at = "unlock" /\ stack' = [stack EXCEPT ![t] = Tail(@)]
    BY <1>4 DEF Unlock, At
  <2>3. 1 \in DOMAIN stack[t] /\ Top(t) = stack[t][1]
    BY <1>a, <2>2, TopOfStack
  <2>4. stack[t][1].detached = <<>>
    BY <1>a, <2>2, <2>3 DEF StacksOK, StackOK, FrameOK, Calling
  <2>5. /\ \A u \in Threads : u # t => stack'[u] = stack[u]
        /\ \A k \in DOMAIN stack'[t] : k + 1 \in DOMAIN stack[t] /\ stack'[t][k] = stack[t][k + 1]
        /\ \A k \in DOMAIN stack[t] :
                k # 1 => k - 1 \in DOMAIN stack'[t] /\ stack'[t][k - 1] = stack[t][k]
    BY <1>a, <2>2, Popping
  <2>6. UNCHANGED <<called, classes, categories, marked, prepared>>
    BY <1>4 DEF Unlock
  <2>7. \A u \in Threads : \A k \in DOMAIN stack[u] :
            \/ stack[u][k].detached = <<>>
            \/ \E j \in DOMAIN stack'[u] : stack'[u][j].detached = stack[u][k].detached
    <3> SUFFICES ASSUME NEW u \in Threads, NEW k \in DOMAIN stack[u], stack[u][k].detached # <<>>
                 PROVE  \E j \in DOMAIN stack'[u] : stack'[u][j].detached = stack[u][k].detached
      OBVIOUS
    <3>1. CASE u = t
      BY <2>4, <2>5, <3>1
    <3>2. CASE u # t
      BY <2>5, <3>2
    <3>3. QED
      BY <3>1, <3>2
  <2>8. \A u \in Threads : \A k \in DOMAIN stack'[u] :
            \E j \in DOMAIN stack[u] : stack'[u][k].detached = stack[u][j].detached
    BY <2>5
  <2>9. ListsOK' /\ Complete'
    BY <2>6, <2>7, <2>8, ListsStay
  <2>10. QED
    BY <1>1, <2>1, <2>9 DEF IInv
<1>5. ASSUME NEW t \in Threads, Runtime(t), ~ Unlock(t)
      PROVE  IInv'
  <2>1. PICK f : Turns(t, f)
    BY <1>5, RuntimeTurns
  <2>2. StacksOK' /\ LockOK' /\ LoadingOK' /\ ImagesOK'
    BY <2>1, TurnsKeep
  <2>3. /\ 1 \in DOMAIN stack[t] /\ Top(t) = stack[t][1] /\ Top(t) \in Frame
        /\ stack[t] \in Seq(Frame)
    BY <1>a, <2>1, TopOfStack DEF Turns
  <2>4. /\ \A u \in Threads : DOMAIN stack'[u] = DOMAIN stack[u]
        /\ \A u \in Threads : \A k \in DOMAIN stack[u] :
                stack'[u][k] = IF u = t /\ k = 1 THEN f ELSE stack[u][k]
    BY <1>a, <2>1, Becoming DEF Turns
  <2>5. \A g : Become(t, g) => g = f
    <3> SUFFICES ASSUME NEW g, Become(t, g)
                 PROVE  g = f
      OBVIOUS
    <3>1. PICK r : r = Tail(stack[t])
      OBVIOUS
    <3>2. r \in Seq(Frame)
      BY <2>1, <2>3, <3>1 DEF Turns
    <3>3. stack' = [stack EXCEPT ![t] = <<g>> \o r] /\ stack' = [stack EXCEPT ![t] = <<f>> \o r]
      BY <2>1, <3>1 DEF Become, Turns
    <3>4. stack'[t] = <<g>> \o r /\ stack'[t] = <<f>> \o r
      BY <1>a, <3>3 DEF TypeOK
    <3>5. (<<g>> \o r)[1] = g /\ (<<f>> \o r)[1] = f
      BY <3>2
    <3>6. QED
      BY <3>4, <3>5
  <2>6. ASSUME f.detached = Top(t).detached,
               UNCHANGED <<called, classes, categories, marked, prepared>>
        PROVE  ListsOK' /\ Complete'
    <3>1. \A u \in Threads : \A k \in DOMAIN stack[u] : stack'[u][k].detached = stack[u][k].detached
      BY <2>3, <2>4, <2>6
    <3>2. QED
      BY <2>4, <2>6, <3>1, ListsStay
  <2>7. ListsOK' /\ Complete'
    <3>1. CASE Lock(t)
      <4>1. f = [Top(t) EXCEPT !.at = "prepare"]
        BY <2>5, <3>1 DEF Lock
      <4>2. f.detached = Top(t).detached
        BY <2>3, <4>1 DEF Frame
      <4>3. QED
        BY <2>6, <3>1, <4>2 DEF Lock
    <3>2. CASE Prepare(t)
      <4>1. f = [Top(t) EXCEPT !.at = IF Reentrant THEN "unlock" ELSE "loop"]
        BY <2>5, <3>2 DEF Prepare
      <4>2. f.detached = <<>>
        BY <2>1, <2>3, <4>1 DEF Frame, Turns, FrameOK, Calling
      <4>3. QED
        BY <2>1, <3>2, <4>2, PrepareKeepsLists
    <3>3. CASE DetachClasses(t)
      <4>1. f = [Top(t) EXCEPT !.at = "classLoads", !.detached = classes]
        BY <2>5, <3>3 DEF DetachClasses
      <4>2. f.detached = classes /\ Top(t).at \in Working
        BY <2>3, <3>3, <4>1 DEF Frame, DetachClasses, At, Working
      <4>3. QED
        BY <2>1, <3>3, <4>2, RunKeepsLists
    <3>4. CASE DetachCategories(t)
      <4>1. f = [Top(t) EXCEPT !.at = "categoryLoads", !.detached = categories]
        BY <2>5, <3>4 DEF DetachCategories
      <4>2. f.detached = categories /\ Top(t).at \in Working
        BY <2>3, <3>4, <4>1 DEF Frame, DetachCategories, At, Working
      <4>3. QED
        BY <2>1, <3>4, <4>2, RunKeepsLists
    <3>5. CASE CallLoad(t)
      <4>1. /\ f = [Top(t) EXCEPT !.running = Head(Top(t).detached),
                                  !.detached = Tail(Top(t).detached)]
            /\ Top(t).detached # <<>>
        BY <2>5, <3>5 DEF CallLoad
      <4>2. f.detached = Tail(Top(t).detached) /\ Top(t).at \in Working
        BY <2>3, <3>5, <4>1 DEF Frame, CallLoad, At, Working
      <4>3. QED
        BY <2>1, <3>5, <4>1, <4>2, RunKeepsLists
    <3>6. CASE LoadReturns(t)
      <4>1. f = [Top(t) EXCEPT !.running = None]
        BY <2>5, <3>6 DEF LoadReturns
      <4>2. f.detached = Top(t).detached
        BY <2>3, <4>1 DEF Frame
      <4>3. QED
        BY <2>6, <3>6, <4>2 DEF LoadReturns
    <3>7. CASE EndClasses(t)
      <4>1. f = [Top(t) EXCEPT !.at = "loop"]
        BY <2>5, <3>7 DEF EndClasses
      <4>2. f.detached = Top(t).detached
        BY <2>3, <4>1 DEF Frame
      <4>3. QED
        BY <2>6, <3>7, <4>2 DEF EndClasses
    <3>8. CASE EndCategories(t)
      <4>1. f = [Top(t) EXCEPT !.at = IF MoreToLoad THEN "loop" ELSE "unlock"]
        BY <2>5, <3>8 DEF EndCategories
      <4>2. f.detached = Top(t).detached
        BY <2>3, <4>1 DEF Frame
      <4>3. QED
        BY <2>6, <3>8, <4>2 DEF EndCategories
    <3>9. QED
      BY <1>5, <3>1, <3>2, <3>3, <3>4, <3>5, <3>6, <3>7, <3>8 DEF Runtime
  <2>8. QED
    BY <1>1, <2>2, <2>7 DEF IInv
<1>6. QED
    BY <1>2, <1>3, <1>4, <1>5 DEF Next

THEOREM InvariantHolds == Spec => []IInv
<1>1. Init => IInv
    BY InitIInv
<1>2. IInv /\ [Next]_vars => IInv'
    BY NextIInv
<1>3. QED
    BY <1>1, <1>2, PTL DEF Spec

-----------------------------------------------------------------------------
(* What follows from it.                                                   *)

\* The variables stay in their types, so that loadable_classes only ever holds
\* classes with a +load method, and loadMethodLock is not given up too often.
THEOREM TypeCorrect == Spec => []TypeOK
<1>1. IInv => TypeOK
    BY DEF IInv
<1>2. QED
    BY <1>1, InvariantHolds, PTL

\* One +load method runs at a time, in the thread that holds loadMethodLock:
\* an image that it announces is only scheduled.
THEOREM OneLoadAtATimeCorrect == Spec => []OneLoadAtATime
<1>1. ASSUME IInv
      PROVE  OneLoadAtATime
  <2>a. TypeOK /\ StacksOK
    BY <1>1 DEF IInv
  <2>1. ASSUME NEW t \in Threads, NEW k \in DOMAIN stack[t], stack[t][k].running # None
        PROVE  lock = t /\ stack[t][k].at \in Working /\ stack[t] # <<>>
    <3>1. stack[t][k].at \in Calling /\ lock = t
      BY <2>a, <2>1 DEF StacksOK, StackOK, FrameOK, Calling
    <3>2. QED
      BY <3>1 DEF Calling, Working
  <2>2. ASSUME NEW t \in Threads, lock # t, InLoad(t)
        PROVE  FALSE
    <3>1. 1 \in DOMAIN stack[t] /\ Top(t) = stack[t][1]
      BY <2>a, <2>2, TopOfStack DEF InLoad
    <3>2. QED
      BY <2>1, <2>2, <3>1 DEF InLoad
  <2>3. ASSUME NEW f \in Running, NEW g \in Running
        PROVE  f = g
    <3>1. PICK t \in Threads : f \in ToSet(stack[t]) /\ f.running # None
      BY DEF Running
    <3>2. PICK k \in DOMAIN stack[t] : f = stack[t][k]
      BY <3>1 DEF ToSet
    <3>3. PICK u \in Threads : g \in ToSet(stack[u]) /\ g.running # None
      BY DEF Running
    <3>4. PICK j \in DOMAIN stack[u] : g = stack[u][j]
      BY <3>3 DEF ToSet
    <3>5. t = u /\ stack[t] # <<>>
      BY <2>1, <3>1, <3>2, <3>3, <3>4
    <3>6. /\ stack[t] \in Seq(Frame) /\ Len(stack[t]) \in Nat /\ DOMAIN stack[t] = 1..Len(stack[t])
          /\ Top(t) = stack[t][1] /\ 1 \in DOMAIN stack[t]
      BY <2>a, <3>5, TopOfStack
    <3>7. Len(stack[t]) <= 2
      BY <2>a DEF StacksOK, StackOK
    <3>8. k \in {1, 2} /\ j \in {1, 2}
      BY <3>5, <3>6, <3>7
    <3>9. k = j
      <4> SUFFICES ASSUME k # j
                   PROVE  FALSE
        OBVIOUS
      <4>1. 2 \in DOMAIN stack[t] /\ stack[t][1].running # None
        BY <3>1, <3>2, <3>3, <3>4, <3>5, <3>8
      <4>2. Len(stack[t]) = 2
        <5>1. PICK n \in Nat : n = Len(stack[t])
          BY <3>6
        <5>2. 2 \in 1..n /\ n <= 2
          BY <3>6, <3>7, <4>1, <5>1
        <5>3. n = 2
          BY <5>2
        <5>4. QED
          BY <5>1, <5>3
      <4>3. stack[t][1].at \notin Working
        BY <2>a, <4>2 DEF StacksOK, StackOK
      <4>4. QED
        BY <2>1, <3>6, <4>1, <4>3
    <3>10. QED
      BY <3>2, <3>4, <3>5, <3>9
  <2>4. Cardinality(Running) <= 1
    <3>1. CASE Running = {}
      BY <3>1, FS_EmptySet
    <3>2. CASE Running # {}
      <4>1. PICK f : Running = {f}
        BY <2>3, <3>2
      <4>2. QED
        BY <4>1, FS_Singleton
    <3>3. QED
      BY <3>1, <3>2
  <2>5. QED
    BY <2>2, <2>4 DEF OneLoadAtATime
<1>2. QED
    BY <1>1, InvariantHolds, PTL

\* No +load method is called twice, however often its class was found while
\* those of its subclasses and its image were scheduled.
THEOREM CalledOnceCorrect == Spec => []CalledOnce
<1>1. IInv => CalledOnce
    BY DEF IInv, ListsOK, GoodList, CalledOnce
<1>2. QED
    BY <1>1, InvariantHolds, PTL

\* The +load methods of a class's ancestors are called before its own, in
\* whichever order and nesting the images were announced.
THEOREM SuperclassFirstCorrect == Spec => []SuperclassFirst
<1>1. ASSUME IInv
      PROVE  SuperclassFirst
  <2> SUFFICES ASSUME NEW n \in DOMAIN called, called[n] \in Classes,
                      NEW c \in Ancestors[called[n]] \cap HasLoad
               PROVE  CalledBefore(c, n)
    BY DEF SuperclassFirst
  <2>1. Needs[called[n]] \subseteq Before(called, n)
    BY <1>1 DEF IInv, ListsOK, GoodList
  <2>2. Needs[called[n]] = Ancestors[called[n]] \cap HasLoad
    BY DEF Needs, Methods
  <2>3. c \in Before(called, n)
    BY <2>1, <2>2
  <2>4. QED
    BY <2>3 DEF Before, CalledBefore
<1>2. QED
    BY <1>1, InvariantHolds, PTL

\* The +load methods of all classes in an image are called before those of the
\* image's categories.
THEOREM ImagesClassesFirstCorrect == Spec => []ImagesClassesFirst
<1>1. ASSUME IInv
      PROVE  ImagesClassesFirst
  <2> SUFFICES ASSUME NEW n \in DOMAIN called, NEW i \in Images,
                      called[n] \in ToSet(NonlazyCategories[i]),
                      NEW c \in ToSet(NonlazyClasses[i])
               PROVE  CalledBefore(c, n)
    BY DEF ImagesClassesFirst
  <2>1. Needs[called[n]] \subseteq Before(called, n)
    BY <1>1 DEF IInv, ListsOK, GoodList
  <2>2. called[n] \in Categories
    BY LoadMethodsAssumption DEF LoadMethodsAssumption, ToSet
  <2>3. called[n] \in Methods /\ called[n] \notin Classes
    BY <2>2, LoadMethodsAssumption DEF LoadMethodsAssumption, Methods
  <2>4. c \in Needs[called[n]]
    BY <2>3 DEF Needs
  <2>5. c \in Before(called, n)
    BY <2>1, <2>4
  <2>6. QED
    BY <2>5 DEF Before, CalledBefore
<1>2. QED
    BY <1>1, InvariantHolds, PTL

\* When nobody holds loadMethodLock, every method of the prepared images has
\* been called, also what was scheduled while others ran.
THEOREM NoneForgottenCorrect == Spec => []NoneForgotten
<1>1. ASSUME IInv, lock = None
      PROVE  /\ ~ loading
             /\ \A i \in prepared :
                  ToSet(NonlazyClasses[i]) \cup ToSet(NonlazyCategories[i]) \subseteq ToSet(called)
  <2>a. TypeOK /\ StacksOK /\ LoadingOK /\ Complete
    BY <1>1 DEF IInv
  <2>1. ASSUME NEW t \in Threads, NEW k \in DOMAIN stack[t]
        PROVE  stack[t][k].at = "lock" /\ stack[t][k].detached = <<>>
    <3>1. FrameOK(t, stack[t][k], lock)
      BY <2>a DEF StacksOK, StackOK
    <3>2. lock # t
      BY <1>1, LoadMethodsAssumption DEF LoadMethodsAssumption
    <3>3. QED
      BY <3>1, <3>2 DEF FrameOK, Calling
  <2>2. ~ loading /\ classes = <<>> /\ categories = <<>>
    BY <2>a, <2>1 DEF LoadingOK, Working
  <2>3. ToSet(<<>>) = {}
    BY DEF ToSet
  <2>4. Detached = {}
    BY <2>1, <2>3, DetachedBy
  <2>5. Taken = ToSet(called) /\ ToSet(classes) = {} /\ ToSet(categories) = {}
    BY <2>2, <2>3, <2>4 DEF Taken
  <2>6. ASSUME NEW i \in prepared
        PROVE  ToSet(NonlazyClasses[i]) \cup ToSet(NonlazyCategories[i]) \subseteq ToSet(called)
    <3>1. i \in Images
      BY <2>a DEF TypeOK
    <3>2. ToSet(NonlazyClasses[i]) \subseteq HasLoad
      BY <3>1, LoadMethodsAssumption DEF LoadMethodsAssumption, ToSet
    <3>3. ToSet(NonlazyClasses[i]) \subseteq ToSet(called)
      BY <2>a, <2>5, <3>2 DEF Complete
    <3>4. ToSet(NonlazyCategories[i]) \subseteq ToSet(called)
      BY <2>a, <2>5 DEF Complete
    <3>5. QED
      BY <3>3, <3>4
  <2>7. QED
    BY <2>2, <2>6
<1>2. IInv => NoneForgotten
    BY <1>1 DEF NoneForgotten
<1>3. QED
    BY <1>2, InvariantHolds, PTL

-----------------------------------------------------------------------------
(* DebuggerMode: the locks and how often they are taken.                   *)

LEMMA LocksAre ==
    /\ Locks = {"loadMethodLock", "runtimeLock", "cacheUpdateLock", "selLock"}
    /\ Kinds("cacheUpdateLock") = {"MUTEX"}
    /\ Kinds("loadMethodLock") = {"RECURSIVE"}
    /\ Kinds("runtimeLock") = {"RDLOCK", "WRLOCK"}
    /\ Kinds("selLock") = {"RDLOCK", "WRLOCK"}
BY DEF Locks, Rank, Kinds

\* The kinds of lock are told apart; an entry is a lock and one of its kinds.
LEMMA EntriesAre ==
    /\ \A l \in Locks : \A k \in Kinds(l) : <<l, k>> \in Entries
    /\ \A e \in Entries : e[1] \in Locks /\ e[2] \in Kinds(e[1]) /\ e = <<e[1], e[2]>>
    /\ \A l \in Locks : RDWR[l] \in Kinds(l)
BY LocksAre DEF Entries, RDWR

LEMMA TimesType ==
    /\ DebuggerTypeOK => \A t \in Traced, e \in Entries : Times(t, e) \in Nat
    /\ DebuggerTypeOK' => \A t \in Traced, e \in Entries : Times(t, e)' \in Nat
BY DEF DebuggerTypeOK, Times, InCall, ByDebugger

\* What a lock is taken, from what its entries are.
LEMMA TakenSame ==
    ASSUME NEW t \in Traced, NEW l \in Locks,
           \A k \in Kinds(l) : Times(t, <<l, k>>)' = Times(t, <<l, k>>)
    PROVE  TimesTaken(t, l)' = TimesTaken(t, l)
BY DEF TimesTaken

LEMMA KindsAre == \A l \in Locks : Kinds(l) \subseteq {"MUTEX", "RECURSIVE", "RDLOCK", "WRLOCK"}
BY LocksAre

LEMMA TakenAtLeast ==
    ASSUME DebuggerTypeOK, NEW t \in Traced, NEW l \in Locks, NEW k \in Kinds(l)
    PROVE  TimesTaken(t, l) \in Nat /\ TimesTaken(t, l) >= Times(t, <<l, k>>)
<1>1. \A j \in Kinds(l) : Times(t, <<l, j>>) \in Nat
    BY TimesType, EntriesAre
<1>2. k \in {"MUTEX", "RECURSIVE", "RDLOCK", "WRLOCK"}
    BY KindsAre
<1> DEFINE n(j) == IF j \in Kinds(l) THEN Times(t, <<l, j>>) ELSE 0
<1>3. TimesTaken(t, l) = n("MUTEX") + n("RECURSIVE") + n("RDLOCK") + n("WRLOCK")
    BY DEF TimesTaken
<1>4. \A j : n(j) \in Nat
    BY <1>1
<1>5. n(k) = Times(t, <<l, k>>)
    OBVIOUS
<1> HIDE DEF n
<1>6. QED
    BY <1>2, <1>3, <1>4, <1>5

LEMMA TakenChanged ==
    ASSUME DebuggerTypeOK, DebuggerTypeOK', NEW t \in Traced, NEW l \in Locks, NEW k \in Kinds(l),
           \A j \in Kinds(l) : j # k => Times(t, <<l, j>>)' = Times(t, <<l, j>>)
    PROVE  /\ TimesTaken(t, l) \in Nat /\ TimesTaken(t, l)' \in Nat
           /\ TimesTaken(t, l)' - Times(t, <<l, k>>)' = TimesTaken(t, l) - Times(t, <<l, k>>)
           /\ TimesTaken(t, l) >= Times(t, <<l, k>>)
<1>1. \A j \in Kinds(l) : Times(t, <<l, j>>) \in Nat /\ Times(t, <<l, j>>)' \in Nat
    BY TimesType, EntriesAre
<1>2. k \in {"MUTEX", "RECURSIVE", "RDLOCK", "WRLOCK"}
    BY KindsAre
<1> DEFINE n(j) == IF j \in Kinds(l) THEN Times(t, <<l, j>>) ELSE 0
<1> DEFINE m(j) == IF j \in Kinds(l) THEN Times(t, <<l, j>>)' ELSE 0
<1>3. /\ TimesTaken(t, l) = n("MUTEX") + n("RECURSIVE") + n("RDLOCK") + n("WRLOCK")
      /\ TimesTaken(t, l)' = m("MUTEX") + m("RECURSIVE") + m("RDLOCK") + m("WRLOCK")
    BY DEF TimesTaken
<1>4. \A j : n(j) \in Nat /\ m(j) \in Nat /\ (j # k => n(j) = m(j))
    BY <1>1
<1>5. n(k) = Times(t, <<l, k>>) /\ m(k) = Times(t, <<l, k>>)'
    OBVIOUS
<1> HIDE DEF n, m
<1>6. QED
    BY <1>2, <1>3, <1>4, <1>5

-----------------------------------------------------------------------------
(* The invariant: the accounts of the locks, and what they rest on: a       *)
(* mutex without owner is not locked, debugger mode is on only while the    *)
(* program is stopped, and a build without the checks keeps no lists.       *)

MutexesOK == \A l \in Locks : mutex[l].owner = Nobody <=> mutex[l].depth = 0

ModeOK ==
    /\ DebuggerMode = "OFF" => debugger = {} /\ DebuggerModeThread = Nobody
    /\ DebuggerMode # "OFF" => /\ stopped
                               /\ DebuggerModeThread \in Traced
                               /\ DebuggerModeCount # 0

UnlistedOK == ~ checked => \A t \in Traced, e \in Entries : lockList[t][e] = 0

Inv == DebuggerTypeOK /\ MutexesOK /\ ModeOK /\ UnlistedOK /\ LocksAreAccounted

LEMMA InitInv == DebuggerInit => Inv
<1> SUFFICES ASSUME DebuggerInit
             PROVE  Inv
    OBVIOUS
<1> USE DebuggerModeAssumption DEF DebuggerInit
<1>1. DebuggerTypeOK
  <2>1. /\ mutex \in [Locks -> [owner : Traced \cup {Nobody}, depth : Nat]]
        /\ lockList \in [Traced -> [Entries -> Nat]]
        /\ held \in [Traced -> [Entries -> Nat]]
        /\ call \in [Traced -> Call]
    BY DEF Call
  <2>2. stopped \in BOOLEAN /\ killed \in BOOLEAN /\ checked \in BOOLEAN
    BY Zenon
  <2>3. DebuggerMode \in Modes /\ DebuggerModeCount \in 0..MaxCount
    BY DEF Modes
  <2>4. QED
    BY <2>1, <2>2, <2>3 DEF DebuggerTypeOK
<1>2. MutexesOK /\ ModeOK /\ UnlistedOK
    BY DEF MutexesOK, ModeOK, UnlistedOK
<1>3. ASSUME NEW t \in Traced, NEW e \in Entries
      PROVE  Times(t, e) = 0 /\ InCall(t, e, "lock") = 0 /\ ByDebugger(t, e) = 0
    BY DEF Times, InCall, ByDebugger, Idle
<1>4. ASSUME NEW t \in Traced, NEW l \in Locks
      PROVE  TimesTaken(t, l) = 0
    BY <1>3, EntriesAre, KindsAre DEF TimesTaken
<1>5. LocksAreAccounted
    BY <1>3, <1>4 DEF LocksAreAccounted, Owned
<1>6. QED
    BY <1>1, <1>2, <1>5 DEF Inv

-----------------------------------------------------------------------------
(* Lemmas: what locking and unlocking do to the mutexes and the lists.     *)

LEMMA LockedType ==
    ASSUME DebuggerTypeOK, MutexesOK, NEW t \in Traced, NEW taken \in SUBSET Locks
    PROVE  /\ Locked(t, taken) \in [Locks -> [owner : Traced \cup {Nobody}, depth : Nat]]
           /\ \A l \in Locks : Locked(t, taken)[l].owner = Nobody <=> Locked(t, taken)[l].depth = 0
BY DebuggerModeAssumption DEF Locked, DebuggerTypeOK, MutexesOK

\* Only locks that are locked are unlocked.
LEMMA UnlockedType ==
    ASSUME DebuggerTypeOK, MutexesOK, NEW taken \in SUBSET Locks,
           \A l \in taken : mutex[l].depth # 0
    PROVE  /\ Unlocked(taken) \in [Locks -> [owner : Traced \cup {Nobody}, depth : Nat]]
           /\ \A l \in Locks : Unlocked(taken)[l].owner = Nobody <=> Unlocked(taken)[l].depth = 0
<1>1. \A l \in taken : mutex[l].depth - 1 \in Nat /\ (mutex[l].depth - 1 = 0 <=> mutex[l].depth = 1)
    BY DEF DebuggerTypeOK
<1>2. QED
    BY <1>1 DEF Unlocked, DebuggerTypeOK, MutexesOK

LEMMA SetLockType ==
    ASSUME DebuggerTypeOK, UnlistedOK, NEW t \in Traced, NEW entries \in SUBSET Entries
    PROVE  /\ setLock(t, entries) \in [Traced -> [Entries -> Nat]]
           /\ ~ checked => setLock(t, entries) = lockList
           /\ checked => \A u \in Traced, e \in Entries :
                setLock(t, entries)[u][e] =
                    lockList[u][e] + IF u = t /\ e \in entries THEN 1 ELSE 0
<1>1. lockList \in [Traced -> [Entries -> Nat]]
    BY DEF DebuggerTypeOK
<1>2. ASSUME ~ checked
      PROVE  setLock(t, entries) = lockList
  <2>1. Listed(entries) = {}
    BY <1>2 DEF Listed
  <2>2. [e \in Entries |-> IF e \in {} THEN lockList[t][e] + 1 ELSE lockList[t][e]] = lockList[t]
    BY <1>1
  <2>3. QED
    BY <1>1, <2>1, <2>2 DEF setLock
<1>3. ASSUME checked
      PROVE  Listed(entries) = entries
    BY <1>3 DEF Listed
<1>4. QED
    BY <1>1, <1>2, <1>3 DEF setLock

LEMMA ClearLockType ==
    ASSUME DebuggerTypeOK, UnlistedOK, NEW t \in Traced, NEW entries \in SUBSET Entries,
           checked => \A e \in entries : lockList[t][e] # 0
    PROVE  /\ clearLock(t, entries) \in [Traced -> [Entries -> Nat]]
           /\ ~ checked => clearLock(t, entries) = lockList
           /\ checked => \A u \in Traced, e \in Entries :
                clearLock(t, entries)[u][e] =
                    lockList[u][e] - IF u = t /\ e \in entries THEN 1 ELSE 0
<1>1. lockList \in [Traced -> [Entries -> Nat]]
    BY DEF DebuggerTypeOK
<1>2. ASSUME ~ checked
      PROVE  clearLock(t, entries) = lockList
  <2>1. Listed(entries) = {}
    BY <1>2 DEF Listed
  <2>2. [e \in Entries |-> IF e \in {} THEN lockList[t][e] - 1 ELSE lockList[t][e]] = lockList[t]
    BY <1>1
  <2>3. QED
    BY <1>1, <2>1, <2>2 DEF clearLock
<1>3. ASSUME checked
      PROVE  Listed(entries) = entries
    BY <1>3 DEF Listed
<1>4. QED
    BY <1>1, <1>2, <1>3 DEF clearLock

\* Locking and unlocking in the accounts: of the mutexes, and of the entries.
LEMMA LockAccounts ==
    ASSUME DebuggerTypeOK, MutexesOK, NEW t \in Traced, NEW taken \in SUBSET Locks,
           \A k \in taken : Lockable(t, k),
           NEW u \in Traced, NEW l \in Locks
    PROVE  Owned(Locked(t, taken), u, l) =
               Owned(mutex, u, l)
                   + IF u = t /\ l \in taken THEN 1 ELSE 0
<1>1. mutex[l].depth \in Nat /\ (mutex[l].owner = Nobody => mutex[l].depth = 0)
    BY DEF DebuggerTypeOK, MutexesOK
<1>2. CASE l \in taken
  <2>1. Locked(t, taken)[l] = [owner |-> t, depth |-> mutex[l].depth + 1]
    BY <1>2 DEF Locked, Owned
  <2>2. mutex[l].owner \in {t, Nobody} /\ u # Nobody
    BY <1>2, DebuggerModeAssumption DEF Lockable
  <2>3. QED
    BY <1>1, <1>2, <2>1, <2>2 DEF Owned
<1>3. CASE l \notin taken
    BY <1>1, <1>3 DEF Locked, Owned
<1>4. QED
    BY <1>2, <1>3

LEMMA UnlockAccounts ==
    ASSUME DebuggerTypeOK, MutexesOK, NEW t \in Traced, NEW taken \in SUBSET Locks,
           \A k \in taken : mutex[k].owner = t,
           NEW u \in Traced, NEW l \in Locks
    PROVE  Owned(Unlocked(taken), u, l) =
               Owned(mutex, u, l)
                   - IF u = t /\ l \in taken THEN 1 ELSE 0
<1>1. mutex[l].depth \in Nat /\ (mutex[l].depth = 0 => mutex[l].owner = Nobody)
    BY DEF DebuggerTypeOK, MutexesOK
<1>2. CASE l \in taken
  <2>1. Unlocked(taken)[l] = [owner |-> IF mutex[l].depth = 1 THEN Nobody ELSE mutex[l].owner,
                     depth |-> mutex[l].depth - 1]
    BY <1>2 DEF Unlocked, Owned
  <2>2. mutex[l].owner = t /\ t # Nobody /\ u # Nobody
    BY <1>2, DebuggerModeAssumption
  <2>3. QED
    BY <1>1, <1>2, <2>1, <2>2 DEF Owned
<1>3. CASE l \notin taken
    BY <1>1, <1>3 DEF Unlocked, Owned
<1>4. QED
    BY <1>2, <1>3

\* Of each lock of a set one entry.
OneEach(taken, entries) ==
    /\ \A k \in taken : \E j \in Kinds(k) :
          \A i \in Kinds(k) : <<k, i>> \in entries <=> i = j
    /\ \A e \in entries : e[1] \in taken

\* The entries are taken on t once more, or once less.
TimesMore(t, entries) ==
    \A u \in Traced, e \in Entries :
        Times(u, e)' = Times(u, e) + IF u = t /\ e \in entries THEN 1 ELSE 0

TimesLess(t, entries) ==
    \A u \in Traced, e \in Entries :
        Times(u, e)' = Times(u, e) - IF u = t /\ e \in entries THEN 1 ELSE 0

LEMMA TakenMore ==
    ASSUME DebuggerTypeOK, DebuggerTypeOK', NEW t \in Traced, NEW taken \in SUBSET Locks,
           NEW entries \in SUBSET Entries,
           OneEach(taken, entries),
           TimesMore(t, entries),
           NEW u \in Traced, NEW l \in Locks
    PROVE  TimesTaken(u, l)' = TimesTaken(u, l) + IF u = t /\ l \in taken THEN 1 ELSE 0
<1>1. \A k \in Kinds(l) : <<l, k>> \in Entries /\ Times(u, <<l, k>>) \in Nat
    BY EntriesAre, TimesType
<1>2. CASE u = t /\ l \in taken
  <2>1. PICK k \in Kinds(l) : \A j \in Kinds(l) : <<l, j>> \in entries <=> j = k
    BY <1>2 DEF OneEach
  <2>2. \A j \in Kinds(l) : j # k => Times(u, <<l, j>>)' = Times(u, <<l, j>>)
    BY <1>1, <2>1 DEF TimesMore
  <2>3. Times(u, <<l, k>>)' = Times(u, <<l, k>>) + 1
    BY <1>1, <1>2, <2>1 DEF TimesMore
  <2>4. QED
    BY <1>1, <1>2, <2>2, <2>3, TakenChanged
<1>3. CASE ~ (u = t /\ l \in taken)
  <2>1. \A k \in Kinds(l) : ~ (u = t /\ <<l, k>> \in entries)
    BY <1>3 DEF OneEach
  <2>2. \A k \in Kinds(l) : Times(u, <<l, k>>)' = Times(u, <<l, k>>)
    BY <1>1, <2>1 DEF TimesMore
  <2>3. PICK k \in Kinds(l) : TRUE
    BY EntriesAre
  <2>4. TimesTaken(u, l) \in Nat
    BY <2>2, <2>3, TakenChanged
  <2>5. TimesTaken(u, l)' = TimesTaken(u, l)
    BY <2>2, TakenSame
  <2>6. QED
    BY <1>3, <2>4, <2>5
<1>4. QED
    BY <1>2, <1>3

LEMMA TakenLess ==
    ASSUME DebuggerTypeOK, DebuggerTypeOK', NEW t \in Traced, NEW taken \in SUBSET Locks,
           NEW entries \in SUBSET Entries,
           OneEach(taken, entries),
           TimesLess(t, entries),
           NEW u \in Traced, NEW l \in Locks
    PROVE  TimesTaken(u, l)' = TimesTaken(u, l) - IF u = t /\ l \in taken THEN 1 ELSE 0
<1>1. \A k \in Kinds(l) : <<l, k>> \in Entries /\ Times(u, <<l, k>>) \in Nat
    BY EntriesAre, TimesType
<1>2. CASE u = t /\ l \in taken
  <2>1. PICK k \in Kinds(l) : \A j \in Kinds(l) : <<l, j>> \in entries <=> j = k
    BY <1>2 DEF OneEach
  <2>2. \A j \in Kinds(l) : j # k => Times(u, <<l, j>>)' = Times(u, <<l, j>>)
    BY <1>1, <2>1 DEF TimesLess
  <2>3. Times(u, <<l, k>>)' = Times(u, <<l, k>>) - 1
    BY <1>1, <1>2, <2>1 DEF TimesLess
  <2>4. QED
    BY <1>1, <1>2, <2>2, <2>3, TakenChanged
<1>3. CASE ~ (u = t /\ l \in taken)
  <2>1. \A k \in Kinds(l) : ~ (u = t /\ <<l, k>> \in entries)
    BY <1>3 DEF OneEach
  <2>2. \A k \in Kinds(l) : Times(u, <<l, k>>)' = Times(u, <<l, k>>)
    BY <1>1, <2>1 DEF TimesLess
  <2>3. PICK k \in Kinds(l) : TRUE
    BY EntriesAre
  <2>4. TimesTaken(u, l) \in Nat
    BY <2>2, <2>3, TakenChanged
  <2>5. TimesTaken(u, l)' = TimesTaken(u, l)
    BY <2>2, TakenSame
  <2>6. QED
    BY <1>3, <2>4, <2>5
<1>4. QED
    BY <1>2, <1>3

\* A single entry.
LEMMA OneEntry ==
    ASSUME NEW e \in Entries
    PROVE  \E taken \in SUBSET Locks, entries \in SUBSET Entries :
              /\ taken = {e[1]} /\ entries = {e}
              /\ OneEach(taken, entries)
<1>1. e[1] \in Locks /\ e[2] \in Kinds(e[1]) /\ e = <<e[1], e[2]>>
    BY EntriesAre
<1>2. \A j \in Kinds(e[1]) : <<e[1], j>> \in {e} <=> j = e[2]
    BY <1>1
<1>3. {e[1]} \in SUBSET Locks /\ {e} \in SUBSET Entries
    BY <1>1
<1>4. OneEach({e[1]}, {e})
    BY <1>1, <1>2 DEF OneEach
<1>5. QED
    BY <1>3, <1>4, Zenon

-----------------------------------------------------------------------------
(* The steps of the program.                                               *)

LEMMA InvFacts ==
    ASSUME Inv
    PROVE  /\ DebuggerTypeOK /\ MutexesOK /\ ModeOK /\ UnlistedOK /\ ~ killed
           /\ \A t \in Traced, l \in Locks :
                Owned(mutex, t, l) = TimesTaken(t, l)
           /\ checked => \A t \in Traced, e \in Entries :
                lockList[t][e] = held[t][e] + InCall(t, e, "lock") + ByDebugger(t, e)
BY DEF Inv, LocksAreAccounted

\* No thread is killed for a lock that it takes in order.
LEMMA NeverDies ==
    ASSUME Inv, NEW t \in Traced, NEW e \in Entries, RunsAt(t, "idle")
    PROVE  /\ MayLock(t, e) => ~ Relocks(t, e)
           /\ held[t][e] > 0 => (checked => hasLock(t, e))
<1>1. DebuggerModeThread = Nobody
    BY InvFacts DEF ModeOK, RunsAt
<1>2. \A f \in Entries : checked => lockList[t][f] = held[t][f]
  <2>1. \A f \in Entries : InCall(t, f, "lock") = 0 /\ ByDebugger(t, f) = 0
    BY <1>1, DebuggerModeAssumption DEF InCall, ByDebugger, RunsAt
  <2>2. QED
    BY <2>1, InvFacts DEF DebuggerTypeOK
<1>3. ASSUME MayLock(t, e), Relocks(t, e)
      PROVE  FALSE
  <2>1. PICK k \in Kinds(e[1]) : hasLock(t, <<e[1], k>>)
    BY <1>3 DEF Relocks
  <2>2. <<e[1], k>> \in Entries /\ e[1] # "loadMethodLock" /\ e[1] \in Locks
    BY <1>3, EntriesAre DEF Relocks
  <2>3. held[t][<<e[1], k>>] > 0
    BY <1>2, <2>1, <2>2, InvFacts DEF hasLock, UnlistedOK
  <2>4. Rank[e[1]] < Rank[e[1]]
    BY <1>3, <2>2, <2>3 DEF MayLock
  <2>5. QED
    BY <2>2, <2>4 DEF Rank, Locks
<1>4. QED
    BY <1>2, <1>3 DEF hasLock

LEMMA AllOK ==
    ASSUME DebuggerTypeOK', MutexesOK', ModeOK', UnlistedOK', ~ killed',
           \A t \in Traced, l \in Locks :
              Owned(mutex', t, l) = TimesTaken(t, l)',
           checked' => \A t \in Traced, e \in Entries :
              lockList'[t][e] = held'[t][e] + InCall(t, e, "lock")' + ByDebugger(t, e)'
    PROVE  Inv'
BY DEF Inv, LocksAreAccounted

LEMMA CallsAre ==
    /\ Idle \in Call /\ Idle.at = "idle"
    /\ \A e \in Entries : [at |-> "lock", entry |-> e] \in Call /\ [at |-> "unlock", entry |-> e] \in Call
    /\ \A c \in Call : c.at \in {"lock", "unlock"} => c.entry \in Entries
BY DEF Call, Idle

LEMMA StartLockStep ==
    ASSUME Inv, UNCHANGED checked, NEW t \in Traced, NEW e \in Entries, StartLock(t, e)
    PROVE  Inv'
<1> USE InvFacts
<1>1. /\ RunsAt(t, "idle") /\ lockList' = setLock(t, {e})
      /\ call' = [call EXCEPT ![t] = [at |-> "lock", entry |-> e]]
      /\ UNCHANGED <<mutex, held, killed>> /\ UNCHANGED modeVars
    BY NeverDies DEF StartLock
<1> USE <1>1 DEF modeVars
<1>2. DebuggerTypeOK'
  <2>1. lockList' \in [Traced -> [Entries -> Nat]]
    BY SetLockType
  <2>2. call' \in [Traced -> Call]
    BY CallsAre DEF DebuggerTypeOK
  <2>3. QED
    BY <2>1, <2>2 DEF DebuggerTypeOK
<1>3. MutexesOK' /\ ModeOK' /\ ~ killed'
    BY DEF MutexesOK, ModeOK
<1>4. UnlistedOK'
    BY SetLockType DEF UnlistedOK
<1>5. ASSUME NEW u \in Traced, NEW f \in Entries
      PROVE  /\ Times(u, f)' = Times(u, f)
             /\ InCall(u, f, "lock")' = InCall(u, f, "lock") + IF u = t /\ f = e THEN 1 ELSE 0
             /\ ByDebugger(u, f)' = ByDebugger(u, f)
    BY DEF Times, InCall, ByDebugger, RunsAt, DebuggerTypeOK
<1>6. ASSUME NEW u \in Traced, NEW l \in Locks
      PROVE  Owned(mutex', u, l) = TimesTaken(u, l)'
  <2>1. TimesTaken(u, l)' = TimesTaken(u, l)
    BY <1>5, TakenSame, EntriesAre
  <2>2. QED
    BY <2>1
<1>7. ASSUME checked, NEW u \in Traced, NEW f \in Entries
      PROVE  lockList'[u][f] = held'[u][f] + InCall(u, f, "lock")' + ByDebugger(u, f)'
  <2>1. lockList'[u][f] = lockList[u][f] + IF u = t /\ f \in {e} THEN 1 ELSE 0
    BY <1>7, SetLockType
  <2>2. held[u][f] \in Nat /\ InCall(u, f, "lock") \in Nat /\ ByDebugger(u, f) \in Nat
    BY DEF DebuggerTypeOK, InCall, ByDebugger
  <2>3. QED
    BY <1>5, <1>7, <2>1, <2>2
<1>8. QED
    BY <1>2, <1>3, <1>4, <1>6, <1>7, AllOK

LEMMA FinishLockStep ==
    ASSUME Inv, UNCHANGED checked, NEW t \in Traced, FinishLock(t)
    PROVE  Inv'
<1> USE InvFacts
<1>1. PICK e \in Entries : e = call[t].entry
    BY CallsAre DEF FinishLock, RunsAt, DebuggerTypeOK
<1>2. /\ call[t].at = "lock" /\ Lockable(t, e[1]) /\ mutex' = Locked(t, {e[1]})
      /\ held' = [held EXCEPT ![t][e] = @ + 1] /\ call' = [call EXCEPT ![t] = Idle]
      /\ UNCHANGED <<lockList, killed>> /\ UNCHANGED modeVars
    BY <1>1 DEF FinishLock, RunsAt
<1> USE <1>2 DEF modeVars
<1>3. e[1] \in Locks /\ e[2] \in Kinds(e[1]) /\ e = <<e[1], e[2]>>
    BY EntriesAre
<1>4. DebuggerTypeOK' /\ MutexesOK'
  <2>1. call' \in [Traced -> Call]
    BY CallsAre DEF DebuggerTypeOK
  <2>2. held' \in [Traced -> [Entries -> Nat]]
    BY DEF DebuggerTypeOK
  <2>3. {e[1]} \in SUBSET Locks
    BY <1>3
  <2>4. /\ mutex' \in [Locks -> [owner : Traced \cup {Nobody}, depth : Nat]]
        /\ \A l \in Locks : mutex'[l].owner = Nobody <=> mutex'[l].depth = 0
    BY <2>3, LockedType
  <2>5. QED
    BY <2>1, <2>2, <2>4 DEF DebuggerTypeOK, MutexesOK
<1>5. ModeOK' /\ UnlistedOK' /\ ~ killed'
    BY DEF ModeOK, UnlistedOK
<1>6. ASSUME NEW u \in Traced, NEW f \in Entries
      PROVE  /\ Times(u, f)' = Times(u, f) + IF u = t /\ f = e THEN 1 ELSE 0
             /\ held'[u][f] + InCall(u, f, "lock")' = held[u][f] + InCall(u, f, "lock")
             /\ ByDebugger(u, f)' = ByDebugger(u, f)
  <2>1. held[u][f] \in Nat /\ held'[u][f] = held[u][f] + IF u = t /\ f = e THEN 1 ELSE 0
    BY DEF DebuggerTypeOK
  <2>2. /\ InCall(u, f, "unlock")' = InCall(u, f, "unlock")
        /\ InCall(u, f, "lock") = InCall(u, f, "lock")' + IF u = t /\ f = e THEN 1 ELSE 0
        /\ InCall(u, f, "lock")' \in Nat /\ InCall(u, f, "unlock") \in Nat
    BY <1>1, CallsAre DEF InCall, DebuggerTypeOK
  <2>3. ByDebugger(u, f)' = ByDebugger(u, f) /\ ByDebugger(u, f) \in Nat
    BY DEF ByDebugger
  <2>4. QED
    BY <2>1, <2>2, <2>3 DEF Times
<1>7. ASSUME NEW u \in Traced, NEW l \in Locks
      PROVE  Owned(mutex', u, l) = TimesTaken(u, l)'
  <2> PICK taken \in SUBSET Locks, entries \in SUBSET Entries :
              taken = {e[1]} /\ entries = {e} /\ OneEach(taken, entries)
    BY OneEntry
  <2>1. Owned(mutex', u, l) = Owned(mutex, u, l) + IF u = t /\ l \in taken THEN 1 ELSE 0
    <3>1. mutex' = Locked(t, taken) /\ \A k \in taken : Lockable(t, k)
      OBVIOUS
    <3>2. QED
      BY <3>1, LockAccounts
  <2>2. TimesTaken(u, l)' = TimesTaken(u, l) + IF u = t /\ l \in taken THEN 1 ELSE 0
    <3>1. TimesMore(t, entries)
      BY <1>6 DEF TimesMore
    <3>2. QED
      BY <1>4, <3>1, TakenMore
  <2>3. QED
    BY <2>1, <2>2
<1>8. ASSUME checked, NEW u \in Traced, NEW f \in Entries
      PROVE  lockList'[u][f] = held'[u][f] + InCall(u, f, "lock")' + ByDebugger(u, f)'
    BY <1>6, <1>8
<1>9. QED
    BY <1>4, <1>5, <1>7, <1>8, AllOK

\* An unlock is struck from the list first, and is an unlock in progress.
LEMMA StartUnlockStep ==
    ASSUME Inv, UNCHANGED checked, NEW t \in Traced, NEW e \in Entries, StartUnlock(t, e)
    PROVE  Inv'
<1> USE InvFacts
<1>1. /\ RunsAt(t, "idle") /\ held[t][e] > 0 /\ lockList' = clearLock(t, {e})
      /\ held' = [held EXCEPT ![t][e] = @ - 1]
      /\ call' = [call EXCEPT ![t] = [at |-> "unlock", entry |-> e]]
      /\ UNCHANGED <<mutex, killed>> /\ UNCHANGED modeVars
    BY NeverDies DEF StartUnlock
<1> USE <1>1 DEF modeVars
<1>2. checked => \A f \in {e} : lockList[t][f] # 0
    BY NeverDies DEF hasLock, DebuggerTypeOK
<1>3. DebuggerTypeOK'
  <2>1. lockList' \in [Traced -> [Entries -> Nat]]
    BY <1>2, ClearLockType
  <2>2. call' \in [Traced -> Call]
    BY CallsAre DEF DebuggerTypeOK
  <2>3. held' \in [Traced -> [Entries -> Nat]]
    BY DEF DebuggerTypeOK
  <2>4. QED
    BY <2>1, <2>2, <2>3 DEF DebuggerTypeOK
<1>4. MutexesOK' /\ ModeOK' /\ ~ killed'
    BY DEF MutexesOK, ModeOK
<1>5. UnlistedOK'
    BY <1>2, ClearLockType DEF UnlistedOK
<1>6. ASSUME NEW u \in Traced, NEW f \in Entries
      PROVE  /\ Times(u, f)' = Times(u, f)
             /\ held'[u][f] = held[u][f] - IF u = t /\ f \in {e} THEN 1 ELSE 0
             /\ InCall(u, f, "lock")' = InCall(u, f, "lock")
             /\ ByDebugger(u, f)' = ByDebugger(u, f)
  <2>1. /\ held[u][f] \in Nat /\ held'[u][f] \in Nat
        /\ held'[u][f] = held[u][f] - IF u = t /\ f \in {e} THEN 1 ELSE 0
    BY <1>3 DEF DebuggerTypeOK
  <2>2. /\ InCall(u, f, "unlock")' = InCall(u, f, "unlock") + IF u = t /\ f \in {e} THEN 1 ELSE 0
        /\ InCall(u, f, "lock")' = InCall(u, f, "lock")
        /\ InCall(u, f, "unlock") \in Nat
    BY DEF InCall, RunsAt, DebuggerTypeOK
  <2>3. ByDebugger(u, f)' = ByDebugger(u, f) /\ ByDebugger(u, f) \in Nat
    BY DEF ByDebugger
  <2>4. QED
    BY <2>1, <2>2, <2>3 DEF Times
<1>7. ASSUME NEW u \in Traced, NEW l \in Locks
      PROVE  Owned(mutex', u, l) = TimesTaken(u, l)'
  <2>1. TimesTaken(u, l)' = TimesTaken(u, l)
    BY <1>6, TakenSame, EntriesAre
  <2>2. QED
    BY <2>1
<1>8. ASSUME checked, NEW u \in Traced, NEW f \in Entries
      PROVE  lockList'[u][f] = held'[u][f] + InCall(u, f, "lock")' + ByDebugger(u, f)'
  <2>1. lockList'[u][f] = lockList[u][f] - IF u = t /\ f \in {e} THEN 1 ELSE 0
    BY <1>2, <1>8, ClearLockType
  <2>2. held[u][f] \in Nat /\ InCall(u, f, "lock") \in Nat /\ ByDebugger(u, f) \in Nat
    BY DEF DebuggerTypeOK, InCall, ByDebugger
  <2>3. QED
    BY <1>6, <1>8, <2>1, <2>2
<1>9. QED
    BY <1>3, <1>4, <1>5, <1>7, <1>8, AllOK

LEMMA FinishUnlockStep ==
    ASSUME Inv, UNCHANGED checked, NEW t \in Traced, FinishUnlock(t)
    PROVE  Inv'
<1> USE InvFacts
<1>1. PICK e \in Entries : e = call[t].entry
    BY CallsAre DEF FinishUnlock, RunsAt, DebuggerTypeOK
<1>2. /\ call[t].at = "unlock" /\ mutex' = Unlocked({e[1]})
      /\ call' = [call EXCEPT ![t] = Idle]
      /\ UNCHANGED <<lockList, held, killed>> /\ UNCHANGED modeVars
    BY <1>1 DEF FinishUnlock, RunsAt
<1> USE <1>2 DEF modeVars
<1>3. PICK taken \in SUBSET Locks, entries \in SUBSET Entries :
              taken = {e[1]} /\ entries = {e} /\ OneEach(taken, entries)
    BY OneEntry
<1>4. \A k \in taken : mutex[k].owner = t /\ mutex[k].depth # 0
  <2>1. e[1] \in Locks /\ e[2] \in Kinds(e[1]) /\ e = <<e[1], e[2]>>
    BY EntriesAre
  <2>2. Times(t, e) \in Nat /\ Times(t, e) # 0
    BY <1>1 DEF Times, InCall, ByDebugger, DebuggerTypeOK
  <2>3. TimesTaken(t, e[1]) \in Nat /\ TimesTaken(t, e[1]) # 0
    <3>1. PICK k : k = e[2]
      OBVIOUS
    <3>2. PICK l \in Locks : l = e[1] /\ k \in Kinds(l) /\ e = <<l, k>>
      BY <2>1, <3>1
    <3>3. \A j \in Kinds(l) : Times(t, <<l, j>>) \in Nat
      BY EntriesAre, TimesType
    <3>4. TimesTaken(t, l) \in Nat /\ TimesTaken(t, l) >= Times(t, <<l, k>>)
      BY <3>2, <3>3, TakenAtLeast
    <3>5. QED
      BY <2>2, <3>2, <3>4
  <2>4. QED
    BY <1>3, <2>1, <2>3 DEF Owned
<1>5. DebuggerTypeOK' /\ MutexesOK'
  <2>1. call' \in [Traced -> Call]
    BY CallsAre DEF DebuggerTypeOK
  <2>2. mutex' = Unlocked(taken)
    BY <1>3
  <2>3. /\ mutex' \in [Locks -> [owner : Traced \cup {Nobody}, depth : Nat]]
        /\ \A l \in Locks : mutex'[l].owner = Nobody <=> mutex'[l].depth = 0
    BY <1>4, <2>2, UnlockedType
  <2>4. QED
    BY <2>1, <2>3 DEF DebuggerTypeOK, MutexesOK
<1>6. ModeOK' /\ UnlistedOK' /\ ~ killed'
    BY DEF ModeOK, UnlistedOK
<1>7. ASSUME NEW u \in Traced, NEW f \in Entries
      PROVE  /\ Times(u, f)' = Times(u, f) - IF u = t /\ f \in entries THEN 1 ELSE 0
             /\ InCall(u, f, "lock")' = InCall(u, f, "lock")
             /\ ByDebugger(u, f)' = ByDebugger(u, f)
  <2>1. held[u][f] \in Nat
    BY DEF DebuggerTypeOK
  <2>2. /\ InCall(u, f, "unlock")' = InCall(u, f, "unlock") - IF u = t /\ f \in entries THEN 1 ELSE 0
        /\ InCall(u, f, "lock")' = InCall(u, f, "lock")
        /\ InCall(u, f, "unlock") \in Nat /\ InCall(u, f, "unlock")' \in Nat
    BY <1>1, <1>3, CallsAre DEF InCall, DebuggerTypeOK
  <2>3. ByDebugger(u, f)' = ByDebugger(u, f) /\ ByDebugger(u, f) \in Nat
    BY DEF ByDebugger
  <2>4. QED
    BY <2>1, <2>2, <2>3 DEF Times
<1>8. ASSUME NEW u \in Traced, NEW l \in Locks
      PROVE  Owned(mutex', u, l) = TimesTaken(u, l)'
  <2>1. Owned(mutex', u, l) = Owned(mutex, u, l) - IF u = t /\ l \in taken THEN 1 ELSE 0
    <3>1. mutex' = Unlocked(taken) /\ \A k \in taken : mutex[k].owner = t
      BY <1>3, <1>4
    <3>2. QED
      BY <3>1, UnlockAccounts
  <2>2. TimesTaken(u, l)' = TimesTaken(u, l) - IF u = t /\ l \in taken THEN 1 ELSE 0
    <3>1. TimesLess(t, entries)
      BY <1>7 DEF TimesLess
    <3>2. QED
      BY <1>3, <1>5, <3>1, TakenLess
  <2>3. QED
    BY <2>1, <2>2
<1>9. ASSUME checked, NEW u \in Traced, NEW f \in Entries
      PROVE  lockList'[u][f] = held'[u][f] + InCall(u, f, "lock")' + ByDebugger(u, f)'
    BY <1>7, <1>9
<1>10. QED
    BY <1>5, <1>6, <1>8, <1>9, AllOK

-----------------------------------------------------------------------------
(* The steps of gdb.                                                       *)

\* The entries of locks that debugger mode takes.
LEMMA WrittenEntries ==
    ASSUME NEW taken \in SUBSET Locks
    PROVE  Written(taken) \in SUBSET Entries /\ OneEach(taken, Written(taken))
<1>1. \A l \in Locks : <<l, RDWR[l]>> \in Entries /\ RDWR[l] \in Kinds(l)
    BY EntriesAre
<1>2. \A l \in taken : \A k : <<l, k>> \in Written(taken) <=> k = RDWR[l]
    BY DEF Written
<1>3. \A e \in Written(taken) : e \in Entries /\ e[1] \in taken
    BY <1>1 DEF Written
<1>4. QED
    BY <1>1, <1>2, <1>3 DEF OneEach

\* A start that keeps no lock changes nothing, and what it keeps it could take.
LEMMA StartDebuggerModeStep ==
    ASSUME Inv, UNCHANGED checked, NEW t \in Traced, NEW wantFull \in BOOLEAN,
           StartDebuggerMode(t, wantFull)
    PROVE  Inv'
<1> USE InvFacts
<1>1. PICK taken \in SUBSET Locks : taken = Kept(t, wantFull)
    BY DEF Kept, Available
<1>2. PICK entries \in SUBSET Entries : entries = Written(taken) /\ OneEach(taken, entries)
    BY WrittenEntries
<1>3. /\ stopped /\ DebuggerMode = "OFF" /\ mutex' = Locked(t, taken)
      /\ lockList' = setLock(t, entries)
      /\ debugger' = {l \in taken : Result(t) # "OFF"}
      /\ UNCHANGED <<held, call, stopped, hung, killed>>
    BY <1>1, <1>2 DEF StartDebuggerMode, AtPrompt
<1>4. debugger' = taken
    BY <1>1, <1>3 DEF Kept
<1>5. IF taken = {} THEN UNCHANGED <<DebuggerMode, DebuggerModeCount, DebuggerModeThread>>
      ELSE DebuggerMode' = Result(t) /\ DebuggerModeCount' = 1 /\ DebuggerModeThread' = t
    BY <1>1, <1>4 DEF StartDebuggerMode
<1>6. Result(t) \in Modes /\ (taken # {} => Result(t) # "OFF")
    BY <1>1 DEF Result, Modes, Kept
<1>7. \A k \in taken : Lockable(t, k)
    BY <1>1 DEF Kept, Available
<1>8. debugger = {} /\ DebuggerModeThread = Nobody
    BY <1>3 DEF ModeOK
<1> USE <1>3
<1>9. DebuggerTypeOK' /\ MutexesOK'
  <2>1. /\ mutex' \in [Locks -> [owner : Traced \cup {Nobody}, depth : Nat]]
        /\ \A l \in Locks : mutex'[l].owner = Nobody <=> mutex'[l].depth = 0
    BY LockedType
  <2>2. lockList' \in [Traced -> [Entries -> Nat]]
    BY SetLockType
  <2>3. /\ DebuggerMode' \in Modes /\ DebuggerModeCount' \in 0..MaxCount
        /\ DebuggerModeThread' \in Traced \cup {Nobody} /\ debugger' \subseteq Locks
    BY <1>4, <1>5, <1>6, DebuggerModeAssumption DEF DebuggerTypeOK
  <2>4. QED
    BY <2>1, <2>2, <2>3 DEF DebuggerTypeOK, MutexesOK
<1>10. ModeOK' /\ UnlistedOK' /\ ~ killed'
  <2>1. ModeOK'
    BY <1>4, <1>5, <1>6, <1>8 DEF ModeOK
  <2>2. UnlistedOK'
    BY SetLockType DEF UnlistedOK
  <2>3. QED
    BY <2>1, <2>2
<1>11. ASSUME NEW u \in Traced, NEW f \in Entries
       PROVE  /\ Times(u, f)' = Times(u, f) + IF u = t /\ f \in entries THEN 1 ELSE 0
              /\ ByDebugger(u, f)' = IF u = t /\ f \in entries THEN 1 ELSE 0
              /\ ByDebugger(u, f) = 0
  <2>1. ByDebugger(u, f) = 0
    BY <1>8, DebuggerModeAssumption DEF ByDebugger
  <2>2. ByDebugger(u, f)' = IF u = t /\ f \in entries THEN 1 ELSE 0
    <3>1. CASE taken = {}
      BY <1>2, <1>5, <1>8, <3>1, DebuggerModeAssumption DEF ByDebugger, Written
    <3>2. CASE taken # {}
      <4>1. DebuggerModeThread' = t /\ Written(debugger') = entries
        BY <1>2, <1>4, <1>5, <3>2
      <4>2. QED
        BY <4>1 DEF ByDebugger, Written
    <3>3. QED
      BY <3>1, <3>2
  <2>3. held[u][f] \in Nat /\ InCall(u, f, "unlock") \in Nat
        /\ InCall(u, f, "unlock")' = InCall(u, f, "unlock")
    BY DEF DebuggerTypeOK, InCall
  <2>4. QED
    BY <2>1, <2>2, <2>3 DEF Times
<1>12. ASSUME NEW u \in Traced, NEW l \in Locks
       PROVE  Owned(mutex', u, l) = TimesTaken(u, l)'
  <2>1. Owned(mutex', u, l) = Owned(mutex, u, l) + IF u = t /\ l \in taken THEN 1 ELSE 0
    BY <1>7, LockAccounts
  <2>2. TimesTaken(u, l)' = TimesTaken(u, l) + IF u = t /\ l \in taken THEN 1 ELSE 0
    <3>1. TimesMore(t, entries)
      BY <1>11 DEF TimesMore
    <3>2. QED
      BY <1>2, <1>9, <3>1, TakenMore
  <2>3. QED
    BY <2>1, <2>2
<1>13. ASSUME checked, NEW u \in Traced, NEW f \in Entries
       PROVE  lockList'[u][f] = held'[u][f] + InCall(u, f, "lock")' + ByDebugger(u, f)'
  <2>1. lockList'[u][f] = lockList[u][f] + IF u = t /\ f \in entries THEN 1 ELSE 0
    BY <1>13, SetLockType
  <2>2. /\ held[u][f] \in Nat /\ InCall(u, f, "lock") \in Nat
        /\ InCall(u, f, "lock")' = InCall(u, f, "lock")
    BY DEF DebuggerTypeOK, InCall
  <2>3. lockList[u][f] = held[u][f] + InCall(u, f, "lock")
    BY <1>11, <1>13, <2>2
  <2>4. QED
    BY <1>11, <2>1, <2>2, <2>3
<1>14. QED
    BY <1>9, <1>10, <1>12, <1>13, AllOK

\* The locks that are given back are those that debugger mode took on t.
LEMMA EndDebuggerModeStep ==
    ASSUME Inv, UNCHANGED checked, NEW t \in Traced, EndDebuggerMode(t), DebuggerModeCount = 1
    PROVE  Inv'
<1> USE InvFacts
<1>1. PICK taken \in SUBSET Locks : taken = debugger
    BY DEF DebuggerTypeOK
<1>2. PICK entries \in SUBSET Entries : entries = Written(taken) /\ OneEach(taken, entries)
    BY WrittenEntries
<1>3. /\ stopped /\ DebuggerModeThread = t /\ DebuggerModeCount' = 0
      /\ DebuggerMode' = "OFF" /\ DebuggerModeThread' = Nobody /\ debugger' = {}
      /\ mutex' = Unlocked(taken) /\ lockList' = clearLock(t, entries)
      /\ UNCHANGED <<held, call, stopped, hung, killed>>
    BY <1>1, <1>2 DEF EndDebuggerMode, AtPrompt, ModeOK, GivenBack
<1> USE <1>3
<1>4. ASSUME NEW u \in Traced, NEW f \in Entries
      PROVE  /\ Times(u, f)' = Times(u, f) - IF u = t /\ f \in entries THEN 1 ELSE 0
             /\ ByDebugger(u, f) = IF u = t /\ f \in entries THEN 1 ELSE 0
             /\ ByDebugger(u, f)' = 0
             /\ held[u][f] \in Nat /\ InCall(u, f, "lock") \in Nat
             /\ InCall(u, f, "unlock") \in Nat
             /\ InCall(u, f, "lock")' = InCall(u, f, "lock")
  <2>1. ByDebugger(u, f)' = 0
    BY DebuggerModeAssumption DEF ByDebugger
  <2>2. ByDebugger(u, f) = IF u = t /\ f \in entries THEN 1 ELSE 0
    BY <1>1, <1>2 DEF ByDebugger
  <2>3. /\ held[u][f] \in Nat /\ InCall(u, f, "unlock") \in Nat /\ InCall(u, f, "lock") \in Nat
        /\ InCall(u, f, "unlock")' = InCall(u, f, "unlock")
        /\ InCall(u, f, "lock")' = InCall(u, f, "lock")
    BY DEF DebuggerTypeOK, InCall
  <2>4. QED
    BY <2>1, <2>2, <2>3 DEF Times
<1>5. \A k \in taken : mutex[k].owner = t /\ mutex[k].depth # 0
  <2> SUFFICES ASSUME NEW l \in taken
               PROVE  mutex[l].owner = t /\ mutex[l].depth # 0
    OBVIOUS
  <2>1. PICK k \in Kinds(l) : <<l, k>> \in entries
    BY <1>2 DEF OneEach
  <2>2. Times(t, <<l, k>>) \in Nat /\ Times(t, <<l, k>>) # 0
    BY <1>4, <2>1 DEF Times
  <2>3. TimesTaken(t, l) \in Nat /\ TimesTaken(t, l) # 0
    BY <2>2, TakenAtLeast
  <2>4. QED
    BY <2>3 DEF Owned
<1>6. checked => \A f \in entries : lockList[t][f] # 0
  <2> SUFFICES ASSUME checked, NEW f \in entries
               PROVE  lockList[t][f] # 0
    OBVIOUS
  <2>1. ByDebugger(t, f) = 1 /\ held[t][f] \in Nat /\ InCall(t, f, "lock") \in Nat
    BY <1>4
  <2>2. lockList[t][f] = held[t][f] + InCall(t, f, "lock") + ByDebugger(t, f)
    OBVIOUS
  <2>3. QED
    BY <2>1, <2>2
<1>7. DebuggerTypeOK' /\ MutexesOK'
  <2>1. /\ mutex' \in [Locks -> [owner : Traced \cup {Nobody}, depth : Nat]]
        /\ \A l \in Locks : mutex'[l].owner = Nobody <=> mutex'[l].depth = 0
    BY <1>5, UnlockedType
  <2>2. lockList' \in [Traced -> [Entries -> Nat]]
    BY <1>6, ClearLockType
  <2>3. /\ DebuggerMode' \in Modes /\ DebuggerModeCount' \in 0..MaxCount
        /\ DebuggerModeThread' \in Traced \cup {Nobody} /\ debugger' \subseteq Locks
    BY DebuggerModeAssumption DEF DebuggerTypeOK, Modes
  <2>4. QED
    BY <2>1, <2>2, <2>3 DEF DebuggerTypeOK, MutexesOK
<1>8. ModeOK' /\ UnlistedOK' /\ ~ killed'
  <2>1. ModeOK'
    BY DEF ModeOK
  <2>2. UnlistedOK'
    BY <1>6, ClearLockType DEF UnlistedOK
  <2>3. QED
    BY <2>1, <2>2
<1>9. ASSUME NEW u \in Traced, NEW l \in Locks
      PROVE  Owned(mutex', u, l) = TimesTaken(u, l)'
  <2>1. Owned(mutex', u, l) = Owned(mutex, u, l) - IF u = t /\ l \in taken THEN 1 ELSE 0
    BY <1>5, UnlockAccounts
  <2>2. TimesTaken(u, l)' = TimesTaken(u, l) - IF u = t /\ l \in taken THEN 1 ELSE 0
    <3>1. TimesLess(t, entries)
      BY <1>4 DEF TimesLess
    <3>2. QED
      BY <1>2, <1>7, <3>1, TakenLess
  <2>3. QED
    BY <2>1, <2>2
<1>10. ASSUME checked, NEW u \in Traced, NEW f \in Entries
       PROVE  lockList'[u][f] = held'[u][f] + InCall(u, f, "lock")' + ByDebugger(u, f)'
  <2>1. lockList'[u][f] = lockList[u][f] - IF u = t /\ f \in entries THEN 1 ELSE 0
    BY <1>6, <1>10, ClearLockType
  <2>2. lockList[u][f] = held[u][f] + InCall(u, f, "lock") + ByDebugger(u, f)
    BY <1>10
  <2>3. QED
    BY <1>4, <2>1, <2>2
<1>11. QED
    BY <1>7, <1>8, <1>9, <1>10, AllOK

\* What changes no lock, no list, no call and no debugger mode's accounts.
LEMMA AccountsKept ==
    ASSUME Inv, DebuggerTypeOK', ModeOK',
           UNCHANGED <<mutex, lockList, held, call, DebuggerModeThread, debugger, killed, checked>>
    PROVE  Inv'
<1> USE InvFacts
<1>1. MutexesOK' /\ UnlistedOK' /\ ~ killed'
    BY DEF MutexesOK, UnlistedOK
<1>2. \A u \in Traced, f \in Entries :
         /\ Times(u, f)' = Times(u, f)
         /\ InCall(u, f, "lock")' = InCall(u, f, "lock")
         /\ ByDebugger(u, f)' = ByDebugger(u, f)
    BY DEF Times, InCall, ByDebugger
<1>3. \A u \in Traced, l \in Locks : TimesTaken(u, l)' = TimesTaken(u, l)
    BY <1>2, TakenSame, EntriesAre
<1>4. \A u \in Traced, l \in Locks : Owned(mutex', u, l) = TimesTaken(u, l)'
    BY <1>3
<1>5. ASSUME checked, NEW u \in Traced, NEW f \in Entries
      PROVE  lockList'[u][f] = held'[u][f] + InCall(u, f, "lock")' + ByDebugger(u, f)'
    BY <1>2, <1>5
<1>6. QED
    BY <1>1, <1>4, <1>5, AllOK

LEMMA DebuggerStep ==
    ASSUME Inv, UNCHANGED checked, Debugger
    PROVE  Inv'
<1> USE InvFacts
<1>1. CASE Stop
  <2>1. /\ stopped' = TRUE
        /\ UNCHANGED <<mutex, lockList, held, call, hung, DebuggerMode,
                       DebuggerModeCount, DebuggerModeThread, debugger, killed>>
    BY <1>1 DEF Stop
  <2>2. DebuggerTypeOK' /\ ModeOK'
    BY <2>1 DEF DebuggerTypeOK, ModeOK
  <2>3. QED
    BY <2>1, <2>2, AccountsKept
<1>2. CASE Resume
  <2>1. /\ stopped' = FALSE /\ DebuggerMode = "OFF"
        /\ UNCHANGED <<mutex, lockList, held, call, hung, DebuggerMode,
                       DebuggerModeCount, DebuggerModeThread, debugger, killed>>
    BY <1>2 DEF Resume
  <2>2. DebuggerTypeOK' /\ ModeOK'
    BY <2>1 DEF DebuggerTypeOK, ModeOK
  <2>3. QED
    BY <2>1, <2>2, AccountsKept
<1>3. CASE Interrupt
  <2>1. /\ hung' = Nobody
        /\ UNCHANGED <<mutex, lockList, held, call, stopped, DebuggerMode,
                       DebuggerModeCount, DebuggerModeThread, debugger, killed>>
    BY <1>3 DEF Interrupt
  <2>2. DebuggerTypeOK' /\ ModeOK'
    BY <2>1 DEF DebuggerTypeOK, ModeOK
  <2>3. QED
    BY <2>1, <2>2, AccountsKept
<1>4. ASSUME NEW t \in Traced, NEW wantFull \in BOOLEAN, StartDebuggerMode(t, wantFull)
      PROVE  Inv'
    BY <1>4, StartDebuggerModeStep
<1>5. ASSUME NEW t \in Traced, NEW wantFull \in BOOLEAN, NestDebuggerMode(t, wantFull)
      PROVE  Inv'
  <2>1. /\ stopped /\ DebuggerModeCount' = DebuggerModeCount + 1
        /\ DebuggerModeCount < MaxCount /\ t = DebuggerModeThread /\ DebuggerMode # "OFF"
        /\ UNCHANGED <<mutex, lockList, held, call, stopped, hung, DebuggerMode,
                       DebuggerModeThread, debugger, killed>>
    BY <1>5 DEF NestDebuggerMode, AtPrompt
  <2>2. DebuggerTypeOK' /\ ModeOK'
    BY <2>1, DebuggerModeAssumption DEF DebuggerTypeOK, ModeOK
  <2>3. QED
    BY <2>1, <2>2, AccountsKept
<1>6. ASSUME NEW t \in Traced, EndDebuggerMode(t)
      PROVE  Inv'
  <2>1. CASE DebuggerModeCount = 1
    BY <1>6, <2>1, EndDebuggerModeStep
  <2>2. CASE DebuggerModeCount # 1
    <3>1. /\ stopped /\ DebuggerModeCount' = DebuggerModeCount - 1
          /\ t = DebuggerModeThread /\ DebuggerMode # "OFF"
          /\ UNCHANGED <<mutex, lockList, held, call, stopped, hung, DebuggerMode,
                         DebuggerModeThread, debugger, killed>>
      BY <1>6, <2>2 DEF EndDebuggerMode, AtPrompt
    <3>2. DebuggerModeCount \in 2..MaxCount
      <4>1. DebuggerModeCount \in 0..MaxCount /\ MaxCount \in Nat
        BY DebuggerModeAssumption DEF DebuggerTypeOK
      <4>2. DebuggerModeCount # 0
        BY <3>1 DEF ModeOK
      <4>3. QED
        BY <2>2, <4>1, <4>2
    <3>3. DebuggerTypeOK' /\ ModeOK'
      BY <3>1, <3>2, DebuggerModeAssumption DEF DebuggerTypeOK, ModeOK
    <3>4. QED
      BY <3>1, <3>3, AccountsKept
  <2>3. QED
    BY <2>1, <2>2
<1>7. ASSUME NEW t \in Traced, NEW l \in Locks, CallRuntime(t, l)
      PROVE  Inv'
  <2>1. /\ hung' = t
        /\ UNCHANGED <<mutex, lockList, held, call, stopped, DebuggerMode,
                       DebuggerModeCount, DebuggerModeThread, debugger, killed>>
    BY <1>7 DEF CallRuntime
  <2>2. DebuggerTypeOK' /\ ModeOK'
    BY <2>1 DEF DebuggerTypeOK, ModeOK
  <2>3. QED
    BY <2>1, <2>2, AccountsKept
<1>8. QED
    BY <1>1, <1>2, <1>3, <1>4, <1>5, <1>6, <1>7 DEF Debugger

LEMMA NextInv == Inv /\ [DebuggerNext]_debuggerVars => Inv'
<1> SUFFICES ASSUME Inv, [DebuggerNext]_debuggerVars
             PROVE  Inv'
    OBVIOUS
<1>1. CASE DebuggerNext
  <2>1. UNCHANGED checked /\ (Debugger \/ \E t \in Traced : Program(t))
    BY <1>1 DEF DebuggerNext
  <2>2. ASSUME NEW t \in Traced, Program(t)
        PROVE  Inv'
    BY <2>1, <2>2, StartLockStep, StartUnlockStep, FinishLockStep, FinishUnlockStep DEF Program
  <2>3. QED
    BY <2>1, <2>2, DebuggerStep
<1>2. CASE UNCHANGED debuggerVars
  <2>1. /\ UNCHANGED <<mutex, lockList, held, call, stopped, hung>>
        /\ UNCHANGED <<DebuggerMode, DebuggerModeCount, DebuggerModeThread, debugger,
                       killed, checked>>
    BY <1>2 DEF debuggerVars
  <2>2. DebuggerTypeOK' /\ ModeOK'
    BY <2>1, InvFacts DEF DebuggerTypeOK, ModeOK
  <2>3. QED
    BY <2>1, <2>2, AccountsKept
<1>3. QED
    BY <1>1, <1>2

LEMMA Invariant == DebuggerSpec => []Inv
BY InitInv, NextInv, PTL DEF DebuggerSpec

-----------------------------------------------------------------------------
(* Theorems.                                                               *)

\* DebuggerTypeOK: each variable has its type in every reachable state.
THEOREM DebuggerTypeCorrect == DebuggerSpec => []DebuggerTypeOK
<1>1. Inv => DebuggerTypeOK
    BY DEF Inv
<1>2. QED
    BY <1>1, Invariant, PTL

\* LocksAreAccounted: wherever gdb stops the program, every mutex is held as
\* often as the program and debugger mode have taken it, and no check kills a
\* program that takes its locks in order.
THEOREM LocksAreAccountedCorrect == DebuggerSpec => []LocksAreAccounted
<1>1. Inv => LocksAreAccounted
    BY DEF Inv
<1>2. QED
    BY <1>1, Invariant, PTL

=============================================================================
