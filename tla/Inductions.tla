----------------------------- MODULE Inductions -----------------------------
(***************************************************************************)
(* Lemmas for the other proofs: induction over numbers and over a class    *)
(* hierarchy, stated with sets in place of predicates, and the existence   *)
(* of functions that recur up a class hierarchy.                           *)
(***************************************************************************)
EXTENDS Integers, TLAPS, FiniteSetTheorems

LEMMA SetInduction ==
    ASSUME NEW G \in SUBSET Nat, 0 \in G, \A n \in G : n + 1 \in G
    PROVE  G = Nat
<1> DEFINE T == {1..n : n \in Nat \ G}
<1>1. SUFFICES ASSUME T # {} PROVE FALSE
    OBVIOUS
<1>2. T \subseteq FiniteSubsetsOf(Nat)
  <2> SUFFICES ASSUME NEW n \in Nat
               PROVE  1..n \in FiniteSubsetsOf(Nat)
    OBVIOUS
  <2>1. IsFiniteSet(1..n)
    BY FS_Interval
  <2>2. QED
    BY <2>1 DEF FiniteSubsetsOf
<1>3. PICK x \in T : \A y \in T : ~ (<<y, x>> \in StrictSubsetOrdering(Nat))
  <2>1. IsWellFoundedOn(StrictSubsetOrdering(Nat), FiniteSubsetsOf(Nat))
    BY FS_StrictSubsetOrderingWellFounded
  <2> HIDE DEF T
  <2>2. QED
    BY <1>1, <1>2, <2>1, WFMin
<1>4. PICK n \in Nat \ G : x = 1..n
    OBVIOUS
<1>5. n # 0 /\ n - 1 \in Nat \ G
  <2>1. n # 0
    OBVIOUS
  <2>2. n - 1 \in Nat /\ (n - 1) + 1 = n
    BY <2>1
  <2>3. QED
    BY <2>1, <2>2
<1>6. 1..n - 1 \in T
    BY <1>5
<1>7. 1..n - 1 \subseteq 1..n /\ 1..n - 1 # 1..n /\ 1..n \subseteq Nat
  <2>1. n \in 1..n /\ n \notin 1..n - 1
    BY <1>5
  <2>2. QED
    BY <2>1
<1>8. <<1..n - 1, x>> \in StrictSubsetOrdering(Nat)
    BY <1>4, <1>7 DEF StrictSubsetOrdering
<1>9. QED
    BY <1>3, <1>6, <1>8

LEMMA LeastNumber ==
    ASSUME NEW S \in SUBSET Nat, S # {}
    PROVE  \E n \in S : \A m \in S : n <= m
<1>1. SUFFICES ASSUME \A n \in S : \E m \in S : ~ (n <= m)
               PROVE  FALSE
    OBVIOUS
<1> DEFINE G == {n \in Nat : \A m \in S : n <= m}
<1>2. 0 \in G
    OBVIOUS
<1>3. ASSUME NEW n \in G
      PROVE  n + 1 \in G
  <2>1. n \notin S
    BY <1>1
  <2>2. QED
    BY <2>1
<1>4. G = Nat
  <2>1. G \in SUBSET Nat
    OBVIOUS
  <2> HIDE DEF G
  <2>2. QED
    BY <1>2, <1>3, <2>1, SetInduction
<1>5. PICK n \in S : TRUE
    OBVIOUS
<1>6. n + 1 \in G
    BY <1>4
<1>7. QED
    BY <1>5, <1>6

\* Each element of S has a height, which is less above it.
Descends(S, super, N, height) ==
    /\ N \in Nat /\ height \in [S -> 0..N]
    /\ \A c \in S : super[c] \in S => height[super[c]] < height[c]

\* What holds of a class whenever it holds of its superclass holds of all.
LEMMA HierarchyInduction ==
    ASSUME NEW S, NEW super, NEW N, NEW height, Descends(S, super, N, height),
           NEW G \in SUBSET S,
           \A c \in S : (super[c] \in S => super[c] \in G) => c \in G
    PROVE  G = S
<1> USE DEF Descends
<1> DEFINE T == {n \in Nat : \A c \in S : height[c] < n => c \in G}
<1>1. 0 \in T
    OBVIOUS
<1>2. ASSUME NEW n \in T
      PROVE  n + 1 \in T
  <2> SUFFICES ASSUME NEW c \in S, height[c] < n + 1
               PROVE  c \in G
    OBVIOUS
  <2>1. super[c] \in S => height[super[c]] < n
    OBVIOUS
  <2>2. QED
    BY <2>1
<1>3. T = Nat
  <2> HIDE DEF T
  <2>1. T \in SUBSET Nat
    BY DEF T
  <2>2. QED
    BY <1>1, <1>2, <2>1, SetInduction
<1>4. N + 1 \in T
    BY <1>3
<1>5. QED
    BY <1>4

\* A recursion up the hierarchy: a class in Stop has its value in base, that of
\* another class is what its step makes of the superclass's.
Recursion(S, super, N, height, V, Stop, base, step) ==
    /\ Descends(S, super, N, height)
    /\ Stop \in SUBSET S
    /\ base \in [S -> V] /\ step \in [S -> [V -> V]]
    /\ \A c \in S \ Stop : super[c] \in S

\* A function on classes whose value at a class may depend on that at its
\* superclass exists: step gives the one from the other, where not at Stop.
LEMMA HierarchyRecursion ==
    ASSUME NEW S, NEW super, NEW N, NEW height, NEW V, NEW Stop, NEW base, NEW step,
           Recursion(S, super, N, height, V, Stop, base, step)
    PROVE  \E g \in [S -> V] : \A c \in S :
              g[c] = IF c \in Stop THEN base[c] ELSE step[c][g[super[c]]]
<1> USE DEF Recursion, Descends
<1> DEFINE T == {n \in Nat : \E g \in [S -> V] : \A c \in S : height[c] < n =>
                    g[c] = IF c \in Stop THEN base[c] ELSE step[c][g[super[c]]]}
<1>1. 0 \in T
  <2>1. \A c \in S : ~ (height[c] < 0)
    OBVIOUS
  <2>2. QED
    BY <2>1
<1>2. ASSUME NEW n \in T
      PROVE  n + 1 \in T
  <2>1. PICK g \in [S -> V] : \A c \in S : height[c] < n =>
                g[c] = IF c \in Stop THEN base[c] ELSE step[c][g[super[c]]]
    OBVIOUS
  <2> DEFINE h == [c \in S |-> IF height[c] < n THEN g[c]
                               ELSE IF c \in Stop THEN base[c] ELSE step[c][g[super[c]]]]
  <2>2. h \in [S -> V]
    <3>1. \A c \in S \ Stop : step[c][g[super[c]]] \in V
      OBVIOUS
    <3>2. QED
      BY <3>1
  <2>3. ASSUME NEW c \in S, height[c] < n + 1
        PROVE  h[c] = IF c \in Stop THEN base[c] ELSE step[c][h[super[c]]]
    <3>1. CASE c \in Stop
      BY <2>1, <3>1
    <3>2. CASE c \notin Stop
      <4>1. super[c] \in S /\ height[super[c]] < n
        BY <2>3, <3>2
      <4>2. h[super[c]] = g[super[c]]
        BY <4>1
      <4>3. h[c] = step[c][g[super[c]]]
        BY <2>1, <3>2
      <4>4. QED
        BY <3>2, <4>2, <4>3
    <3>3. QED
      BY <3>1, <3>2
  <2>4. n + 1 \in Nat
    OBVIOUS
  <2> HIDE DEF h
  <2>5. QED
    BY <2>2, <2>3, <2>4
<1>3. T = Nat
  <2>1. T \in SUBSET Nat
    OBVIOUS
  <2> HIDE DEF T
  <2>2. QED
    BY <1>1, <1>2, <2>1, SetInduction
<1>4. \A c \in S : height[c] < N + 1
    OBVIOUS
<1>5. N + 1 \in T
  <2>1. N + 1 \in Nat
    OBVIOUS
  <2> HIDE DEF T
  <2>2. QED
    BY <1>3, <2>1
<1>6. PICK g \in [S -> V] : \A c \in S : height[c] < N + 1 =>
                g[c] = IF c \in Stop THEN base[c] ELSE step[c][g[super[c]]]
    BY <1>5
<1>7. QED
    BY <1>4, <1>6

\* What holds of 0, and of n + 1 whenever of n, holds of all prefixes 0..N.
LEMMA PrefixInduction ==
    ASSUME NEW N \in Nat, NEW G \in SUBSET (0..N), 0 \in G,
           \A n \in 0..N : n \in G /\ n < N => n + 1 \in G
    PROVE  G = 0..N
<1> DEFINE T == {n \in Nat : n <= N => n \in G}
<1>1. 0 \in T
    OBVIOUS
<1>2. \A n \in T : n + 1 \in T
    OBVIOUS
<1>3. T = Nat
  <2> HIDE DEF T
  <2>1. T \in SUBSET Nat
    BY DEF T
  <2>2. QED
    BY <1>1, <1>2, <2>1, SetInduction
<1>4. \A n \in 0..N : n \in T /\ n <= N
    BY <1>3
<1>5. \A n \in 0..N : n \in G
    BY <1>4
<1>6. QED
    BY <1>5

\* A recursion over the prefixes of a list: step gives the next value.
Iteration(N, V, base, step) == N \in Nat /\ base \in V /\ step \in [1..N -> [V -> V]]

LEMMA PrefixRecursion ==
    ASSUME NEW N, NEW V, NEW base, NEW step, Iteration(N, V, base, step)
    PROVE  \E g \in [0..N -> V] : \A n \in 0..N :
              g[n] = IF n = 0 THEN base ELSE step[n][g[n - 1]]
<1> USE DEF Iteration
<1>a. PICK S : S = 0..N
    OBVIOUS
<1>b. PICK super : super = [n \in S |-> n - 1]
    OBVIOUS
<1>c. PICK height : height = [n \in S |-> n]
    OBVIOUS
<1>d. PICK bases : bases = [n \in S |-> base]
    OBVIOUS
<1>e. PICK steps : steps = [n \in S |-> IF n = 0 THEN [v \in V |-> v] ELSE step[n]]
    OBVIOUS
<1>1. Descends(S, super, N, height)
  <2>1. height \in [S -> 0..N]
    BY <1>a, <1>c
  <2>2. \A c \in S : super[c] \in S => height[super[c]] < height[c]
    BY <1>a, <1>b, <1>c
  <2>3. QED
    BY <2>1, <2>2 DEF Descends
<1>2. {0} \in SUBSET S /\ bases \in [S -> V]
    BY <1>a, <1>d
<1>3. steps \in [S -> [V -> V]]
  <2>1. \A n \in S : n # 0 => n \in 1..N
    BY <1>a
  <2>2. \A n \in S : steps[n] \in [V -> V]
    BY <1>e, <2>1
  <2>3. QED
    BY <1>e, <2>2
<1>4. \A c \in S \ {0} : super[c] \in S
    BY <1>a, <1>b
<1>5. Recursion(S, super, N, height, V, {0}, bases, steps)
    BY <1>1, <1>2, <1>3, <1>4 DEF Recursion
<1>6. PICK g \in [S -> V] : \A c \in S :
              g[c] = IF c \in {0} THEN bases[c] ELSE steps[c][g[super[c]]]
    BY <1>5, HierarchyRecursion
<1>7. \A n \in S : g[n] = IF n = 0 THEN base ELSE step[n][g[n - 1]]
  <2> SUFFICES ASSUME NEW n \in S
               PROVE  g[n] = IF n = 0 THEN base ELSE step[n][g[n - 1]]
    OBVIOUS
  <2>1. CASE n = 0
    BY <1>6, <1>d, <2>1
  <2>2. CASE n # 0
    <3>1. super[n] = n - 1 /\ steps[n] = step[n]
      BY <1>b, <1>e, <2>2
    <3>2. g[n] = steps[n][g[super[n]]]
      BY <1>6, <2>2
    <3>3. QED
      BY <2>2, <3>1, <3>2
  <2>3. QED
    BY <2>1, <2>2
<1>8. QED
    BY <1>7, <1>a

=============================================================================
