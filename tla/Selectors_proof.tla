-------------------------- MODULE Selectors_proof ---------------------------
(***************************************************************************)
(* Theorems about the two places where a selector is looked for: first the *)
(* registry (SelRegistry and the set of selectors that it uses), for every *)
(* set of threads and names, then the table of the shared cache (SelOpt    *)
(* and the search for a perfect hash), for every set of selectors, every   *)
(* family of hashes and every table size.  What that search relies on are  *)
(* the assumptions on the parts of a hash and on exclusive or              *)
(* (ArithmeticAssumption).                                                 *)
(***************************************************************************)
EXTENDS SelRegistry, SelOpt, Inductions

-----------------------------------------------------------------------------
(* Lemmas: the sizes of a set.                                             *)

Cap(idx) == __objc_sel_set_capacities[idx]
Room(idx) == __objc_sel_set_buckets[idx]

\* Some bucket of a set that is at its capacity is still empty.
LEMMA TablesAre ==
    ASSUME NEW idx \in 1..SIZE
    PROVE  /\ Cap(idx) \in Nat /\ Room(idx) \in Nat \ {0}
           /\ Cap(idx) < Room(idx)
<1>1. idx \in {1, 2, 3, 4, 5, 6, 7, 8, 9, 10, 11, 12, 13, 14, 15, 16, 17, 18, 19,
               20, 21, 22, 23, 24, 25, 26, 27}
    BY DEF SIZE
<1>2. QED
    BY <1>1 DEF Cap, Room, __objc_sel_set_capacities, __objc_sel_set_buckets

LEMMA IndexIsFound ==
    ASSUME NEW capacity \in 0..Cap(SIZE)
    PROVE  /\ IndexFor(capacity) \in 1..SIZE
           /\ Cap(IndexFor(capacity)) >= capacity
<1> DEFINE S == {idx \in 1..SIZE : Cap(idx) >= capacity}
<1>1. SIZE \in S /\ S \in SUBSET Nat
    BY TablesAre DEF SIZE
<1>2. PICK idx \in S : \A i \in S : idx <= i
    BY <1>1, LeastNumber
<1>3. \A i \in 1..idx - 1 : i \in 1..SIZE /\ i \notin S
    BY <1>2 DEF SIZE
<1>4. \A i \in 1..idx - 1 : Cap(i) < capacity
    BY <1>3, TablesAre
<1>5. \E i \in 1..SIZE : /\ __objc_sel_set_capacities[i] >= capacity
                         /\ \A j \in 1..i - 1 : __objc_sel_set_capacities[j] < capacity
    BY <1>2, <1>4 DEF Cap
<1>6. QED
    BY <1>5 DEF IndexFor, Cap

-----------------------------------------------------------------------------
(* Lemmas: where a name is looked for.                                     *)

\* The hash of a name is a bucket.
LEMMA ConstrainedType ==
    ASSUME NEW name \in Names, NEW n \in Nat \ {0}
    PROVE  Constrained(name, n) \in 0..n - 1
<1>1. PICK s : s = name
    OBVIOUS
<1>2. Len(s) \in Nat /\ \A i \in 1..Len(s) : s[i] \in Nat
  <2>1. PICK Bytes : Bytes = 0..255
    OBVIOUS
  <2>2. s \in Seq(Bytes)
    BY <1>1, <2>1, SelRegistryAssumption
  <2>3. Len(s) \in Nat /\ \A i \in 1..Len(s) : s[i] \in Bytes
    BY <2>2
  <2>4. \A b \in Bytes : b \in Nat
    BY <2>1
  <2>5. QED
    BY <2>3, <2>4
<1>3. PICK step : step = [i \in 1..Len(s) |-> [v \in 0..n - 1 |-> (257 * v + s[i]) % n]]
    OBVIOUS
<1>4. step \in [1..Len(s) -> [0..n - 1 -> 0..n - 1]]
  <2>1. ASSUME NEW i \in 1..Len(s), NEW v \in 0..n - 1
        PROVE  (257 * v + s[i]) % n \in 0..n - 1
    <3>1. 257 * v + s[i] \in Nat
      BY <1>2
    <3>2. QED
      BY <3>1
  <2>2. QED
    BY <1>3, <2>1
<1>5. PICK g \in [0..Len(s) -> 0..n - 1] : \A i \in 0..Len(s) :
              g[i] = IF i = 0 THEN 0 ELSE step[i][g[i - 1]]
  <2>1. PICK N \in Nat : N = Len(s)
    BY <1>2
  <2>2. PICK V : V = 0..n - 1
    OBVIOUS
  <2>3. Iteration(N, V, 0, step)
    BY <1>4, <2>1, <2>2 DEF Iteration
  <2>4. QED
    BY <2>1, <2>2, <2>3, PrefixRecursion
<1>6. g = [i \in 0..Len(s) |-> IF i = 0 THEN 0 ELSE (257 * g[i - 1] + s[i]) % n]
  <2>1. ASSUME NEW i \in 0..Len(s), i # 0
        PROVE  g[i] = (257 * g[i - 1] + s[i]) % n
    <3>1. i \in 1..Len(s) /\ i - 1 \in 0..Len(s)
      BY <1>2, <2>1
    <3>2. QED
      BY <1>3, <1>5, <2>1, <3>1
  <2>2. g[0] = 0
    BY <1>2, <1>5
  <2>3. QED
    BY <2>1, <2>2
<1> DEFINE sum[i \in 0..Len(s)] == IF i = 0 THEN 0 ELSE (257 * sum[i - 1] + s[i]) % n
<1>7. sum = [i \in 0..Len(s) |-> IF i = 0 THEN 0 ELSE (257 * sum[i - 1] + s[i]) % n]
    BY <1>6
<1>8. Constrained(name, n) = sum[Len(s)]
    BY <1>1 DEF Constrained
<1> HIDE DEF sum
<1> DEFINE G == {i \in 0..Len(s) : sum[i] \in 0..n - 1}
<1>9. 0 \in G
    BY <1>2, <1>7
<1>10. ASSUME NEW i \in 0..Len(s), i \in G, i < Len(s)
       PROVE  i + 1 \in G
  <2>1. i + 1 \in 1..Len(s) /\ i + 1 # 0 /\ (i + 1) - 1 = i
    BY <1>2, <1>10
  <2>2. 257 * sum[i] + s[i + 1] \in Nat
    BY <1>2, <1>10, <2>1
  <2>3. sum[i + 1] = (257 * sum[i] + s[i + 1]) % n
    BY <1>7, <2>1
  <2>4. QED
    BY <2>1, <2>2, <2>3
<1>11. G = 0..Len(s)
  <2>1. PICK N \in Nat : N = Len(s)
    BY <1>2
  <2>2. G \in SUBSET (0..N)
    BY <2>1
  <2> HIDE DEF G
  <2>3. QED
    BY <1>9, <1>10, <2>1, <2>2, PrefixInduction
<1>12. QED
    BY <1>2, <1>8, <1>11

\* The d-th bucket that is looked at for a name.
Probe(name, nb, d) == (Constrained(name, nb) + d) % nb

\* Every bucket is looked at, once.
LEMMA ProbesAre ==
    ASSUME NEW name \in Names, NEW nb \in Nat \ {0}
    PROVE  /\ \A d \in 0..nb - 1 : Probe(name, nb, d) \in 0..nb - 1
           /\ \A d, e \in 0..nb - 1 : Probe(name, nb, d) = Probe(name, nb, e) => d = e
           /\ \A i \in 0..nb - 1 : \E d \in 0..nb - 1 : Probe(name, nb, d) = i
<1>1. PICK start \in 0..nb - 1 : start = Constrained(name, nb)
    BY ConstrainedType
<1>2. ASSUME NEW d \in 0..nb - 1
      PROVE  Probe(name, nb, d) = IF start + d < nb THEN start + d ELSE start + d - nb
    BY <1>1 DEF Probe
<1>3. ASSUME NEW i \in 0..nb - 1
      PROVE  \E d \in 0..nb - 1 : Probe(name, nb, d) = i
  <2>1. CASE i >= start
    <3>1. i - start \in 0..nb - 1 /\ Probe(name, nb, i - start) = i
      BY <1>2, <2>1
    <3>2. QED
      BY <3>1
  <2>2. CASE i < start
    <3>1. i + nb - start \in 0..nb - 1 /\ Probe(name, nb, i + nb - start) = i
      BY <1>2, <2>2
    <3>2. QED
      BY <3>1
  <2>3. QED
    BY <2>1, <2>2
<1>4. QED
    BY <1>2, <1>3

-----------------------------------------------------------------------------
(* Lemmas: a set of selectors.                                             *)

\* The buckets in use.
Full(s) == {i \in 0..s.bucketsNum - 1 : s.buckets[i] # NULL}

Contents(s) == {s.buckets[i] : i \in Full(s)}

\* All buckets from the one the hash gives up to this one are in use.
Reached(s, i) ==
    \E d \in 0..s.bucketsNum - 1 :
        /\ Probe(s.buckets[i].name, s.bucketsNum, d) = i
        /\ \A e \in 0..d - 1 : Probe(s.buckets[i].name, s.bucketsNum, e) \in Full(s)

Sets == [count : Nat, capacity : Nat, bucketsNum : Nat \ {0},
         buckets : UNION {[0..n - 1 -> Selectors \cup {NULL}] : n \in Nat \ {0}}]

\* Each name is there once and can be found.
Shaped(s) ==
    /\ s \in Sets
    /\ s.buckets \in [0..s.bucketsNum - 1 -> Selectors \cup {NULL}]
    /\ \A i, j \in Full(s) : s.buckets[i].name = s.buckets[j].name => i = j
    /\ \A i \in Full(s) : Reached(s, i)

LEMMA ContentsAreSelectors ==
    ASSUME NEW s, Shaped(s)
    PROVE  /\ s.bucketsNum \in Nat \ {0}
           /\ \A i \in Full(s) : i \in 0..s.bucketsNum - 1 /\ s.buckets[i] \in Selectors
                                     /\ s.buckets[i].name \in Names
           /\ Contents(s) \subseteq Selectors
           /\ \A x, y \in Contents(s) : x.name = y.name => x = y
           /\ NULL \notin Selectors
BY SelRegistryAssumption DEF Shaped, Sets, Full, Contents, Selectors

\* A probe ends where there is an empty bucket at all.
LEMMA EndsThere ==
    ASSUME NEW s, Shaped(s), Full(s) # 0..s.bucketsNum - 1, NEW name \in Names
    PROVE  /\ Ends(s, name) # {}
           /\ \A d \in Ends(s, name) :
                 /\ d \in 0..s.bucketsNum - 1
                 /\ Probe(name, s.bucketsNum, d) \notin Full(s)
                 /\ \A e \in 0..d - 1 : Probe(name, s.bucketsNum, e) \in Full(s)
<1>1. PICK nb \in Nat \ {0} : nb = s.bucketsNum
    BY ContentsAreSelectors
<1>2. \A d \in 0..nb - 1 : s.buckets[Probe(name, nb, d)] # NULL <=> Probe(name, nb, d) \in Full(s)
    BY <1>1, ProbesAre DEF Full
<1>3. Ends(s, name) = {d \in 0..nb - 1 :
            /\ s.buckets[Probe(name, nb, d)] = NULL
            /\ \A e \in 0..d - 1 : s.buckets[Probe(name, nb, e)] # NULL}
    BY <1>1 DEF Ends, Probe
<1>4. \A d \in 0..nb - 1 : \A e \in 0..d - 1 : e \in 0..nb - 1
    OBVIOUS
<1>5. Ends(s, name) # {}
  <2> DEFINE S == {d \in 0..nb - 1 : Probe(name, nb, d) \notin Full(s)}
  <2>1. PICK i \in 0..nb - 1 : i \notin Full(s)
    BY <1>1 DEF Full
  <2>2. PICK d \in 0..nb - 1 : Probe(name, nb, d) = i
    BY ProbesAre
  <2>3. S # {} /\ S \in SUBSET Nat
    BY <2>1, <2>2
  <2>4. PICK f \in S : \A e \in S : f <= e
    BY <2>3, LeastNumber
  <2>5. \A e \in 0..f - 1 : Probe(name, nb, e) \in Full(s)
    BY <1>4, <2>4
  <2>6. f \in Ends(s, name)
    BY <1>2, <1>3, <1>4, <2>4, <2>5
  <2>7. QED
    BY <2>6
<1>6. QED
    BY <1>1, <1>2, <1>3, <1>4, <1>5

\* findBuckets finds the one bucket with the name, or none, and a free bucket
\* to which the name can be added.
LEMMA BucketsFound ==
    ASSUME NEW s, Shaped(s), Full(s) # 0..s.bucketsNum - 1, NEW name \in Names
    PROVE  /\ \A i \in Full(s) : s.buckets[i].name = name =>
                 FindBuckets(s, name).match = s.buckets[i]
           /\ (\A i \in Full(s) : s.buckets[i].name # name) => FindBuckets(s, name).match = NULL
           /\ \E d \in 0..s.bucketsNum - 1 :
                 /\ FindBuckets(s, name).nomatch = Probe(name, s.bucketsNum, d)
                 /\ Probe(name, s.bucketsNum, d) \in (0..s.bucketsNum - 1) \ Full(s)
                 /\ \A e \in 0..d - 1 : Probe(name, s.bucketsNum, e) \in Full(s)
<1>1. PICK nb \in Nat \ {0} : nb = s.bucketsNum
    BY ContentsAreSelectors
<1> DEFINE end == CHOOSE d \in Ends(s, name) : TRUE
           same == {d \in 0..end - 1 : s.buckets[Probe(name, s.bucketsNum, d)].name = name}
           least == CHOOSE d \in same : \A e \in same : d <= e
<1>2. /\ FindBuckets(s, name).match = IF same = {} THEN NULL
                                     ELSE s.buckets[Probe(name, s.bucketsNum, least)]
      /\ FindBuckets(s, name).nomatch = Probe(name, s.bucketsNum, end)
    BY DEF FindBuckets, Probe
<1>3. /\ end \in 0..nb - 1 /\ Probe(name, nb, end) \notin Full(s)
      /\ \A e \in 0..end - 1 : Probe(name, nb, e) \in Full(s)
    BY <1>1, EndsThere
<1>4. same = {d \in 0..end - 1 : s.buckets[Probe(name, nb, d)].name = name}
    BY <1>1
<1>5. \A d \in same : (\A e \in same : e = d) => least = d
  <2> SUFFICES ASSUME NEW d \in same, \A e \in same : e = d
               PROVE  least = d
    OBVIOUS
  <2>1. d <= d
    <3>1. d \in Nat
      BY <1>3, <1>4
    <3>2. QED
      BY <3>1
  <2>1a. \E f \in same : \A e \in same : f <= e
    BY <2>1
  <2>2. least \in same
    BY <2>1a
  <2>3. QED
    BY <2>2
<1> HIDE DEF end, same, least
<1>6. \A d \in same : d \in 0..nb - 1 /\ Probe(name, nb, d) \in Full(s)
                          /\ s.buckets[Probe(name, nb, d)].name = name
    BY <1>3, <1>4
<1>7. ASSUME NEW i \in Full(s), s.buckets[i].name = name
      PROVE  FindBuckets(s, name).match = s.buckets[i]
  <2>1. PICK d \in 0..nb - 1 : /\ Probe(name, nb, d) = i
                               /\ \A e \in 0..d - 1 : Probe(name, nb, e) \in Full(s)
    BY <1>1, <1>7 DEF Shaped, Reached
  <2>2. d < end
    <3>1. d # end
      BY <1>3, <1>7, <2>1
    <3>2. ~ (end < d)
      <4>1. end < d => end \in 0..d - 1
        BY <1>3, <2>1
      <4>2. QED
        BY <1>3, <2>1, <4>1
    <3>3. QED
      BY <1>3, <2>1, <3>1, <3>2
  <2>3. d \in same
    BY <1>3, <1>4, <1>7, <2>1, <2>2
  <2>4. \A e \in same : e = d
    <3> SUFFICES ASSUME NEW e \in same
                 PROVE  e = d
      OBVIOUS
    <3>1. Probe(name, nb, e) = i
      BY <1>6, <1>7 DEF Shaped
    <3>2. QED
      BY <1>6, <2>1, <3>1, ProbesAre
  <2>5. least = d
    BY <1>5, <2>3, <2>4
  <2>6. QED
    BY <1>1, <1>2, <2>1, <2>3, <2>5
<1>8. ASSUME \A i \in Full(s) : s.buckets[i].name # name
      PROVE  FindBuckets(s, name).match = NULL
    BY <1>2, <1>6, <1>8
<1>9. Probe(name, nb, end) \in (0..nb - 1) \ Full(s)
    BY <1>3, ProbesAre
<1>10. QED
    BY <1>1, <1>2, <1>3, <1>7, <1>8, <1>9

\* A set with an empty bucket, by count.
LEMMA FullIsFinite ==
    ASSUME NEW s, Shaped(s)
    PROVE  /\ IsFiniteSet(Full(s)) /\ Cardinality(Full(s)) \in Nat
           /\ Cardinality(Full(s)) < s.bucketsNum => Full(s) # 0..s.bucketsNum - 1
<1>1. PICK nb \in Nat \ {0} : nb = s.bucketsNum
    BY ContentsAreSelectors
<1>2. IsFiniteSet(0..nb - 1) /\ Cardinality(0..nb - 1) = nb
    BY FS_Interval
<1>3. IsFiniteSet(Full(s))
    BY <1>1, <1>2, FS_Subset DEF Full
<1>4. QED
    BY <1>1, <1>2, <1>3, FS_CardinalityType

LEMMA PutInIsShaped ==
    ASSUME NEW s, Shaped(s), Cardinality(Full(s)) < s.bucketsNum,
           NEW sel \in Selectors, \A x \in Contents(s) : x.name # sel.name
    PROVE  /\ Shaped(PutIn(s, sel))
           /\ Contents(PutIn(s, sel)) = Contents(s) \cup {sel}
           /\ Cardinality(Full(PutIn(s, sel))) = Cardinality(Full(s)) + 1
           /\ PutIn(s, sel).count = s.count /\ PutIn(s, sel).capacity = s.capacity
           /\ PutIn(s, sel).bucketsNum = s.bucketsNum
<1>1. PICK nb \in Nat \ {0} : nb = s.bucketsNum
    BY ContentsAreSelectors
<1>2. PICK name \in Names : name = sel.name
    BY DEF Selectors
<1>3. PICK d \in 0..nb - 1 : /\ FindBuckets(s, name).nomatch = Probe(name, nb, d)
                             /\ Probe(name, nb, d) \in (0..nb - 1) \ Full(s)
                             /\ \A e \in 0..d - 1 : Probe(name, nb, e) \in Full(s)
    BY <1>1, <1>2, BucketsFound, FullIsFinite
<1>4. PICK j \in (0..nb - 1) \ Full(s) : j = Probe(name, nb, d)
    BY <1>3
<1>5. PICK t : t = PutIn(s, sel)
    OBVIOUS
<1>6. t = [s EXCEPT !.buckets = [@ EXCEPT ![j] = sel]]
    BY <1>2, <1>3, <1>4, <1>5 DEF PutIn
<1>7. /\ s \in Sets /\ s.buckets \in [0..nb - 1 -> Selectors \cup {NULL}]
      /\ NULL \notin Selectors
    BY <1>1, ContentsAreSelectors DEF Shaped
<1>8. /\ t.count = s.count /\ t.capacity = s.capacity /\ t.bucketsNum = nb
      /\ t.buckets = [s.buckets EXCEPT ![j] = sel]
    BY <1>1, <1>6, <1>7 DEF Sets
<1>9. t.buckets \in [0..nb - 1 -> Selectors \cup {NULL}] /\ t \in Sets
    BY <1>6, <1>7, <1>8 DEF Sets
<1>10. Full(t) = Full(s) \cup {j}
    BY <1>1, <1>7, <1>8 DEF Full
<1>11. \A i \in Full(s) : i # j /\ t.buckets[i] = s.buckets[i] /\ i \in 0..nb - 1
    BY <1>1, <1>7, <1>8 DEF Full
<1>12. t.buckets[j] = sel
    BY <1>7, <1>8
<1>13. Contents(t) = Contents(s) \cup {sel}
    BY <1>10, <1>11, <1>12 DEF Contents
<1>14. ASSUME NEW i \in Full(t)
       PROVE  Reached(t, i)
  <2>1. CASE i = j
    <3>1. t.buckets[i].name = name
      BY <1>2, <1>12, <2>1
    <3>2. QED
      BY <1>3, <1>4, <1>8, <1>10, <2>1, <3>1 DEF Reached
  <2>2. CASE i \in Full(s)
    <3>1. Reached(s, i)
      BY <2>2 DEF Shaped
    <3>2. QED
      BY <1>1, <1>8, <1>10, <1>11, <2>2, <3>1 DEF Reached
  <2>3. QED
    BY <1>10, <2>1, <2>2
<1>15. ASSUME NEW i \in Full(t), NEW k \in Full(t), t.buckets[i].name = t.buckets[k].name
       PROVE  i = k
  <2>1. \A h \in Full(s) : s.buckets[h].name # sel.name
    BY DEF Contents
  <2>2. QED
    BY <1>10, <1>11, <1>12, <1>15, <2>1 DEF Shaped
<1>16. Cardinality(Full(t)) = Cardinality(Full(s)) + 1
    BY <1>4, <1>10, FullIsFinite, FS_AddElement
<1>17. Shaped(t)
    BY <1>8, <1>9, <1>14, <1>15 DEF Shaped
<1>18. QED
    BY <1>1, <1>5, <1>8, <1>13, <1>16, <1>17

LEMMA EmptyIsShaped ==
    ASSUME NEW idx \in 1..SIZE, NEW count \in Nat
    PROVE  LET s == [EmptySet(idx) EXCEPT !.count = count] IN
           /\ s.count = count /\ s.capacity = Cap(idx) /\ s.bucketsNum = Room(idx)
           /\ s.bucketsNum \in Nat \ {0} /\ s.capacity < s.bucketsNum
           /\ s.buckets \in [0..Room(idx) - 1 -> Selectors \cup {NULL}]
           /\ Shaped(s) /\ Full(s) = {} /\ Contents(s) = {}
<1> DEFINE s == [EmptySet(idx) EXCEPT !.count = count]
<1>1. /\ Cap(idx) \in Nat /\ Room(idx) \in Nat \ {0} /\ Cap(idx) < Room(idx)
    BY TablesAre
<1>2. s = [count |-> count, capacity |-> Cap(idx), bucketsNum |-> Room(idx),
           buckets |-> [i \in 0..Room(idx) - 1 |-> NULL]]
  <2>1. EmptySet(idx) = [count |-> 0, capacity |-> Cap(idx), bucketsNum |-> Room(idx),
                         buckets |-> [i \in 0..Room(idx) - 1 |-> NULL]]
    BY DEF EmptySet, Cap, Room
  <2>2. PICK f : f = [i \in 0..Room(idx) - 1 |-> NULL]
    OBVIOUS
  <2>3. EmptySet(idx) = [count |-> 0, capacity |-> Cap(idx), bucketsNum |-> Room(idx), buckets |-> f]
    BY <2>1, <2>2
  <2>4. s = [count |-> count, capacity |-> Cap(idx), bucketsNum |-> Room(idx), buckets |-> f]
    BY <2>3
  <2>5. QED
    BY <2>2, <2>4
<1> HIDE DEF s
<1>3. /\ s.count = count /\ s.capacity = Cap(idx) /\ s.bucketsNum = Room(idx)
      /\ s.buckets = [i \in 0..Room(idx) - 1 |-> NULL]
    BY <1>2
<1>4. s.buckets \in [0..Room(idx) - 1 -> Selectors \cup {NULL}]
    BY <1>3
<1>5. s \in Sets
    BY <1>1, <1>2, <1>3, <1>4 DEF Sets
<1>6. Full(s) = {}
    BY <1>3 DEF Full
<1>7. Contents(s) = {} /\ Shaped(s)
    BY <1>3, <1>4, <1>5, <1>6 DEF Contents, Shaped
<1> QED
    BY <1>1, <1>3, <1>4, <1>6, <1>7 DEF s

\* PutIn keeps the form of a set, whatever is in it.
LEMMA PutInType ==
    ASSUME NEW nb \in Nat \ {0},
           NEW s \in [count : Nat, capacity : Nat, bucketsNum : {nb},
                      buckets : [0..nb - 1 -> Selectors \cup {NULL}]],
           NEW sel \in Selectors
    PROVE  PutIn(s, sel) \in [count : Nat, capacity : Nat, bucketsNum : {nb},
                              buckets : [0..nb - 1 -> Selectors \cup {NULL}]]
<1>1. PICK j : j = FindBuckets(s, sel.name).nomatch
    OBVIOUS
<1>2. PutIn(s, sel) = [s EXCEPT !.buckets = [@ EXCEPT ![j] = sel]]
    BY <1>1 DEF PutIn
<1>3. [s.buckets EXCEPT ![j] = sel] \in [0..nb - 1 -> Selectors \cup {NULL}]
    OBVIOUS
<1>4. QED
    BY <1>2, <1>3

\* A set as the operations leave it.
SetOK(s) ==
    /\ Shaped(s)
    /\ s.count = Cardinality(Full(s)) /\ s.count <= s.capacity /\ s.capacity < s.bucketsNum
    /\ \E idx \in 1..SIZE : s.capacity = Cap(idx) /\ s.bucketsNum = Room(idx)

LEMMA SetOKType ==
    ASSUME NEW s, SetOK(s)
    PROVE  /\ \E idx \in 1..SIZE : s \in SetsOf(idx)
           /\ s # NULL
<1>1. PICK idx \in 1..SIZE : s.capacity = Cap(idx) /\ s.bucketsNum = Room(idx)
    BY DEF SetOK
<1>2. PICK nb \in Nat \ {0} : nb = Room(idx)
    BY TablesAre
<1>3. PICK Bs : Bs = [0..nb - 1 -> Selectors \cup {NULL}]
    OBVIOUS
<1>4. s \in [count : Nat, capacity : {Cap(idx)}, bucketsNum : {nb}, buckets : Bs]
    BY <1>1, <1>2, <1>3 DEF SetOK, Shaped, Sets
<1>5. s \in SetsOf(idx)
    BY <1>2, <1>3, <1>4 DEF SetsOf, Cap, Room
<1>6. QED
    BY <1>5, SelRegistryAssumption

\* What has been moved to the new set after the first i buckets of the old.
Moved(s, new, i) ==
    /\ Shaped(new)
    /\ Contents(new) = {s.buckets[k] : k \in {k \in Full(s) : k < i}}
    /\ Cardinality(Full(new)) = Cardinality({k \in Full(s) : k < i})

LEMMA MoveOn ==
    ASSUME NEW s, SetOK(s), NEW i \in 0..s.bucketsNum - 1, NEW new, Moved(s, new, i),
           s.count < new.bucketsNum
    PROVE  /\ s.buckets[i] = NULL => Moved(s, new, i + 1)
           /\ s.buckets[i] # NULL =>
                 /\ Moved(s, PutIn(new, s.buckets[i]), i + 1)
                 /\ s.buckets[i] \in Selectors
                 /\ PutIn(new, s.buckets[i]).count = new.count
                 /\ PutIn(new, s.buckets[i]).capacity = new.capacity
                 /\ PutIn(new, s.buckets[i]).bucketsNum = new.bucketsNum
<1> DEFINE Below(n) == {k \in Full(s) : k < n}
<1>1. \A k \in Full(s) : k \in Nat
    BY ContentsAreSelectors DEF SetOK
<1>2. i \in Nat
    BY ContentsAreSelectors DEF SetOK
<1>3. ASSUME s.buckets[i] = NULL
      PROVE  Moved(s, new, i + 1)
  <2>1. i \notin Full(s)
    BY <1>3 DEF Full
  <2>2. Below(i + 1) = Below(i)
    BY <1>1, <1>2, <2>1
  <2>3. QED
    BY <2>2 DEF Moved
<1>4. ASSUME s.buckets[i] # NULL
      PROVE  /\ Moved(s, PutIn(new, s.buckets[i]), i + 1)
             /\ s.buckets[i] \in Selectors
             /\ PutIn(new, s.buckets[i]).count = new.count
             /\ PutIn(new, s.buckets[i]).capacity = new.capacity
             /\ PutIn(new, s.buckets[i]).bucketsNum = new.bucketsNum
  <2>1. i \in Full(s)
    BY <1>4 DEF Full
  <2>2. Below(i + 1) = Below(i) \cup {i} /\ i \notin Below(i)
    <3>1. \A k \in Full(s) : k < i + 1 <=> (k < i \/ k = i)
      BY <1>1, <1>2
    <3>2. ~ (i < i)
      BY <1>2
    <3>3. QED
      BY <2>1, <3>1, <3>2
  <2>3. IsFiniteSet(Full(s)) /\ Cardinality(Full(s)) = s.count
    BY FullIsFinite DEF SetOK
  <2>4. /\ IsFiniteSet(Below(i)) /\ IsFiniteSet(Below(i + 1))
        /\ Cardinality(Below(i + 1)) <= Cardinality(Full(s))
    BY <2>3, FS_Subset
  <2>5. /\ Cardinality(Below(i + 1)) = Cardinality(Below(i)) + 1
        /\ Cardinality(Below(i)) \in Nat /\ s.count \in Nat
    BY <2>2, <2>3, <2>4, FS_AddElement, FS_CardinalityType
  <2>6. new.bucketsNum \in Nat
    BY ContentsAreSelectors DEF Moved
  <2>7. Cardinality(Full(new)) < new.bucketsNum
    BY <2>3, <2>4, <2>5, <2>6 DEF Moved
  <2>8. s.buckets[i] \in Selectors
    BY <2>1, ContentsAreSelectors DEF SetOK
  <2>9. \A x \in Contents(new) : x.name # s.buckets[i].name
    <3>1. \A k \in Below(i) : s.buckets[k].name # s.buckets[i].name
      BY <2>1, <2>2 DEF SetOK, Shaped
    <3>2. QED
      BY <3>1 DEF Moved
  <2>10. {s.buckets[k] : k \in Below(i + 1)} = {s.buckets[k] : k \in Below(i)} \cup {s.buckets[i]}
    BY <2>2
  <2>11. PICK t : t = PutIn(new, s.buckets[i])
    OBVIOUS
  <2>12. /\ Shaped(t) /\ Contents(t) = Contents(new) \cup {s.buckets[i]}
         /\ Cardinality(Full(t)) = Cardinality(Full(new)) + 1
         /\ t.count = new.count /\ t.capacity = new.capacity /\ t.bucketsNum = new.bucketsNum
    BY <2>7, <2>8, <2>9, <2>11, PutInIsShaped DEF Moved
  <2>13. Moved(s, t, i + 1)
    BY <2>5, <2>10, <2>12 DEF Moved
  <2>14. QED
    BY <2>8, <2>11, <2>12, <2>13
<1>5. QED
    BY <1>3, <1>4

\* Growing loses no selector and makes room for one more.
LEMMA GrownIsShaped ==
    ASSUME NEW s, SetOK(s), s.count + 1 <= Cap(SIZE)
    PROVE  /\ Shaped(Grown(s)) /\ Contents(Grown(s)) = Contents(s)
           /\ Grown(s).count = s.count
           /\ Cardinality(Full(Grown(s))) = s.count
           /\ s.count < Grown(s).capacity /\ Grown(s).capacity < Grown(s).bucketsNum
           /\ \E idx \in 1..SIZE : Grown(s).capacity = Cap(idx) /\ Grown(s).bucketsNum = Room(idx)
<1>0. PICK N : N = s.bucketsNum
    OBVIOUS
<1>1. N \in Nat \ {0} /\ N = s.bucketsNum
    BY <1>0, ContentsAreSelectors DEF SetOK
<1>2. s.count \in Nat /\ Cap(SIZE) \in Nat
    BY TablesAre DEF SetOK, Shaped, Sets, SIZE
<1>3. PICK idx \in 1..SIZE : idx = IndexFor(s.count + 1) /\ Cap(idx) >= s.count + 1
  <2>1. s.count + 1 \in 0..Cap(SIZE)
    BY <1>2
  <2>2. QED
    BY <2>1, IndexIsFound
<1>4. PICK nb \in Nat \ {0} : nb = Room(idx) /\ Cap(idx) < nb /\ Cap(idx) \in Nat
    BY TablesAre
<1>5. PICK base : base = [EmptySet(idx) EXCEPT !.count = s.count]
    OBVIOUS
<1>6. /\ base.count = s.count /\ base.capacity = Cap(idx) /\ base.bucketsNum = nb
      /\ base.buckets \in [0..nb - 1 -> Selectors \cup {NULL}]
      /\ Shaped(base) /\ Full(base) = {} /\ Contents(base) = {}
    BY <1>2, <1>4, <1>5, EmptyIsShaped
<1>7. PICK V : V = [count : Nat, capacity : Nat, bucketsNum : {nb},
                    buckets : [0..nb - 1 -> Selectors \cup {NULL}]]
    OBVIOUS
<1>8. base \in V
  <2>1. base \in Sets
    BY <1>6 DEF Shaped
  <2>2. QED
    BY <1>2, <1>4, <1>6, <1>7, <2>1 DEF Sets
<1>9. PICK step : step = [i \in 1..N |-> [v \in V |->
              IF s.buckets[i - 1] = NULL THEN v ELSE PutIn(v, s.buckets[i - 1])]]
    OBVIOUS
<1>10. \A i \in 1..N : s.buckets[i - 1] \in Selectors \cup {NULL}
  <2>1. \A i \in 1..N : i - 1 \in 0..N - 1
    BY <1>1
  <2>2. s.buckets \in [0..N - 1 -> Selectors \cup {NULL}]
    BY <1>1 DEF SetOK, Shaped
  <2>3. QED
    BY <2>1, <2>2
<1>11. step \in [1..N -> [V -> V]]
  <2>1. ASSUME NEW i \in 1..N, NEW v \in V, s.buckets[i - 1] # NULL
        PROVE  PutIn(v, s.buckets[i - 1]) \in V
    BY <1>7, <1>10, <2>1, PutInType
  <2>2. QED
    BY <1>9, <2>1
<1>12. PICK g \in [0..N -> V] : \A i \in 0..N :
              g[i] = IF i = 0 THEN base ELSE step[i][g[i - 1]]
  <2>1. Iteration(N, V, base, step)
    BY <1>1, <1>8, <1>11 DEF Iteration
  <2>2. QED
    BY <2>1, PrefixRecursion
<1>13. g = [i \in 0..N |-> IF i = 0 THEN base
                           ELSE IF s.buckets[i - 1] = NULL THEN g[i - 1]
                           ELSE PutIn(g[i - 1], s.buckets[i - 1])]
  <2>1. ASSUME NEW i \in 0..N, i # 0
        PROVE  g[i] = IF s.buckets[i - 1] = NULL THEN g[i - 1]
                      ELSE PutIn(g[i - 1], s.buckets[i - 1])
    <3>1. i \in 1..N /\ i - 1 \in 0..N
      BY <1>1, <2>1
    <3>2. g[i - 1] \in V /\ g[i] = step[i][g[i - 1]]
      BY <1>12, <2>1, <3>1
    <3>3. QED
      BY <1>9, <3>1, <3>2
  <2>2. g[0] = base
    BY <1>1, <1>12
  <2>3. QED
    BY <2>1, <2>2
<1> DEFINE moved[i \in 0..N] == IF i = 0 THEN base
                               ELSE IF s.buckets[i - 1] = NULL THEN moved[i - 1]
                               ELSE PutIn(moved[i - 1], s.buckets[i - 1])
<1>14. moved = [i \in 0..N |-> IF i = 0 THEN base
                               ELSE IF s.buckets[i - 1] = NULL THEN moved[i - 1]
                               ELSE PutIn(moved[i - 1], s.buckets[i - 1])]
    BY <1>13
<1>15. Grown(s) = moved[N]
    BY <1>1, <1>3, <1>5 DEF Grown
<1> HIDE DEF moved
<1> DEFINE Good(i) == /\ Moved(s, moved[i], i)
                      /\ moved[i].count = s.count /\ moved[i].capacity = Cap(idx)
                      /\ moved[i].bucketsNum = nb
           G == {i \in 0..N : Good(i)}
<1>16. 0 \in G
  <2>1. moved[0] = base
    BY <1>1, <1>14
  <2>2. {k \in Full(s) : k < 0} = {}
    <3>1. \A k \in Full(s) : k \in Nat
      BY ContentsAreSelectors DEF SetOK
    <3>2. QED
      BY <3>1
  <2>3. Moved(s, base, 0)
    <3>1. {s.buckets[k] : k \in {}} = {}
      OBVIOUS
    <3>2. QED
      BY <1>6, <2>2, <3>1 DEF Moved
  <2>4. QED
    BY <1>1, <1>6, <2>1, <2>3
<1>17. ASSUME NEW i \in 0..N, i \in G, i < N
       PROVE  i + 1 \in G
  <2>1. i + 1 \in 0..N /\ i + 1 # 0 /\ (i + 1) - 1 = i /\ i \in 0..s.bucketsNum - 1
    BY <1>1, <1>17
  <2>2. moved[i + 1] = IF s.buckets[i] = NULL THEN moved[i] ELSE PutIn(moved[i], s.buckets[i])
    BY <1>14, <2>1
  <2>3. PICK new : new = moved[i]
    OBVIOUS
  <2>4. /\ Moved(s, new, i) /\ s.count < new.bucketsNum
        /\ new.count = s.count /\ new.capacity = Cap(idx) /\ new.bucketsNum = nb
    BY <1>2, <1>3, <1>4, <1>17, <2>3
  <2>5. Good(i + 1)
    BY <2>1, <2>2, <2>3, <2>4, MoveOn
  <2>6. QED
    BY <2>1, <2>5
<1>18. N \in G
  <2>1. G \in SUBSET (0..N)
    OBVIOUS
  <2> HIDE DEF G
  <2>2. G = 0..N
    BY <1>1, <1>16, <1>17, <2>1, PrefixInduction
  <2>3. QED
    BY <1>1, <2>2
<1>19. {k \in Full(s) : k < N} = Full(s)
  <2>1. \A k \in Full(s) : k < N
    BY <1>1 DEF Full
  <2>2. QED
    BY <2>1
<1>20. /\ Shaped(moved[N]) /\ Contents(moved[N]) = Contents(s)
       /\ Cardinality(Full(moved[N])) = s.count
    BY <1>18, <1>19 DEF Moved, Contents, SetOK
<1>21. QED
    BY <1>2, <1>3, <1>4, <1>15, <1>18, <1>20

\* A set with one selector more, when the largest set has room for it.
LEMMA AddedIsOK ==
    ASSUME NEW s, SetOK(s), s.count + 1 <= Cap(SIZE),
           NEW sel \in Selectors, \A x \in Contents(s) : x.name # sel.name
    PROVE  /\ SetOK(__objc_sel_set_add(s, sel))
           /\ Contents(__objc_sel_set_add(s, sel)) = Contents(s) \cup {sel}
<1>1. s.count \in Nat /\ s.capacity \in Nat /\ s.bucketsNum \in Nat
    BY DEF SetOK, Shaped, Sets
<1>2. PICK roomy : roomy = IF IsFull(s) THEN Grown(s) ELSE s
    OBVIOUS
<1>3. /\ Shaped(roomy) /\ Contents(roomy) = Contents(s) /\ roomy.count = s.count
      /\ Cardinality(Full(roomy)) = s.count
      /\ s.count < roomy.capacity /\ roomy.capacity < roomy.bucketsNum
      /\ \E idx \in 1..SIZE : roomy.capacity = Cap(idx) /\ roomy.bucketsNum = Room(idx)
  <2>1. CASE IsFull(s)
    BY <1>2, <2>1, GrownIsShaped
  <2>2. CASE ~ IsFull(s)
    BY <1>1, <1>2, <2>2 DEF IsFull, SetOK
  <2>3. QED
    BY <2>1, <2>2
<1>4. roomy.capacity \in Nat /\ roomy.bucketsNum \in Nat
    BY <1>3 DEF Shaped, Sets
<1>5. PICK t : t = PutIn(roomy, sel)
    OBVIOUS
<1>6. /\ Shaped(t) /\ Contents(t) = Contents(s) \cup {sel}
      /\ Cardinality(Full(t)) = s.count + 1
      /\ t.capacity = roomy.capacity /\ t.bucketsNum = roomy.bucketsNum
    BY <1>1, <1>3, <1>4, <1>5, PutInIsShaped
<1>7. PICK r : r = [t EXCEPT !.count = s.count + 1]
    OBVIOUS
<1>8. __objc_sel_set_add(s, sel) = r
    BY <1>2, <1>3, <1>5, <1>7 DEF __objc_sel_set_add
<1>9. /\ r.count = s.count + 1 /\ r.capacity = t.capacity /\ r.bucketsNum = t.bucketsNum
      /\ r.buckets = t.buckets /\ r \in Sets
  <2>1. t \in Sets /\ s.count + 1 \in Nat
    BY <1>1, <1>6 DEF Shaped
  <2>2. QED
    BY <1>7, <2>1 DEF Sets
<1>10. Full(r) = Full(t) /\ Contents(r) = Contents(t)
    BY <1>9 DEF Full, Contents
<1>11. Shaped(r)
    BY <1>6, <1>9, <1>10 DEF Shaped, Reached
<1>12. QED
    BY <1>1, <1>3, <1>4, <1>6, <1>8, <1>9, <1>10, <1>11 DEF SetOK

\* get answers with the selector of that name, or none.
LEMMA GetIsRight ==
    ASSUME NEW s, SetOK(s), NEW name \in Names
    PROVE  /\ Ends(s, name) # {}
           /\ \A x \in Contents(s) : x.name = name => __objc_sel_set_get(s, name) = x
           /\ (\A x \in Contents(s) : x.name # name) => __objc_sel_set_get(s, name) = NULL
<1>1. Full(s) # 0..s.bucketsNum - 1
  <2>1. s.count \in Nat /\ s.capacity \in Nat /\ s.bucketsNum \in Nat
    BY DEF SetOK, Shaped, Sets
  <2>2. Cardinality(Full(s)) < s.bucketsNum
    BY <2>1 DEF SetOK
  <2>3. QED
    BY <2>2, FullIsFinite DEF SetOK
<1>2. QED
    BY <1>1, EndsThere, BucketsFound DEF SetOK, Contents, __objc_sel_set_get

\* The set never has more selectors than there are names.
LEMMA CountIsBounded ==
    ASSUME NEW s, SetOK(s), NEW name \in Names, \A x \in Contents(s) : x.name # name
    PROVE  s.count + 1 <= Cap(SIZE)
<1>1. PICK f : f = [i \in Full(s) |-> s.buckets[i].name]
    OBVIOUS
<1>2. f \in Injection(Full(s), Names \ {name})
  <2>1. f \in [Full(s) -> Names \ {name}]
    BY <1>1, ContentsAreSelectors DEF SetOK, Contents
  <2>2. \A i, j \in Full(s) : f[i] = f[j] => i = j
    BY <1>1 DEF SetOK, Shaped
  <2>3. QED
    BY <2>1, <2>2 DEF Injection, IsInjective
<1>3. /\ IsFiniteSet(Names) /\ Cardinality(Names) \in Nat
      /\ IsFiniteSet(Names \ {name}) /\ Cardinality(Names \ {name}) = Cardinality(Names) - 1
    BY SelRegistryAssumption, FS_CardinalityType, FS_RemoveElement
<1>4. Cardinality(Full(s)) <= Cardinality(Names \ {name})
    BY <1>2, <1>3, FS_Injection
<1>5. Cardinality(Names) <= Cap(SIZE) /\ Cap(SIZE) \in Nat
  <2>1. SIZE \in 1..SIZE
    BY DEF SIZE
  <2>2. QED
    BY <2>1, SelRegistryAssumption, TablesAre DEF Cap
<1>6. s.count \in Nat /\ s.count = Cardinality(Full(s))
    BY DEF SetOK, Shaped, Sets
<1>7. QED
    BY <1>3, <1>4, <1>5, <1>6

-----------------------------------------------------------------------------
(* The invariant: the set is as its operations leave it, and what a thread  *)
(* has found out about its name still holds where it relies on it.         *)

\* What the registry says of a name, in any of its sets.
Found(s, n) == IF s = NULL THEN NULL ELSE __objc_sel_set_get(s, n)

LEMMA FoundIs ==
    ASSUME NEW s, s # NULL => SetOK(s), NEW n \in Names
    PROVE  /\ Found(s, n) \in Selectors \cup {NULL}
           /\ Found(s, n) # NULL => Found(s, n).name = n /\ Found(s, n) \in Contents(s)
           /\ Found(s, n) = NULL => s = NULL \/ \A x \in Contents(s) : x.name # n
           /\ s # NULL => Ends(s, n) # {}
<1>1. CASE s = NULL
    BY <1>1 DEF Found
<1>2. CASE s # NULL
  <2>1. Contents(s) \subseteq Selectors /\ NULL \notin Selectors
    BY <1>2, ContentsAreSelectors DEF SetOK
  <2>2. Found(s, n) = __objc_sel_set_get(s, n)
    BY <1>2 DEF Found
  <2>3. QED
    BY <1>2, <2>1, <2>2, GetIsRight
<1>3. QED
    BY <1>1, <1>2

\* A name that is added is found from then on, and all others as before.
LEMMA AddedIsFound ==
    ASSUME NEW s, s # NULL => SetOK(s), NEW sel \in Selectors, Found(s, sel.name) = NULL
    PROVE  LET created == IF s = NULL THEN __objc_sel_set_create(NUM_NONBUILTIN_SELS) ELSE s
               added == __objc_sel_set_add(created, sel)
           IN  /\ SetOK(added) /\ added # NULL
               /\ \A n \in Names : Found(added, n) = IF n = sel.name THEN sel ELSE Found(s, n)
<1> DEFINE created == IF s = NULL THEN __objc_sel_set_create(NUM_NONBUILTIN_SELS) ELSE s
           added == __objc_sel_set_add(created, sel)
<1>1. sel.name \in Names
    BY DEF Selectors
<1>2. /\ SetOK(created) /\ \A x \in Contents(created) : x.name # sel.name
      /\ \A n \in Names : Found(s, n) = IF \E x \in Contents(created) : x.name = n
                                        THEN __objc_sel_set_get(created, n) ELSE NULL
  <2>1. CASE s = NULL
    <3>1. PICK idx \in 1..SIZE : idx = IndexFor(NUM_NONBUILTIN_SELS)
      BY SelRegistryAssumption, IndexIsFound DEF Cap
    <3>2. PICK t : t = [EmptySet(idx) EXCEPT !.count = 0]
      OBVIOUS
    <3>3. /\ t.count = 0 /\ t.capacity = Cap(idx) /\ t.bucketsNum = Room(idx)
          /\ t.capacity < t.bucketsNum
          /\ Shaped(t) /\ Full(t) = {} /\ Contents(t) = {}
      BY <3>2, EmptyIsShaped
    <3>4. created = t
      <4>1. EmptySet(idx) = [count |-> 0, capacity |-> Cap(idx), bucketsNum |-> Room(idx),
                             buckets |-> [i \in 0..Room(idx) - 1 |-> NULL]]
        BY DEF EmptySet, Cap, Room
      <4>2. PICK f : f = [i \in 0..Room(idx) - 1 |-> NULL]
        OBVIOUS
      <4>3. EmptySet(idx) = [count |-> 0, capacity |-> Cap(idx), bucketsNum |-> Room(idx),
                             buckets |-> f]
        BY <4>1, <4>2
      <4>4. t = EmptySet(idx)
        BY <3>2, <4>3
      <4>5. QED
        BY <2>1, <3>1, <4>4 DEF __objc_sel_set_create
    <3>5. Cap(idx) \in Nat /\ Cardinality(Full(t)) = 0
      BY <3>3, TablesAre, FS_EmptySet
    <3>6. SetOK(t)
      BY <3>3, <3>5 DEF SetOK
    <3> HIDE DEF created, added
    <3>7. QED
      BY <2>1, <3>3, <3>4, <3>6 DEF Found
  <2>2. CASE s # NULL
    <3>1. created = s /\ \A x \in Contents(s) : x.name # sel.name
      BY <1>1, <2>2, FoundIs
    <3> HIDE DEF created, added
    <3>2. QED
      BY <2>2, <3>1, GetIsRight DEF Found
  <2>3. QED
    BY <2>1, <2>2
<1> HIDE DEF created
<1>3. SetOK(added) /\ Contents(added) = Contents(created) \cup {sel}
    BY <1>1, <1>2, CountIsBounded, AddedIsOK
<1>4. added # NULL
    BY <1>3, SetOKType
<1>5. PICK a : a = added
    OBVIOUS
<1> HIDE DEF added
<1>6. ASSUME NEW n \in Names
      PROVE  Found(a, n) = IF n = sel.name THEN sel ELSE Found(s, n)
  <2>1. \A x \in Contents(a) : x.name = n => Found(a, n) = x
    BY <1>3, <1>4, <1>5, GetIsRight DEF Found
  <2>2. (\A x \in Contents(a) : x.name # n) => Found(a, n) = NULL
    BY <1>3, <1>4, <1>5, GetIsRight DEF Found
  <2>3. \A x \in Contents(created) : x.name = n => __objc_sel_set_get(created, n) = x
    BY <1>2, GetIsRight
  <2>4. CASE n = sel.name
    BY <1>3, <1>5, <2>1, <2>4
  <2>5. CASE n # sel.name
    <3>1. CASE \E x \in Contents(created) : x.name = n
      BY <1>2, <1>3, <1>5, <2>1, <2>3, <2>5, <3>1
    <3>2. CASE \A x \in Contents(created) : x.name # n
      BY <1>2, <1>3, <1>5, <2>2, <2>5, <3>2
    <3>3. QED
      BY <2>5, <3>1, <3>2
  <2>6. QED
    BY <2>4, <2>5
<1>7. QED
    BY <1>3, <1>4, <1>5, <1>6 DEF created, added

Labels == {"idle", "search", "read", "get", "write", "rescan",
           "add", "isMapped", "ask", "peek", "lock", "fix", "done"}

TypesOK ==
    /\ builtins \in {Builtins, {}}
    /\ selLock \in Threads \cup {NULL}
    /\ pc \in [Threads -> Labels]
    /\ todo \in [Threads -> Seq(Names)]
    /\ answer \in [Threads -> Selectors \cup Mappings \cup {NULL}]

SetIsOK == selectors # NULL => SetOK(selectors)

\* Where a thread has a name, has looked for it among the builtin ones, and has the lock.
AskingOK == \A t \in Threads :
    pc[t] \notin {"idle", "lock", "fix", "done"} => todo[t] # <<>>

NotBuiltinOK == \A t \in Threads :
    pc[t] \in {"read", "get", "write", "rescan", "add", "ask", "peek"} =>
        SearchBuiltins(Name(t)) = NULL

LockedOK == \A t \in Threads :
    pc[t] \in {"get", "rescan", "add", "peek", "fix"} => selLock = t

\* The second look under the lock is still right when the name is added.
AddOK == \A t \in Threads : pc[t] = "add" => Lookup(Name(t)) = NULL

Inv == TypesOK /\ SetIsOK /\ AskingOK /\ NotBuiltinOK /\ LockedOK /\ AddOK

\* The address of a name, for Interning.
Address(n) == IF SearchBuiltins(n) # NULL THEN SearchBuiltins(n) ELSE Lookup(n)

LEMMA LookupIs ==
    ASSUME SetIsOK, NEW n \in Names
    PROVE  /\ Lookup(n) = Found(selectors, n)
           /\ Lookup(n) \in Selectors \cup {NULL}
           /\ Lookup(n) # NULL => Lookup(n).name = n
           /\ ProbeEndsFor(n)
BY FoundIs DEF SetIsOK, Lookup, Found, ProbeEndsFor

LEMMA BuiltinIs ==
    ASSUME NEW n \in Names
    PROVE  /\ SearchBuiltins(n) \in Selectors \cup {NULL}
           /\ SearchBuiltins(n) # NULL => SearchBuiltins(n).name = n
BY DEF SearchBuiltins, Selectors

LEMMA AddressIs ==
    ASSUME SetIsOK, NEW n \in Names
    PROVE  /\ Address(n) \in Selectors \cup {NULL}
           /\ Address(n) # NULL => Address(n).name = n
BY LookupIs, BuiltinIs DEF Address

\* What a thread asks for.
LEMMA NameIs ==
    ASSUME TypesOK, NEW t \in Threads, todo[t] # <<>>
    PROVE  Name(t) \in Names /\ Tail(todo[t]) \in Seq(Names)
<1>1. todo[t] \in Seq(Names)
    BY DEF TypesOK
<1>2. QED
    BY <1>1 DEF Name

\* A selector is added to the set, or to a new one.
LEMMA Registering ==
    ASSUME SetIsOK, NEW sel \in Selectors, Lookup(sel.name) = NULL,
           selectors' = __objc_sel_set_add(Created, sel)
    PROVE  /\ SetIsOK'
           /\ \A n \in Names : Lookup(n)' = IF n = sel.name THEN sel ELSE Lookup(n)
<1>1. sel.name \in Names /\ Found(selectors, sel.name) = NULL
    BY LookupIs DEF Selectors
<1>2. /\ SetOK(selectors') /\ selectors' # NULL
      /\ \A n \in Names : Found(selectors', n) = IF n = sel.name THEN sel
                                                 ELSE Found(selectors, n)
    BY <1>1, AddedIsFound DEF SetIsOK, Created
<1>3. QED
    BY <1>2 DEF SetIsOK, Lookup, Found

-----------------------------------------------------------------------------
(* Every step keeps the invariant.                                         *)

\* Thread t goes on, at label, with these names to look up.
LEMMA Moves ==
    ASSUME Inv, NEW t \in Threads, NEW label \in Labels, NEW names \in Seq(Names),
           pc' = [pc EXCEPT ![t] = label], todo' = [todo EXCEPT ![t] = names],
           builtins' = builtins,
           answer' \in [Threads -> Selectors \cup Mappings \cup {NULL}],
           label \notin {"idle", "lock", "fix", "done"} => names # <<>>,
           label \in {"read", "get", "write", "rescan", "add", "ask", "peek"} =>
               SearchBuiltins(Head(names)) = NULL,
           label \in {"get", "rescan", "add", "peek", "fix"} => selLock' = t,
           selLock' \in {selLock, t, NULL},
           selLock' = selLock \/ selLock = NULL \/ selLock = t,
           selectors' = selectors \/ (SetIsOK' /\ selLock = t),
           label = "add" => selectors' = selectors /\ Lookup(Head(names)) = NULL
    PROVE  Inv'
<1>1. TypesOK /\ t # NULL
    BY SelRegistryAssumption DEF Inv
<1>2. /\ pc'[t] = label /\ todo'[t] = names
      /\ \A u \in Threads : u # t => pc'[u] = pc[u] /\ todo'[u] = todo[u]
    BY <1>1 DEF TypesOK
<1>3. TypesOK'
    BY <1>1 DEF TypesOK
<1>4. SetIsOK'
    BY DEF Inv, SetIsOK
<1>5. AskingOK'
    BY <1>2 DEF Inv, AskingOK
<1>6. \A n : SearchBuiltins(n)' = SearchBuiltins(n)
    BY DEF SearchBuiltins
<1>7. \A u \in Threads : Name(u)' = IF u = t THEN Head(names) ELSE Name(u)
    BY <1>2 DEF Name
<1>8. NotBuiltinOK'
    BY <1>2, <1>6, <1>7 DEF Inv, NotBuiltinOK
<1>9. LockedOK'
  <2> SUFFICES ASSUME NEW u \in Threads,
                      pc'[u] \in {"get", "rescan", "add", "peek", "fix"}
               PROVE  selLock' = u
    BY DEF LockedOK
  <2>1. CASE u = t
    BY <1>2, <2>1
  <2>2. CASE u # t
    <3>1. selLock = u
      BY <1>2, <2>2 DEF Inv, LockedOK
    <3>2. u # NULL
      BY SelRegistryAssumption
    <3>3. QED
      BY <2>2, <3>1, <3>2
  <2>3. QED
    BY <2>1, <2>2
<1>10. AddOK'
  <2> SUFFICES ASSUME NEW u \in Threads, pc'[u] = "add"
               PROVE  Lookup(Name(u))' = NULL
    BY DEF AddOK
  <2>1. selectors' = selectors => \A n : Lookup(n)' = Lookup(n)
    BY DEF Lookup
  <2>2. CASE u = t
    BY <1>2, <1>7, <2>1, <2>2
  <2>3. CASE u # t
    <3>1. pc[u] = "add" /\ selLock = u
      BY <1>2, <2>3 DEF Inv, LockedOK
    <3>2. Lookup(Name(u)) = NULL /\ selectors' = selectors
      BY <2>3, <3>1 DEF Inv, AddOK
    <3>3. QED
      BY <1>7, <2>1, <2>3, <3>2
  <2>4. QED
    BY <2>2, <2>3
<1>11. QED
    BY <1>3, <1>4, <1>5, <1>8, <1>9, <1>10 DEF Inv

\* Its names are those it had.
LEMMA KeepsItsNames ==
    ASSUME Inv, NEW t \in Threads
    PROVE  /\ todo[t] \in Seq(Names) /\ <<>> \in Seq(Names)
           /\ todo = [todo EXCEPT ![t] = todo[t]] /\ pc = [pc EXCEPT ![t] = pc[t]]
           /\ answer \in [Threads -> Selectors \cup Mappings \cup {NULL}]
           /\ \A a \in Selectors \cup Mappings \cup {NULL} :
                 [answer EXCEPT ![t] = a] \in [Threads -> Selectors \cup Mappings \cup {NULL}]
           /\ Name(t) = Head(todo[t])
           /\ pc[t] \notin {"idle", "lock", "fix", "done"} => Name(t) \in Names /\ todo[t] # <<>>
           /\ pc[t] \in Labels
<1>1. TypesOK
    BY DEF Inv
<1>2. todo[t] \in Seq(Names) /\ <<>> \in Seq(Names)
    BY <1>1 DEF TypesOK
<1>3. /\ todo = [todo EXCEPT ![t] = todo[t]] /\ pc = [pc EXCEPT ![t] = pc[t]]
      /\ answer \in [Threads -> Selectors \cup Mappings \cup {NULL}]
      /\ \A a \in Selectors \cup Mappings \cup {NULL} :
            [answer EXCEPT ![t] = a] \in [Threads -> Selectors \cup Mappings \cup {NULL}]
      /\ pc[t] \in Labels
    BY <1>1 DEF TypesOK
<1>4. pc[t] \notin {"idle", "lock", "fix", "done"} => Name(t) \in Names /\ todo[t] # <<>>
    BY <1>1, NameIs DEF Inv, AskingOK
<1>5. QED
    BY <1>2, <1>3, <1>4 DEF Name

LEMMA CallKeeps ==
    ASSUME Inv, NEW t \in Threads, Call(t)
    PROVE  Inv'
<1>1. ASSUME NEW op \in {"search", "isMapped", "lock"}, NEW names \in Seq(Names),
             op # "lock" => names # <<>>, Begin(t, op, names)
      PROVE  Inv'
    BY <1>1, KeepsItsNames, Moves DEF Begin, Labels
<1>2. ASSUME NEW n \in Registered, Begin(t, "search", <<n>>)
      PROVE  Inv'
  <2>1. PICK names : names = <<n>>
    OBVIOUS
  <2>2. names \in Seq(Names) /\ names # <<>>
    BY <2>1, SelRegistryAssumption
  <2>3. QED
    BY <1>1, <1>2, <2>1, <2>2
<1>3. ASSUME NEW n \in Asked, Begin(t, "isMapped", <<n>>)
      PROVE  Inv'
  <2>1. PICK names : names = <<n>>
    OBVIOUS
  <2>2. names \in Seq(Names) /\ names # <<>>
    BY <2>1, SelRegistryAssumption
  <2>3. QED
    BY <1>1, <1>3, <2>1, <2>2
<1>4. ASSUME NEW names \in Batches, Begin(t, "lock", names)
      PROVE  Inv'
    BY <1>1, <1>4, SelRegistryAssumption
<1>5. QED
    BY <1>2, <1>3, <1>4 DEF Call

LEMMA AcquireKeeps ==
    ASSUME Inv, NEW t \in Threads,
           \/ Acquire(t, "read", "get") \/ Acquire(t, "write", "rescan")
           \/ Acquire(t, "ask", "peek") \/ Acquire(t, "lock", "fix")
    PROVE  Inv'
<1>1. ASSUME NEW from, NEW to \in {"get", "rescan", "peek", "fix"}, Acquire(t, from, to),
             from # "lock" => SearchBuiltins(Name(t)) = NULL /\ todo[t] # <<>>,
             from = "lock" => to = "fix"
      PROVE  Inv'
  <2>1. to \in Labels
    BY DEF Labels
  <2>2. to # "fix" => SearchBuiltins(Head(todo[t])) = NULL /\ todo[t] # <<>>
    BY <1>1, KeepsItsNames
  <2>3. QED
    BY <1>1, <2>1, <2>2, KeepsItsNames, Moves DEF Acquire
<1>2. pc[t] \in {"read", "write", "ask"} => SearchBuiltins(Name(t)) = NULL /\ todo[t] # <<>>
    BY DEF Inv, NotBuiltinOK, AskingOK
<1>3. QED
    BY <1>1, <1>2 DEF Acquire

\* A call of t ends with this answer.
LEMMA FinishKeeps ==
    ASSUME Inv, NEW t \in Threads, NEW a \in Selectors \cup Mappings, Finish(t, a),
           builtins' = builtins,
           selLock' \in {selLock, NULL},
           selLock' = selLock \/ selLock = t,
           selectors' = selectors \/ (SetIsOK' /\ selLock = t)
    PROVE  Inv'
<1>1. "done" \in Labels /\ <<>> \in Seq(Names)
    BY KeepsItsNames DEF Labels
<1>2. answer' \in [Threads -> Selectors \cup Mappings \cup {NULL}]
    BY KeepsItsNames DEF Finish
<1>3. QED
    BY <1>1, <1>2, Moves DEF Finish

\* It goes to another place, with its names.
LEMMA GotoKeeps ==
    ASSUME Inv, NEW t \in Threads, NEW label \in Labels, Goto(t, label),
           pc[t] \notin {"idle", "lock", "fix", "done"} \/ label \in {"idle", "lock", "fix", "done"},
           builtins' = builtins, selectors' = selectors,
           label \in {"read", "get", "write", "rescan", "add", "ask", "peek"} =>
               SearchBuiltins(Name(t)) = NULL,
           label \in {"get", "rescan", "add", "peek", "fix"} => selLock' = t,
           selLock' \in {selLock, NULL},
           selLock' = selLock \/ selLock = t,
           label = "add" => Lookup(Name(t)) = NULL
    PROVE  Inv'
<1>1. todo' = [todo EXCEPT ![t] = todo[t]] /\ pc' = [pc EXCEPT ![t] = label]
    BY KeepsItsNames DEF Goto
<1>2. answer' \in [Threads -> Selectors \cup Mappings \cup {NULL}] /\ todo[t] \in Seq(Names)
    BY KeepsItsNames DEF Goto
<1>3. label \notin {"idle", "lock", "fix", "done"} => todo[t] # <<>>
    BY DEF Inv, AskingOK
<1>4. Name(t) = Head(todo[t])
    BY DEF Name
<1>5. QED
    BY <1>1, <1>2, <1>3, <1>4, Moves

LEMMA SearchKeeps ==
    ASSUME Inv, NEW t \in Threads, Search(t)
    PROVE  Inv'
<1>1. Name(t) \in Names
    BY KeepsItsNames DEF Search
<1>2. CASE SearchBuiltins(Name(t)) = NULL
  <2>1. Goto(t, "read") /\ "read" \in Labels
    BY <1>2 DEF Search, Labels
  <2>2. QED
    BY <1>2, <2>1, GotoKeeps DEF Search
<1>3. CASE SearchBuiltins(Name(t)) # NULL
  <2>1. Finish(t, SearchBuiltins(Name(t))) /\ SearchBuiltins(Name(t)) \in Selectors
    BY <1>1, <1>3, BuiltinIs DEF Search
  <2>2. QED
    BY <2>1, FinishKeeps DEF Search
<1>4. QED
    BY <1>2, <1>3

LEMMA GetKeeps ==
    ASSUME Inv, NEW t \in Threads, Get(t)
    PROVE  Inv'
<1>1. Name(t) \in Names /\ selLock = t /\ SearchBuiltins(Name(t)) = NULL
    BY KeepsItsNames DEF Get, Inv, LockedOK, NotBuiltinOK
<1>2. CASE Lookup(Name(t)) = NULL
  <2>1. Goto(t, "write") /\ "write" \in Labels
    BY <1>2 DEF Get, Labels
  <2>2. QED
    BY <1>1, <2>1, GotoKeeps DEF Get
<1>3. CASE Lookup(Name(t)) # NULL
  <2>1. Finish(t, Lookup(Name(t))) /\ Lookup(Name(t)) \in Selectors
    BY <1>1, <1>3, LookupIs DEF Get, Inv
  <2>2. QED
    BY <1>1, <2>1, FinishKeeps DEF Get
<1>4. QED
    BY <1>2, <1>3

LEMMA RescanKeeps ==
    ASSUME Inv, NEW t \in Threads, Rescan(t)
    PROVE  Inv'
<1>1. Name(t) \in Names /\ selLock = t /\ SearchBuiltins(Name(t)) = NULL
    BY KeepsItsNames DEF Rescan, Inv, LockedOK, NotBuiltinOK
<1>2. CASE Lookup(Name(t)) = NULL
  <2>1. Goto(t, "add") /\ selLock' = selLock /\ "add" \in Labels
    BY <1>2 DEF Rescan, Labels
  <2>2. QED
    BY <1>1, <1>2, <2>1, GotoKeeps DEF Rescan
<1>3. CASE Lookup(Name(t)) # NULL
  <2>1. Finish(t, Lookup(Name(t))) /\ Lookup(Name(t)) \in Selectors /\ selLock' = NULL
    BY <1>1, <1>3, LookupIs DEF Rescan, Inv
  <2>2. QED
    BY <1>1, <2>1, FinishKeeps DEF Rescan
<1>4. QED
    BY <1>2, <1>3

\* The selector that is added.
LEMMA AddIs ==
    ASSUME Inv, NEW t \in Threads, Add(t)
    PROVE  \E new \in Selectors :
              /\ new.name = Name(t) /\ Name(t) \in Names /\ Finish(t, new) /\ selLock = t
              /\ selLock' = NULL /\ builtins' = builtins
              /\ SearchBuiltins(Name(t)) = NULL /\ Lookup(Name(t)) = NULL
              /\ SetIsOK'
              /\ \A n \in Names : Lookup(n)' = IF n = Name(t) THEN new ELSE Lookup(n)
<1>1. /\ Name(t) \in Names /\ selLock = t
      /\ SearchBuiltins(Name(t)) = NULL /\ Lookup(Name(t)) = NULL
    BY KeepsItsNames DEF Add, Inv, LockedOK, NotBuiltinOK, AddOK
<1>2. PICK new : new = [name |-> Name(t), by |-> t]
    OBVIOUS
<1>3. new \in Selectors /\ new.name = Name(t)
    BY <1>1, <1>2 DEF Selectors
<1>4. Finish(t, new) /\ selectors' = __objc_sel_set_add(Created, new)
    BY <1>2 DEF Add
<1>5. QED
    BY <1>1, <1>3, <1>4, Registering DEF Add, Inv

LEMMA AddKeeps ==
    ASSUME Inv, NEW t \in Threads, Add(t)
    PROVE  Inv'
BY AddIs, FinishKeeps

LEMMA IsMappedKeeps ==
    ASSUME Inv, NEW t \in Threads, IsMapped(t)
    PROVE  Inv'
<1>1. Name(t) \in Names
    BY KeepsItsNames DEF IsMapped
<1>2. CASE SearchBuiltins(Name(t)) = NULL
  <2>1. Goto(t, "ask") /\ "ask" \in Labels
    BY <1>2 DEF IsMapped, Labels
  <2>2. QED
    BY <1>2, <2>1, GotoKeeps DEF IsMapped
<1>3. CASE SearchBuiltins(Name(t)) # NULL
  <2>1. PICK a : a = [name |-> Name(t), mapped |-> TRUE]
    OBVIOUS
  <2>2. a \in Mappings /\ Finish(t, a)
    BY <1>1, <1>3, <2>1 DEF IsMapped, Mappings
  <2>3. QED
    BY <2>2, FinishKeeps DEF IsMapped
<1>4. QED
    BY <1>2, <1>3

LEMMA PeekKeeps ==
    ASSUME Inv, NEW t \in Threads, Peek(t)
    PROVE  Inv'
<1>1. Name(t) \in Names /\ selLock = t
    BY KeepsItsNames DEF Peek, Inv, LockedOK
<1>2. PICK a : a = [name |-> Name(t), mapped |-> Lookup(Name(t)) # NULL]
    OBVIOUS
<1>3. a \in Mappings /\ Finish(t, a)
    BY <1>1, <1>2 DEF Peek, Mappings
<1>4. QED
    BY <1>1, <1>3, FinishKeeps DEF Peek

\* What the registration of one name of an image comes to: the selector that
\* was there, or a new one.
LEMMA FixUpIs ==
    ASSUME Inv, NEW t \in Threads, FixUp(t)
    PROVE  \E s \in Selectors :
              /\ s.name = Name(t) /\ Name(t) \in Names
              /\ answer' = [answer EXCEPT ![t] = s]
              /\ SetIsOK'
              /\ \/ selectors' = selectors /\ Address(Name(t)) = s
                 \/ /\ Address(Name(t)) = NULL
                    /\ \A n \in Names : Lookup(n)' = IF n = Name(t) THEN s ELSE Lookup(n)
<1>1. Name(t) \in Names /\ SetIsOK
    BY NameIs DEF FixUp, Inv
<1>2. PICK new : new = [name |-> Name(t), by |-> IF Bundles THEN t ELSE "image"]
    OBVIOUS
<1>3. new \in Selectors /\ new.name = Name(t)
    BY <1>1, <1>2 DEF Selectors
<1>4. PICK old : old = Address(Name(t))
    OBVIOUS
<1>5. \/ old # NULL /\ answer' = [answer EXCEPT ![t] = old] /\ selectors' = selectors
      \/ /\ old = NULL /\ answer' = [answer EXCEPT ![t] = new]
         /\ selectors' = __objc_sel_set_add(Created, new)
    BY <1>2, <1>4 DEF FixUp, Address
<1>6. old \in Selectors \cup {NULL} /\ (old # NULL => old.name = Name(t))
    BY <1>1, <1>4, AddressIs
<1>7. CASE old # NULL
  <2>1. selectors' = selectors /\ answer' = [answer EXCEPT ![t] = old]
    BY <1>5, <1>7
  <2>2. SetIsOK'
    BY <1>1, <2>1 DEF SetIsOK
  <2>3. QED
    BY <1>1, <1>4, <1>6, <1>7, <2>1, <2>2
<1>8. CASE old = NULL
  <2>1. /\ answer' = [answer EXCEPT ![t] = new]
        /\ selectors' = __objc_sel_set_add(Created, new)
    BY <1>5, <1>8
  <2>2. Lookup(Name(t)) = NULL
    BY <1>4, <1>8 DEF Address
  <2>3. SetIsOK' /\ \A n \in Names : Lookup(n)' = IF n = Name(t) THEN new ELSE Lookup(n)
    BY <1>1, <1>3, <2>1, <2>2, Registering
  <2>4. QED
    BY <1>1, <1>3, <1>4, <1>8, <2>1, <2>3
<1>9. QED
    BY <1>7, <1>8

LEMMA FixUpKeeps ==
    ASSUME Inv, NEW t \in Threads, FixUp(t)
    PROVE  Inv'
<1>1. PICK s \in Selectors : answer' = [answer EXCEPT ![t] = s] /\ SetIsOK'
    BY FixUpIs
<1>2. selLock = t /\ Tail(todo[t]) \in Seq(Names)
    BY NameIs DEF FixUp, Inv, LockedOK
<1>3. answer' \in [Threads -> Selectors \cup Mappings \cup {NULL}]
    BY <1>1, KeepsItsNames
<1>4. pc' = [pc EXCEPT ![t] = "fix"] /\ todo' = [todo EXCEPT ![t] = Tail(todo[t])]
    BY KeepsItsNames DEF FixUp, Inv, TypesOK
<1>5. "fix" \in Labels
    BY DEF Labels
<1>6. QED
    BY <1>1, <1>2, <1>3, <1>4, <1>5, Moves DEF FixUp

LEMMA UnlockKeeps ==
    ASSUME Inv, NEW t \in Threads, sel_unlock(t)
    PROVE  Inv'
<1>1. selLock = t /\ "done" \in Labels
    BY DEF sel_unlock, Inv, LockedOK, Labels
<1>2. QED
    BY <1>1, GotoKeeps DEF sel_unlock

LEMMA ReturnKeeps ==
    ASSUME Inv, NEW t \in Threads, Return(t)
    PROVE  Inv'
<1>1. "idle" \in Labels
    BY DEF Labels
<1>2. answer' \in [Threads -> Selectors \cup Mappings \cup {NULL}]
    BY KeepsItsNames DEF Return
<1>3. QED
    BY <1>1, <1>2, KeepsItsNames, Moves DEF Return

LEMMA InitHolds ==
    ASSUME Init
    PROVE  Inv
BY DEF Init, Inv, TypesOK, SetIsOK, AskingOK, NotBuiltinOK, LockedOK, AddOK, Labels

LEMMA NextKeeps ==
    ASSUME Inv, [Next]_vars
    PROVE  Inv'
<1>1. CASE UNCHANGED vars
  <2> USE <1>1 DEF vars
  <2>1. TypesOK' /\ SetIsOK'
    BY DEF Inv, TypesOK, SetIsOK
  <2>2. AskingOK' /\ LockedOK'
    BY DEF Inv, AskingOK, LockedOK
  <2>3. \A n : SearchBuiltins(n)' = SearchBuiltins(n) /\ Lookup(n)' = Lookup(n)
    BY DEF SearchBuiltins, Lookup
  <2>4. \A t \in Threads : Name(t)' = Name(t)
    BY DEF Name
  <2>5. NotBuiltinOK' /\ AddOK'
    BY <2>3, <2>4 DEF Inv, NotBuiltinOK, AddOK
  <2>6. QED
    BY <2>1, <2>2, <2>5 DEF Inv
<1>2. ASSUME NEW t \in Threads, Call(t) \/ Runtime(t)
      PROVE  Inv'
    BY <1>2, CallKeeps, AcquireKeeps, SearchKeeps, GetKeeps, RescanKeeps, AddKeeps,
       IsMappedKeeps, PeekKeeps, FixUpKeeps, UnlockKeeps, ReturnKeeps
       DEF Runtime, ReadLock, WriteLock, AskLock, sel_lock
<1>3. QED
    BY <1>1, <1>2 DEF Next

-----------------------------------------------------------------------------
(* Lemmas: every step is one of Interning, or none.                        *)

Addresses == [n \in Names |-> Address(n)]

\* The mapping of ImplementsInterning.
LEMMA AddressesAre ==
    /\ [n \in Names |-> IF SearchBuiltins(n) # NULL
                        THEN SearchBuiltins(n) ELSE Lookup(n)] = Addresses
    /\ [n \in Names |-> IF SearchBuiltins(n) # NULL
                        THEN SearchBuiltins(n) ELSE Lookup(n)]' = Addresses'
BY DEF Addresses, Address

LEMMA InitRefines ==
    ASSUME Init
    PROVE  Interns!Init
<1>1. SetIsOK
    BY DEF Init, SetIsOK
<1>2. Addresses \in [Names -> Selectors \cup {NULL}]
    BY <1>1, AddressIs DEF Addresses
<1>3. QED
    BY <1>2, AddressesAre DEF Init, Interns!Init

\* A name gets the address s, or has it already, and that is the answer.
LEMMA Registers ==
    ASSUME NEW t \in Threads, NEW n \in Names, NEW s \in Selectors, s.name = n,
           Address(n) \in {s, NULL}, answer' = [answer EXCEPT ![t] = s],
           \A m \in Names : Address(m)' = IF m = n THEN s ELSE Address(m)
    PROVE  Interns!Next
<1>1. Addresses' = [Addresses EXCEPT ![n] = s] /\ Addresses[n] \in {s, NULL}
    BY DEF Addresses
<1>2. Interns!Register(t, n)
    BY <1>1, AddressesAre DEF Interns!Register
<1>3. QED
    BY <1>2 DEF Interns!Next

\* The addresses stay, and thread t is told so.
LEMMA Tells ==
    ASSUME NEW t \in Threads, NEW n \in Names, builtins' = builtins, selectors' = selectors,
           answer' = [answer EXCEPT ![t] = [name |-> n, mapped |-> Address(n) # NULL]]
    PROVE  Interns!Next
<1>1. Addresses' = Addresses
    BY DEF Addresses, Address, SearchBuiltins, Lookup
<1>2. Addresses[n] = Address(n)
    BY DEF Addresses
<1>3. Interns!IsMapped(t, n)
    BY <1>1, <1>2, AddressesAre DEF Interns!IsMapped
<1>4. QED
    BY <1>3 DEF Interns!Next

LEMMA Stutters ==
    ASSUME builtins' = builtins, selectors' = selectors, answer' = answer
    PROVE  UNCHANGED <<Addresses, answer>>
BY DEF Addresses, Address, SearchBuiltins, Lookup

\* The address was there: s is builtin or in the set.
LEMMA Finds ==
    ASSUME NEW t \in Threads, NEW n \in Names, NEW s \in Selectors, s.name = n,
           Address(n) = s, Finish(t, s), builtins' = builtins, selectors' = selectors
    PROVE  Interns!Next
<1>1. \A m \in Names : Address(m)' = Address(m)
    BY DEF Address, SearchBuiltins, Lookup
<1>2. QED
    BY <1>1, Registers DEF Finish

LEMMA NextRefines ==
    ASSUME Inv, [Next]_vars
    PROVE  Interns!Next \/ UNCHANGED <<Addresses, answer>>
<1> DEFINE Refines == Interns!Next \/ UNCHANGED <<Addresses, answer>>
<1>1. CASE UNCHANGED vars
    BY <1>1, Stutters DEF vars
<1>2. ASSUME NEW t \in Threads, Call(t) \/ Runtime(t)
      PROVE  Refines
  <2>1. CASE Call(t)
    BY <2>1, Stutters DEF Call, Begin
  <2>2. CASE ReadLock(t) \/ WriteLock(t) \/ AskLock(t) \/ sel_lock(t)
    BY <2>2, Stutters DEF ReadLock, WriteLock, AskLock, sel_lock, Acquire
  <2>3. CASE sel_unlock(t)
    BY <2>3, Stutters DEF sel_unlock, Goto
  <2>4. CASE Search(t)
    <3>1. Name(t) \in Names
      BY <2>4, KeepsItsNames DEF Search
    <3>2. CASE SearchBuiltins(Name(t)) = NULL
      BY <2>4, <3>2, Stutters DEF Search, Goto
    <3>3. CASE SearchBuiltins(Name(t)) # NULL
      <4>1. Address(Name(t)) = SearchBuiltins(Name(t))
        BY <3>3 DEF Address
      <4>2. QED
        BY <2>4, <3>1, <3>3, <4>1, BuiltinIs, Finds DEF Search
    <3>4. QED
      BY <3>2, <3>3
  <2>5. CASE Get(t) \/ Rescan(t)
    <3>1. /\ Name(t) \in Names /\ SearchBuiltins(Name(t)) = NULL
      BY <2>5, KeepsItsNames DEF Get, Rescan, Inv, NotBuiltinOK
    <3>2. CASE Lookup(Name(t)) = NULL
      BY <2>5, <3>2, Stutters DEF Get, Rescan, Goto
    <3>3. CASE Lookup(Name(t)) # NULL
      <4>1. Address(Name(t)) = Lookup(Name(t))
        BY <3>1 DEF Address
      <4>2. QED
        BY <2>5, <3>1, <3>3, <4>1, LookupIs, Finds DEF Get, Rescan, Inv
    <3>4. QED
      BY <3>2, <3>3
  <2>6. CASE Add(t)
    <3>1. PICK new \in Selectors :
              /\ new.name = Name(t) /\ Name(t) \in Names /\ Finish(t, new)
              /\ builtins' = builtins
              /\ SearchBuiltins(Name(t)) = NULL /\ Lookup(Name(t)) = NULL
              /\ \A n \in Names : Lookup(n)' = IF n = Name(t) THEN new ELSE Lookup(n)
      BY <2>6, AddIs
    <3>2. \A n \in Names : Address(n)' = IF n = Name(t) THEN new ELSE Address(n)
      BY <3>1 DEF Address, SearchBuiltins
    <3>3. Address(Name(t)) = NULL
      BY <3>1 DEF Address
    <3>4. QED
      BY <3>1, <3>2, <3>3, Registers DEF Finish
  <2>7. CASE IsMapped(t)
    <3>1. Name(t) \in Names
      BY <2>7, KeepsItsNames DEF IsMapped
    <3>2. CASE SearchBuiltins(Name(t)) = NULL
      BY <2>7, <3>2, Stutters DEF IsMapped, Goto
    <3>3. CASE SearchBuiltins(Name(t)) # NULL
      <4>1. Address(Name(t)) # NULL
        BY <3>3 DEF Address
      <4>2. answer' = [answer EXCEPT ![t] =
                          [name |-> Name(t), mapped |-> Address(Name(t)) # NULL]]
        BY <2>7, <3>3, <4>1 DEF IsMapped, Finish
      <4>3. QED
        BY <2>7, <3>1, <4>2, Tells DEF IsMapped
    <3>4. QED
      BY <3>2, <3>3
  <2>8. CASE Peek(t)
    <3>1. Name(t) \in Names /\ SearchBuiltins(Name(t)) = NULL
      BY <2>8, KeepsItsNames DEF Peek, Inv, NotBuiltinOK
    <3>2. Lookup(Name(t)) = Address(Name(t))
      BY <3>1 DEF Address
    <3>3. PICK b : b = (Lookup(Name(t)) # NULL)
      OBVIOUS
    <3>4. (Address(Name(t)) # NULL) = b
      BY <3>2, <3>3
    <3>5. answer' = [answer EXCEPT ![t] = [name |-> Name(t), mapped |-> b]]
      BY <2>8, <3>3 DEF Peek, Finish
    <3>6. answer' = [answer EXCEPT ![t] =
                        [name |-> Name(t), mapped |-> Address(Name(t)) # NULL]]
      BY <3>4, <3>5
    <3>7. QED
      BY <2>8, <3>1, <3>6, Tells DEF Peek
  <2>9. CASE FixUp(t)
    <3>1. PICK s \in Selectors :
              /\ s.name = Name(t) /\ Name(t) \in Names
              /\ answer' = [answer EXCEPT ![t] = s]
              /\ \/ selectors' = selectors /\ Address(Name(t)) = s
                 \/ /\ Address(Name(t)) = NULL
                    /\ \A n \in Names : Lookup(n)' = IF n = Name(t) THEN s ELSE Lookup(n)
      BY <2>9, FixUpIs
    <3>2. \A n \in Names : SearchBuiltins(n)' = SearchBuiltins(n)
      BY <2>9 DEF FixUp, SearchBuiltins
    <3>3. CASE selectors' = selectors /\ Address(Name(t)) = s
      <4>1. \A n \in Names : Address(n)' = Address(n)
        BY <3>2, <3>3 DEF Address, Lookup
      <4>2. QED
        BY <3>1, <3>3, <4>1, Registers
    <3>4. CASE /\ Address(Name(t)) = NULL
               /\ \A n \in Names : Lookup(n)' = IF n = Name(t) THEN s ELSE Lookup(n)
      <4>1. SearchBuiltins(Name(t)) = NULL
        BY <3>4 DEF Address
      <4>2. \A n \in Names : Address(n)' = IF n = Name(t) THEN s ELSE Address(n)
        BY <3>2, <3>4, <4>1 DEF Address
      <4>3. QED
        BY <3>1, <3>4, <4>2, Registers
    <3>5. QED
      BY <3>1, <3>3, <3>4
  <2>10. CASE Return(t)
    <3>1. Addresses' = Addresses
      BY <2>10 DEF Return, Addresses, Address, SearchBuiltins, Lookup
    <3>2. Interns!Return(t)
      BY <2>10, <3>1, AddressesAre DEF Return, Interns!Return
    <3>3. QED
      BY <3>2 DEF Interns!Next
  <2>11. QED
    BY <1>2, <2>1, <2>2, <2>3, <2>4, <2>5, <2>6, <2>7, <2>8, <2>9, <2>10 DEF Runtime
<1>3. QED
    BY <1>1, <1>2 DEF Next

-----------------------------------------------------------------------------
(* The theorems.                                                           *)

THEOREM AlwaysInv == Spec => []Inv
<1>1. Init => Inv
    BY InitHolds
<1>2. Inv /\ [Next]_vars => Inv'
    BY NextKeeps
<1>3. QED
    BY <1>1, <1>2, PTL DEF Spec

\* The set has one of the sizes of the source and counts its selectors
\* correctly, and every variable has its type.
THEOREM TypeCorrect == Spec => []TypeOK
<1>1. Inv => TypeOK
  <2> SUFFICES ASSUME Inv
               PROVE  TypeOK
    OBVIOUS
  <2>1. ASSUME selectors # NULL
        PROVE  /\ \E idx \in 1..SIZE : selectors \in SetsOf(idx)
               /\ selectors.count = Cardinality({i \in DOMAIN selectors.buckets :
                                                    selectors.buckets[i] # NULL})
    <3>1. SetOK(selectors)
      BY <2>1 DEF Inv, SetIsOK
    <3>2. DOMAIN selectors.buckets = 0..selectors.bucketsNum - 1
      BY <3>1 DEF SetOK, Shaped
    <3>3. Full(selectors) = {i \in DOMAIN selectors.buckets : selectors.buckets[i] # NULL}
      BY <3>2 DEF Full
    <3>4. QED
      BY <3>1, <3>3, SetOKType DEF SetOK
  <2>2. QED
    BY <2>1 DEF Inv, TypesOK, TypeOK, Labels
<1>2. QED
    BY <1>1, AlwaysInv, PTL

\* The probe loop of objc-sel-set.m ends for every name, after any number of
\* registrations: a set is grown before its last empty bucket is used.
THEOREM ProbeEndsCorrect == Spec => []ProbeEnds
<1>1. Inv => ProbeEnds
    BY LookupIs DEF Inv, ProbeEnds
<1>2. QED
    BY <1>1, AlwaysInv, PTL

\* sel_registerName, sel_isMapped and the registration of an image's selectors
\* implement Interning: every name has one address, whichever threads and
\* images register it and however often the set grows, and every answer is
\* right at some moment of the call.
THEOREM SelRegistryImplementsInterning == Spec => ImplementsInterning
<1>1. Init => Interns!Init
    BY InitRefines
<1>2. Inv /\ [Next]_vars =>
        [Interns!Next]_<<[n \in Names |-> IF SearchBuiltins(n) # NULL
                                         THEN SearchBuiltins(n) ELSE Lookup(n)], answer>>
    BY NextRefines, AddressesAre
<1>3. QED
    BY <1>1, <1>2, AlwaysInv, PTL DEF Spec, ImplementsInterning, Interns!Spec

-----------------------------------------------------------------------------
(* The table of the shared cache.                                          *)

\* The number of slots of the first attempt.
Base == CeilPow2(Cardinality(strings))

-----------------------------------------------------------------------------
(* Lemmas: the numbers of the search.                                      *)

LEMMA BaseIsPositive ==
    ASSUME strings \in Inputs
    PROVE  /\ Base \in Nat \ {0}
           /\ IsFiniteSet(strings) /\ Cardinality(strings) \in Nat
           /\ Cardinality(strings) <= Base
<1>1. IsFiniteSet(strings) /\ strings # {}
    BY PerfectHashAssumption
<1>2. Cardinality(strings) \in Nat /\ Cardinality(strings) # 0
    BY <1>1, FS_CardinalityType, FS_EmptySet
<1>3. Base \in Nat /\ Base >= Cardinality(strings)
    BY ArithmeticAssumption DEF Base
<1>4. QED
    BY <1>1, <1>2, <1>3

\* The first guess is a width that b can have.
LEMMA GuessFits ==
    ASSUME NEW slots \in Nat \ {0}, NEW nkeys \in Nat
    PROVE  initalen(slots, nkeys) \in 1..slots
<1>1. ASSUME NEW g \in {slots \div 16, slots \div 8, slots \div 4}
      PROVE  g \in 0..slots
    BY <1>1
<1>2. QED
    BY <1>1 DEF initalen

\* Two salts can be compared key by key.
LEMMA HashIsValue ==
    ASSUME hash \in Hashes, strings \in Inputs, NEW k \in strings
    PROVE  hash[k] \in HashValues
    BY PerfectHashAssumption DEF HashValues

\* b is never wider than four times the first table.
BlenOK == blen <= 4 * Base

LEMMA PartsAreInRange ==
    ASSUME HTypeOK, BlenOK
    PROVE  /\ smax \in Nat \ {0} /\ smax <= 2 * Base
           /\ \A k \in strings : A(k) \in 0..smax - 1 /\ B(k) \in 0..blen - 1
           /\ \A k \in strings, i \in Codes : Slot(k, i) \in 0..smax - 1
           /\ \A k, l \in strings, i \in Codes : Slot(k, i) = Slot(l, i) => A(k) = A(l)
<1>1. strings \in Inputs /\ smax \in {Base, 2 * Base} /\ hash \in Hashes /\ blen \in Nat \ {0}
    BY DEF HTypeOK, Base
<1>2. PICK n \in Nat \ {0} : n = Base
    BY <1>1, BaseIsPositive
<1>3. smax \in {n, 2 * n} /\ smax \in 1..4 * n /\ blen \in 1..4 * n
    BY <1>1, <1>2 DEF BlenOK
<1>4. ASSUME NEW m \in 1..4 * n, NEW v \in HashValues
      PROVE  Upper(v, m) \in 0..m - 1 /\ Lower(v, m) \in 0..m - 1
    BY <1>1, <1>2, ArithmeticAssumption DEF Base
<1>5. \A k \in strings : A(k) \in 0..smax - 1 /\ B(k) \in 0..blen - 1
    BY <1>1, <1>3, <1>4, HashIsValue DEF A, B
<1>6. /\ \A i \in Codes : Permute(i, smax) \in 0..smax - 1
      /\ \A a, c \in 0..smax - 1 : Xor(a, c) \in 0..smax - 1
      /\ \A a, b, c \in 0..smax - 1 : Xor(a, c) = Xor(b, c) => a = b
    BY <1>1, <1>2, <1>3, ArithmeticAssumption DEF Base
<1>7. QED
    BY <1>2, <1>3, <1>5, <1>6 DEF Slot, Scramble

-----------------------------------------------------------------------------
(* The inductive invariant of the search.                                  *)

\* A list is placed under a salt with distinct pairs, which no retry chose.
PairsOK == stage \in {"perfect", "done"} => DistinctPairs /\ ~ sameSalt

\* The search ends when there is no list left to place.
DoneOK == stage = "done" => \A k \in strings : B(k) \in mapped

HInv == HTypeOK /\ BlenOK /\ PairsOK /\ RetriedSaltIsDistinct /\ SlotsAgree /\ DoneOK

LEMMA InitHInv == HInit => HInv
<1> SUFFICES ASSUME HInit
             PROVE  HInv
    OBVIOUS
<1>1. strings \in Inputs /\ smax = Base /\ stage = "salt" /\ sameSalt = FALSE
    BY DEF HInit, Base
<1>2. PICK n \in Nat \ {0} : n = Base
    BY <1>1, BaseIsPositive
<1>3. blen \in 1..n
    BY <1>1, <1>2, BaseIsPositive, GuessFits DEF HInit
<1>4. hash \in Hashes
    BY PerfectHashAssumption DEF HInit
<1>5. HTypeOK
  <2>1. badInitkey \in 0..RETRY_INITKEY - 1 /\ badPerfect \in 0..RETRY_PERFECT - 1
    BY PerfectHashAssumption DEF HInit
  <2>2. blen \in Nat \ {0}
    BY <1>2, <1>3
  <2>3. smax \in {CeilPow2(Cardinality(strings)), 2 * CeilPow2(Cardinality(strings))}
    BY <1>1 DEF Base
  <2>4. QED
    BY <1>1, <1>4, <2>1, <2>2, <2>3 DEF HTypeOK
<1>6. BlenOK
    BY <1>2, <1>3 DEF BlenOK
<1>7. QED
    BY <1>1, <1>5, <1>6 DEF HInv, PairsOK, RetriedSaltIsDistinct, SlotsAgree, DoneOK

\* Nothing but the search changes its variables.
LEMMA StutterHInv == HInv /\ UNCHANGED hashVars => HInv'
    BY DEF HInv, hashVars, HTypeOK, BlenOK, Base, PairsOK, RetriedSaltIsDistinct,
           DistinctPairs, SlotsAgree, DoneOK, A, B, Index, Slot, Scramble

-----------------------------------------------------------------------------
(* Salts.                                                                  *)

\* A step that leaves the placing of lists has little to keep.
LEMMA OutsidePerfect ==
    ASSUME strings' = strings, stage' \in {"salt", "inittab", "failed"},
           HTypeOK', BlenOK', RetriedSaltIsDistinct'
    PROVE  HInv'
    BY DEF HInv, PairsOK, SlotsAgree, DoneOK

LEMMA NewSaltHInv == HInv /\ NewSalt => HInv'
<1> SUFFICES ASSUME HInv, NewSalt
             PROVE  HInv'
    OBVIOUS
<1> USE DEF HInv
<1>1. HTypeOK' /\ BlenOK'
    BY DEF NewSalt, HTypeOK, BlenOK, Base
<1>2. RetriedSaltIsDistinct'
    BY DEF NewSalt, RetriedSaltIsDistinct, DistinctPairs, A, B
<1>3. strings' = strings /\ stage' = "inittab"
    BY DEF NewSalt
<1>4. QED
    BY <1>1, <1>2, <1>3, OutsidePerfect

LEMMA StartPerfectHInv == HInv /\ StartPerfect => HInv'
<1> SUFFICES ASSUME HInv, StartPerfect
             PROVE  HInv'
    OBVIOUS
<1> USE DEF HInv
<1>1. /\ UNCHANGED <<strings, smax, blen, hash, badInitkey, badPerfect>>
      /\ stage' = "perfect" /\ sameSalt' = FALSE /\ mapped' = {}
      /\ val' = [b \in 0..blen - 1 |-> 0]
      /\ tabh' = [s \in 0..smax - 1 |-> NoKey]
    BY DEF StartPerfect
<1>2. 0 \in Codes
    BY PerfectHashAssumption DEF Codes
<1>3. HTypeOK'
    BY <1>1, <1>2 DEF HTypeOK
<1>4. BlenOK'
    BY <1>1 DEF BlenOK, Base
<1>5. DistinctPairs'
    BY <1>1 DEF StartPerfect, DistinctPairs, A, B
<1>6. SlotsAgree'
    BY <1>1 DEF SlotsAgree
<1>7. QED
    BY <1>1, <1>3, <1>4, <1>5, <1>6 DEF PairsOK, RetriedSaltIsDistinct, DoneOK

LEMMA SamePairHInv == HInv /\ SamePair => HInv'
<1> SUFFICES ASSUME HInv, SamePair
             PROVE  HInv'
    OBVIOUS
<1> USE DEF HInv
<1>1. /\ UNCHANGED <<strings, smax, hash, val, tabh, mapped>>
      /\ stage' = "salt" /\ sameSalt' = FALSE
    BY DEF SamePair
<1>2. smax \in Nat \ {0} /\ smax <= 2 * Base /\ blen \in Nat \ {0} /\ blen <= 4 * Base
    BY PartsAreInRange DEF HTypeOK, BlenOK
<1>3. PICK n \in Nat \ {0} : n = Base
    BY BaseIsPositive DEF HTypeOK
<1>4. blen' \in {blen, Wider} /\ Wider \in Nat \ {0} /\ Wider <= 4 * Base
    BY <1>2, <1>3 DEF SamePair, Wider
<1>5. badInitkey' \in 0..RETRY_INITKEY - 1 /\ badPerfect' \in 0..RETRY_PERFECT - 1
    BY PerfectHashAssumption DEF SamePair, HTypeOK
<1>6. HTypeOK'
    BY <1>1, <1>2, <1>4, <1>5 DEF HTypeOK
<1>7. BlenOK'
    BY <1>1, <1>2, <1>4 DEF BlenOK, Base
<1>8. QED
    BY <1>1, <1>6, <1>7, OutsidePerfect DEF RetriedSaltIsDistinct

-----------------------------------------------------------------------------
(* Lists.                                                                  *)

\* The keys of one list have slots of their own.
LEMMA ListIsSpread ==
    ASSUME HTypeOK, BlenOK, DistinctPairs, NEW b, NEW k \in KeysOf(b), NEW l \in KeysOf(b),
           NEW i \in Codes, Slot(k, i) = Slot(l, i)
    PROVE  k = l
    BY PartsAreInRange DEF KeysOf, DistinctPairs

\* Where a list fits there is no key yet.
LEMMA FitsIsFree ==
    ASSUME NEW b, NEW i, Fits(b, i), NEW k \in KeysOf(b)
    PROVE  tabh[Slot(k, i)] = NoKey
    BY DEF Fits, Hits

LEMMA PlaceHInv == HInv /\ Place => HInv'
<1> SUFFICES ASSUME HInv, Place
             PROVE  HInv'
    OBVIOUS
<1> USE DEF HInv
<1>1. PICK b \in Unmapped, i \in Codes :
          /\ Fits(b, i) /\ Apply(b, i)
          /\ mapped' = mapped \cup {b}
          /\ stage' = IF Unmapped = {b} THEN "done" ELSE "perfect"
    BY DEF Place
<1>2. stage = "perfect" /\ UNCHANGED <<strings, smax, blen, hash, sameSalt, badInitkey, badPerfect>>
    BY DEF Place
<1>3. /\ val \in [0..blen - 1 -> Codes]
      /\ tabh \in [0..smax - 1 -> strings \cup {NoKey}]
      /\ mapped \in SUBSET (0..blen - 1)
      /\ DistinctPairs /\ strings \in Inputs /\ NoKey \notin strings
  <2>1. NoKey \notin strings
    BY PerfectHashAssumption DEF HTypeOK
  <2>2. QED
    BY <1>2, <2>1 DEF HTypeOK, PairsOK
<1>4. b \in 0..blen - 1 /\ b \notin mapped
    BY DEF Unmapped
<1>5. /\ \A k \in strings : A(k)' = A(k) /\ B(k)' = B(k)
      /\ \A k, j : Slot(k, j)' = Slot(k, j)
      /\ KeysOf(b) = {k \in strings : B(k) = b}
    BY <1>2 DEF A, B, Slot, Scramble, KeysOf
<1>6. val' \in [0..blen - 1 -> Codes] /\ val' = [val EXCEPT ![b] = i]
    BY <1>1, <1>3 DEF Apply
<1>7. ASSUME NEW s \in 0..smax - 1
      PROVE  /\ \A k \in KeysOf(b) : Slot(k, i) = s => tabh'[s] = k /\ tabh[s] = NoKey
             /\ (\A k \in KeysOf(b) : Slot(k, i) # s) => tabh'[s] = tabh[s]
  <2>1. tabh'[s] = IF \E k \in KeysOf(b) : Slot(k, i) = s
                   THEN CHOOSE k \in KeysOf(b) : Slot(k, i) = s
                   ELSE IF \E k \in KeysOf(b) : Index(k) = s /\ tabh[s] = k
                   THEN NoKey
                   ELSE tabh[s]
    BY <1>1, <1>3 DEF Apply
  <2>2. ASSUME NEW k \in KeysOf(b), Slot(k, i) = s
        PROVE  tabh'[s] = k /\ tabh[s] = NoKey
    <3>1. \A l \in KeysOf(b) : Slot(l, i) = s => l = k
      BY <1>3, <2>2, ListIsSpread
    <3>2. tabh[s] = NoKey
      BY <1>1, <2>2, FitsIsFree
    <3>3. QED
      BY <2>1, <2>2, <3>1, <3>2
  <2>3. ASSUME \A k \in KeysOf(b) : Slot(k, i) # s
        PROVE  tabh'[s] = tabh[s]
    <3>1. ASSUME NEW k \in KeysOf(b)
          PROVE  tabh[s] # k
      BY <1>2, <1>3, <1>4, <1>5, <3>1 DEF SlotsAgree
    <3>2. QED
      BY <2>1, <2>3, <3>1
  <2>4. QED
    BY <2>2, <2>3
<1>8. tabh' \in [0..smax - 1 -> strings \cup {NoKey}]
  <2>1. DOMAIN tabh' = 0..smax - 1 /\ tabh' = [s \in DOMAIN tabh' |-> tabh'[s]]
    BY <1>1, <1>3 DEF Apply
  <2>2. \A s \in 0..smax - 1 : tabh'[s] \in strings \cup {NoKey}
    BY <1>3, <1>5, <1>7
  <2>3. QED
    BY <2>1, <2>2
<1>9. HTypeOK'
    BY <1>1, <1>2, <1>3, <1>4, <1>6, <1>8 DEF HTypeOK
<1>10. BlenOK' /\ PairsOK' /\ RetriedSaltIsDistinct'
    BY <1>2 DEF BlenOK, Base, PairsOK, RetriedSaltIsDistinct, DistinctPairs, A, B
<1>11. SlotsAgree'
  <2>1. ASSUME NEW k \in strings, B(k) \in mapped \cup {b}
        PROVE  Index(k)' \in 0..smax - 1 /\ tabh'[Index(k)'] = k
    <3>1. B(k) \in 0..blen - 1 /\ B(k)' = B(k)
      BY <1>5, PartsAreInRange
    <3>2. CASE B(k) = b
      <4>1. Index(k)' = Slot(k, i)
        BY <1>3, <1>5, <1>6, <3>1, <3>2 DEF Index
      <4>2. Slot(k, i) \in 0..smax - 1
        BY PartsAreInRange
      <4>3. QED
        BY <1>5, <1>7, <3>2, <4>1, <4>2
    <3>3. CASE B(k) # b
      <4>1. Index(k)' = Index(k)
        BY <1>3, <1>5, <1>6, <3>1, <3>3 DEF Index
      <4>2. Index(k) \in 0..smax - 1 /\ tabh[Index(k)] = k
        BY <1>2, <2>1, <3>3 DEF SlotsAgree
      <4>3. QED
        BY <1>3, <1>7, <4>1, <4>2
    <3>4. QED
      BY <3>2, <3>3
  <2>2. ASSUME NEW s \in 0..smax - 1, tabh'[s] # NoKey
        PROVE  B(tabh'[s]) \in mapped \cup {b}
    <3>1. CASE \E k \in KeysOf(b) : Slot(k, i) = s
      BY <1>5, <1>7, <3>1
    <3>2. CASE \A k \in KeysOf(b) : Slot(k, i) # s
      BY <1>2, <1>7, <2>2, <3>2 DEF SlotsAgree
    <3>3. QED
      BY <3>1, <3>2
  <2>3. \A k \in strings : B(k)' \in mapped' => Index(k)' \in 0..smax' - 1 /\ tabh'[Index(k)'] = k
    BY <1>1, <1>2, <1>5, <2>1
  <2>4. \A s \in 0..smax' - 1 : tabh'[s] # NoKey => Lower(hash'[tabh'[s]], blen') \in mapped'
    BY <1>1, <1>2, <2>2 DEF B
  <2>5. QED
    BY <1>2, <2>3, <2>4 DEF SlotsAgree, B
<1>12. DoneOK'
  <2>1. ASSUME stage' = "done", NEW k \in strings
        PROVE  B(k) \in mapped \cup {b}
    <3>1. Unmapped = {b}
      BY <1>1, <2>1
    <3>2. B(k) \in 0..blen - 1 /\ k \in KeysOf(B(k))
      BY PartsAreInRange DEF KeysOf
    <3>3. QED
      BY <3>1, <3>2 DEF Unmapped
  <2>2. QED
    BY <1>1, <1>2, <1>5, <2>1 DEF DoneOK
<1>13. QED
    BY <1>9, <1>10, <1>11, <1>12

-----------------------------------------------------------------------------
(* Salts under which a list has no place.                                  *)

\* A failed attempt leaves "perfect", with distinct pairs and no salt kept.
LEMMA AtFailure ==
    ASSUME HInv, NoPlace
    PROVE  /\ stage = "perfect" /\ DistinctPairs /\ ~ sameSalt
           /\ smax \in Nat \ {0} /\ blen \in Nat \ {0} /\ smax <= 2 * Base
           /\ Base \in Nat \ {0}
    BY PartsAreInRange, BaseIsPositive DEF HInv, NoPlace, PairsOK, HTypeOK

LEMMA CountFailureHInv == HInv /\ CountFailure => HInv'
<1> SUFFICES ASSUME HInv, CountFailure
             PROVE  HInv'
    OBVIOUS
<1>1. /\ UNCHANGED <<strings, smax, blen, hash, sameSalt, badInitkey, val, tabh, mapped>>
      /\ stage' = "salt" /\ badPerfect' = badPerfect + 1 /\ badPerfect + 1 < RETRY_PERFECT
    BY DEF CountFailure
<1>2. HTypeOK'
    BY <1>1, PerfectHashAssumption DEF HInv, HTypeOK
<1>3. BlenOK'
    BY <1>1 DEF HInv, BlenOK, Base
<1>4. ~ sameSalt
    BY AtFailure DEF CountFailure
<1>5. QED
    BY <1>1, <1>2, <1>3, <1>4, OutsidePerfect DEF RetriedSaltIsDistinct

\* A salt that gave distinct pairs gives distinct pairs with longer b's: this
\* is what keeps findhash from losing it to inittab.
LEMMA LongerStaysDistinct ==
    ASSUME HTypeOK, DistinctPairs, blen < smax, smax <= 2 * Base,
           blen' = 2 * blen, UNCHANGED <<strings, smax, hash>>
    PROVE  DistinctPairs'
<1>1. strings \in Inputs /\ hash \in Hashes /\ blen \in Nat \ {0}
    BY DEF HTypeOK
<1>2. PICK n \in Nat \ {0} : n = Base
    BY <1>1, BaseIsPositive
<1>3. smax \in {n, 2 * n}
    BY <1>2 DEF HTypeOK, Base
<1>4. blen \in 1..2 * n
    BY <1>1, <1>2, <1>3
<1>5. ASSUME NEW v \in HashValues, NEW w \in HashValues,
             Lower(v, 2 * blen) = Lower(w, 2 * blen)
      PROVE  Lower(v, blen) = Lower(w, blen)
    BY <1>1, <1>2, <1>4, <1>5, ArithmeticAssumption DEF Base
<1>6. QED
    BY <1>1, <1>5, HashIsValue DEF DistinctPairs, A, B

LEMMA WidenBHInv == HInv /\ WidenB => HInv'
<1> SUFFICES ASSUME HInv, WidenB
             PROVE  HInv'
    OBVIOUS
<1>1. /\ UNCHANGED <<strings, smax, hash, badInitkey, val, tabh, mapped>>
      /\ stage' = "salt" /\ badPerfect' = 0 /\ sameSalt' = TRUE
      /\ blen' = 2 * blen /\ blen < smax
    BY DEF WidenB
<1>2. /\ DistinctPairs /\ smax \in Nat \ {0} /\ smax <= 2 * Base
      /\ blen \in Nat \ {0} /\ Base \in Nat \ {0}
    BY AtFailure DEF WidenB
<1>3. HTypeOK'
  <2>1. blen' \in Nat \ {0} /\ 0 \in 0..RETRY_PERFECT - 1
    BY <1>1, <1>2, PerfectHashAssumption
  <2>2. QED
    BY <1>1, <2>1 DEF HInv, HTypeOK
<1>4. BlenOK'
    BY <1>1, <1>2 DEF BlenOK, Base
<1>5. DistinctPairs'
    BY <1>1, <1>2, LongerStaysDistinct DEF HInv
<1>6. QED
    BY <1>1, <1>3, <1>4, <1>5, OutsidePerfect DEF RetriedSaltIsDistinct

LEMMA DoubleSlotsHInv == HInv /\ DoubleSlots => HInv'
<1> SUFFICES ASSUME HInv, DoubleSlots
             PROVE  HInv'
    OBVIOUS
<1>1. /\ UNCHANGED <<strings, hash, sameSalt, val, tabh, mapped>>
      /\ stage' = "salt" /\ badPerfect' = 0 /\ badInitkey' = 0
      /\ smax = Base /\ smax' = 2 * smax
      /\ blen' = initalen(2 * smax, Cardinality(strings))
    BY DEF DoubleSlots, Exhausted, Base
<1>2. strings \in Inputs /\ ~ sameSalt /\ Base \in Nat \ {0}
    BY AtFailure DEF DoubleSlots, Exhausted, HInv, HTypeOK
<1>3. blen' \in 1..2 * Base
  <2>1. 2 * smax \in Nat \ {0}
    BY <1>1, <1>2
  <2>2. QED
    BY <1>1, <1>2, <2>1, BaseIsPositive, GuessFits
<1>4. HTypeOK'
  <2>1. 0 \in 0..RETRY_PERFECT - 1 /\ 0 \in 0..RETRY_INITKEY - 1
    BY PerfectHashAssumption
  <2>2. blen' \in Nat \ {0}
    BY <1>2, <1>3
  <2>3. QED
    BY <1>1, <2>1, <2>2 DEF HInv, HTypeOK, Base
<1>5. BlenOK'
    BY <1>1, <1>2, <1>3 DEF BlenOK, Base
<1>6. QED
    BY <1>1, <1>2, <1>4, <1>5, OutsidePerfect DEF RetriedSaltIsDistinct

LEMMA FailHInv == HInv /\ Fail => HInv'
<1> SUFFICES ASSUME HInv, Fail
             PROVE  HInv'
    OBVIOUS
<1>1. /\ UNCHANGED <<strings, smax, blen, hash, sameSalt, badInitkey, badPerfect,
                     val, tabh, mapped>>
      /\ stage' = "failed"
    BY DEF Fail, Exhausted
<1>2. ~ sameSalt
    BY AtFailure DEF Fail, Exhausted
<1>3. HTypeOK' /\ BlenOK'
    BY <1>1 DEF HInv, HTypeOK, BlenOK, Base
<1>4. QED
    BY <1>1, <1>2, <1>3, OutsidePerfect DEF RetriedSaltIsDistinct

LEMMA NextHInv == HInv /\ [SNext]_SVars => HInv'
<1> SUFFICES ASSUME HInv, [SNext]_SVars
             PROVE  HInv'
    OBVIOUS
<1>1. CASE UNCHANGED hashVars
    BY <1>1, StutterHInv
<1>2. CASE HSearch
    BY <1>2, NewSaltHInv, StartPerfectHInv, SamePairHInv, PlaceHInv, CountFailureHInv,
       WidenBHInv, DoubleSlotsHInv, FailHInv DEF HSearch
<1>3. HSearch \/ UNCHANGED hashVars
    BY DEF SNext, HSearch, NoHash, NoRoom, TooFar, Write, Returns, SVars, hashVars
<1>4. QED
    BY <1>1, <1>2, <1>3

\* The invariant of the search holds throughout.
THEOREM InvariantHolds == SSpec => []HInv
<1>1. SInit => HInv
    BY InitHInv DEF SInit
<1>2. QED
    BY <1>1, NextHInv, PTL DEF SSpec

-----------------------------------------------------------------------------
(* The properties of the search.                                           *)

\* RetriedSaltIsDistinct: findhash cannot lose a salt that it keeps, however
\* often b is widened, for any hash whose longer lower parts tell apart all
\* that its shorter ones do.
THEOREM RetriedSaltIsDistinctCorrect == SSpec => []RetriedSaltIsDistinct
<1>1. HInv => RetriedSaltIsDistinct
    BY DEF HInv
<1>2. QED
    BY <1>1, InvariantHolds, PTL

\* SlotsAgree: while lists are placed, tabh and tab[] agree, and no list loses
\* a slot to a later one.
THEOREM SlotsAgreeCorrect == SSpec => []SlotsAgree
<1>1. HInv => SlotsAgree
    BY DEF HInv
<1>2. QED
    BY <1>1, InvariantHolds, PTL

LEMMA HInvIsPerfect == HInv => IsPerfect
<1> SUFFICES ASSUME HInv, stage = "done", NEW k \in strings, NEW l \in strings
             PROVE  /\ Index(k) \in 0..smax - 1
                    /\ Index(k) = Index(l) => k = l
    BY DEF IsPerfect
<1>1. B(k) \in mapped /\ B(l) \in mapped
    BY DEF HInv, DoneOK
<1>2. QED
    BY <1>1 DEF HInv, SlotsAgree

\* IsPerfect: a search that succeeds has found a perfect hash: every key has a
\* slot of the table to itself.
THEOREM IsPerfectCorrect == SSpec => []IsPerfect
    BY InvariantHolds, HInvIsPerfect, PTL

\* The lists in the queue were placed before the one that is being placed.
LEMMA QueueHasRoom ==
    ASSUME HTypeOK, stage = "perfect", NEW b \in Unmapped, NEW i
    PROVE  Cardinality(Children(b, i)) \in Nat /\ Cardinality(Children(b, i)) <= blen - 1
<1>1. blen \in Nat \ {0} /\ mapped \subseteq 0..blen - 1
    BY DEF HTypeOK
<1>2. b \in 0..blen - 1 /\ Children(b, i) \subseteq (0..blen - 1) \ {b}
    BY <1>1 DEF Unmapped, Children
<1>3. IsFiniteSet(0..blen - 1) /\ Cardinality(0..blen - 1) = blen
  <2>1. 0 \in Int /\ blen - 1 \in Int
    BY <1>1
  <2>2. QED
    BY <1>1, <2>1, FS_Interval
<1>4. /\ IsFiniteSet((0..blen - 1) \ {b})
      /\ Cardinality((0..blen - 1) \ {b}) = blen - 1
    BY <1>2, <1>3, FS_RemoveElement
<1>5. QED
    BY <1>2, <1>4, FS_Subset, FS_CardinalityType

\* QueueFits: tabq's blen + 1 entries are enough, because each list enters the
\* queue once, and the one that is being placed is none of them.
THEOREM QueueFitsCorrect == SSpec => []QueueFits
<1>1. ASSUME HInv
      PROVE  QueueFits
  <2> SUFFICES ASSUME stage = "perfect", NEW b \in Unmapped, NEW i \in 0..SCRAMBLE_LEN
               PROVE  1 + Cardinality(Children(b, i))
                        + (IF i \in Codes /\ Fits(b, i) THEN 1 ELSE 0) <= blen + 1
    BY DEF QueueFits
  <2>1. PICK m \in Nat : m = Cardinality(Children(b, i)) /\ m <= blen - 1
    BY <1>1, QueueHasRoom DEF HInv
  <2>2. blen \in Nat
    BY <1>1 DEF HInv, HTypeOK
  <2>3. QED
    BY <2>1, <2>2
<1>2. QED
    BY <1>1, InvariantHolds, PTL

-----------------------------------------------------------------------------
(* The table.                                                              *)

\* STypeOK: types of the search and of the table.
THEOREM STypeCorrect == SSpec => []STypeOK
<1>1. SInit => STypeOK
  <2> SUFFICES ASSUME SInit
               PROVE  STypeOK
    OBVIOUS
  <2>1. HTypeOK
    BY InitHInv DEF SInit, HInv
  <2>2. QED
    BY <2>1 DEF SInit, STypeOK, EmptyTable
<1>2. HInv /\ STypeOK /\ [SNext]_SVars => STypeOK'
  <2> SUFFICES ASSUME HInv, STypeOK, [SNext]_SVars
               PROVE  STypeOK'
    OBVIOUS
  <2>1. HTypeOK'
    BY NextHInv DEF HInv
  <2>2. CASE UNCHANGED <<dstSize, table, message>>
    BY <2>1, <2>2 DEF STypeOK
  <2>3. CASE NoHash \/ NoRoom \/ TooFar
    BY <2>1, <2>3 DEF STypeOK, NoHash, NoRoom, TooFar, Returns
  <2>4. CASE Write
    <3>1. /\ message' = "written" /\ dstSize' = dstSize /\ stage = "done"
          /\ table' = Set(Result)
      BY <2>4 DEF Write, Returns
    <3>2. /\ table'.capacity = smax /\ table'.occupied = Cardinality(strings)
          /\ table'.blen = blen /\ table'.tab = val
          /\ DOMAIN table'.offsets = 0..smax - 1
      BY <3>1 DEF Set, Result
    <3>3. DOMAIN val = 0..blen - 1 /\ strings \in Inputs
      BY <3>1 DEF STypeOK, HTypeOK
    <3>4. Cardinality(strings) <= smax
      <4>1. PICK n \in Nat \ {0} : n = Base
        BY <3>3, BaseIsPositive
      <4>2. PICK m \in Nat : m = Cardinality(strings) /\ m <= n
        BY <3>3, <4>1, BaseIsPositive
      <4>3. smax \in {n, 2 * n}
        BY <4>1 DEF STypeOK, HTypeOK, Base
      <4>4. QED
        BY <4>2, <4>3
    <3>5. QED
      BY <2>1, <3>1, <3>2, <3>3, <3>4 DEF STypeOK
  <2>5. QED
    BY <2>2, <2>3, <2>4 DEF SNext, Searching, SVars
<1>3. QED
    BY <1>1, <1>2, InvariantHolds, PTL DEF SSpec

\* The machine makes 0 of a hash that it shifts by 64 bits.
ShiftsGiveZero == \A v \in HashValues : OverShift(v) = {0}

\* No table of a single slot was written, or the machine does that.
ShiftIsDefined == table.alen # 1 \/ ShiftsGiveZero

\* What get computes in the table that is compiled in.
LEMMA EmptyTableIndices ==
    ASSUME NEW h \in Hashes, NEW key \in Keys
    PROVE  Indices(EmptyTable(h), key) = {Upper(h[key], 2)} /\ Upper(h[key], 2) \in 0..1
<1>1. h[key] \in HashValues
    BY DEF HashValues
<1>2. PICK v \in HashValues : v = h[key]
    BY <1>1
<1>3. Upper(v, 2) \in 0..1 /\ Lower(v, 4) \in 0..3 /\ Xor(Upper(v, 2), 0) = Upper(v, 2)
    BY <1>2, EmptyTableAssumption
<1>4. 0 \in Codes
    BY PerfectHashAssumption DEF Codes
<1>5. PICK t : t = EmptyTable(h)
    OBVIOUS
<1>6. t.alen = 2 /\ t.blen = 4 /\ t.hash[key] = v
    BY <1>2, <1>5 DEF EmptyTable
<1>7. t.scramble[t.tab[Lower(v, 4)]] = 0
    BY <1>3, <1>4, <1>5 DEF EmptyTable
<1>8. Shifted(v, 2) = {Upper(v, 2)}
    BY DEF Shifted
<1>9. Indices(t, key) = {Xor(a, 0) : a \in {Upper(v, 2)}}
    BY <1>6, <1>7, <1>8 DEF Indices
<1>10. QED
    BY <1>2, <1>3, <1>5, <1>9

\* What get and set compute in the table that is written, for any name.
LEMMA ResultIndices ==
    ASSUME HInv, stage = "done", NEW key \in Keys, smax # 1 \/ ShiftsGiveZero
    PROVE  \E i \in 0..smax - 1 : /\ Indices(Result, key) = {i}
                                  /\ key \in strings => i = Index(key)
<1>1. /\ val \in [0..blen - 1 -> Codes] /\ strings \in Inputs /\ hash \in Hashes
      /\ smax \in {Base, 2 * Base} /\ blen \in Nat \ {0}
    BY DEF HInv, HTypeOK, Base
<1>2. PICK n \in Nat \ {0} : n = Base
    BY <1>1, BaseIsPositive
<1>3. smax \in {n, 2 * n} /\ smax \in 1..4 * n /\ blen \in 1..4 * n
    BY <1>1, <1>2 DEF HInv, BlenOK
<1>4. PICK v \in HashValues : v = hash[key]
    BY <1>1 DEF HashValues
<1>5. Upper(v, smax) \in 0..smax - 1 /\ Lower(v, blen) \in 0..blen - 1
    BY <1>1, <1>2, <1>3, ArithmeticAssumption DEF Base
<1>6. Shifted(v, smax) = {Upper(v, smax)}
  <2>1. CASE smax = 1
    <3>1. Upper(v, smax) = 0
      BY <1>5, <2>1
    <3>2. QED
      BY <2>1, <3>1 DEF Shifted, ShiftsGiveZero
  <2>2. CASE smax # 1
    BY <2>2 DEF Shifted
  <2>3. QED
    BY <2>1, <2>2
<1>7. PICK t : t = Result
    OBVIOUS
<1>8. t.alen = smax /\ t.blen = blen /\ t.hash[key] = v /\ t.tab = val
    BY <1>4, <1>7 DEF Result
<1>9. val[Lower(v, blen)] \in Codes
    BY <1>1, <1>5
<1>10. PICK c : c = Scramble(val[Lower(v, blen)])
    OBVIOUS
<1>11. t.scramble[t.tab[Lower(v, blen)]] = c
    BY <1>7, <1>8, <1>9, <1>10 DEF Result
<1>12. Indices(t, key) = {Xor(Upper(v, smax), c)}
    BY <1>6, <1>8, <1>11 DEF Indices
<1>13. c \in 0..smax - 1
    BY <1>1, <1>2, <1>3, <1>9, <1>10, ArithmeticAssumption DEF Base, Scramble
<1>14. Xor(Upper(v, smax), c) \in 0..smax - 1
    BY <1>1, <1>2, <1>3, <1>5, <1>13, ArithmeticAssumption DEF Base
<1>15. key \in strings => Xor(Upper(v, smax), c) = Index(key)
    BY <1>4, <1>10 DEF Index, Slot, A, B
<1>16. QED
    BY <1>7, <1>12, <1>14, <1>15

\* The table answers as it should.
AnswersRight == ShiftIsDefined => FindsExactly

LEMMA InitAnswers == SInit => AnswersRight
<1> SUFFICES ASSUME SInit, NEW key \in Keys
             PROVE  /\ Indices(table, key) \subseteq DOMAIN table.offsets
                    /\ Find(table, key) = {NoKey}
    BY DEF AnswersRight, FindsExactly, SInit
<1>1. hash \in Hashes /\ table = EmptyTable(hash)
    BY InitHInv DEF SInit, HInv, HTypeOK
<1>2. /\ Indices(table, key) = {Upper(hash[key], 2)}
      /\ Upper(hash[key], 2) \in 0..1
    BY <1>1, EmptyTableIndices
<1>3. table.offsets = [s \in 0..3 |-> NoKey]
    BY <1>1 DEF EmptyTable
<1>4. QED
    BY <1>2, <1>3 DEF Find

\* Only Write lets the table answer anything else.
LEMMA OthersAnswer ==
    ASSUME strings' = strings, table' = table,
           message' = message \/ (message = "none" /\ message' # "written"),
           AnswersRight
    PROVE  AnswersRight'
    BY DEF AnswersRight, ShiftIsDefined, ShiftsGiveZero, FindsExactly, Find, Indices, Shifted

LEMMA WriteAnswers == HInv /\ Write => AnswersRight'
<1> SUFFICES ASSUME HInv, Write
             PROVE  AnswersRight'
    OBVIOUS
<1>0. message' = "written" /\ strings' = strings
    BY DEF Write, Returns, hashVars
<1> SUFFICES ASSUME ShiftIsDefined', NEW key \in Keys
             PROVE  /\ Indices(table', key) \subseteq DOMAIN table'.offsets
                    /\ Find(table', key) = {IF key \in strings THEN key ELSE NoKey}
    BY <1>0 DEF AnswersRight, FindsExactly, Find, Indices, Shifted
<1>1. stage = "done" /\ table' = Set(Result)
    BY DEF Write
<1>2. strings \subseteq Keys /\ NoKey \notin Keys /\ IsPerfect
    BY HInvIsPerfect, PerfectHashAssumption DEF HInv, HTypeOK
<1>3. /\ table'.alen = smax
      /\ table'.offsets = [s \in 0..smax - 1 |->
             IF \E k \in strings : s \in Indices(Result, k)
             THEN CHOOSE k \in strings : s \in Indices(Result, k)
             ELSE NoKey]
      /\ Indices(table', key) = Indices(Result, key)
  <2>1. PICK t : t = Result
    OBVIOUS
  <2>2. t.capacity = smax /\ t.alen = smax
    BY <2>1 DEF Result
  <2>3. PICK offsets : offsets = [s \in 0..smax - 1 |->
             IF \E k \in strings : s \in Indices(t, k)
             THEN CHOOSE k \in strings : s \in Indices(t, k)
             ELSE NoKey]
    OBVIOUS
  <2>4. table' = [t EXCEPT !.offsets = offsets] /\ "offsets" \in DOMAIN t
    BY <1>1, <2>1, <2>2, <2>3 DEF Set, Result
  <2>5. /\ table'.offsets = offsets /\ table'.alen = t.alen /\ table'.blen = t.blen
        /\ table'.hash = t.hash /\ table'.scramble = t.scramble /\ table'.tab = t.tab
    BY <2>1, <2>4 DEF Result
  <2>6. Indices(table', key) = Indices(t, key)
    BY <2>5 DEF Indices
  <2>7. QED
    BY <2>1, <2>2, <2>3, <2>5, <2>6
<1>4. smax # 1 \/ ShiftsGiveZero
    BY <1>3 DEF ShiftIsDefined, ShiftsGiveZero
<1>5. PICK i \in 0..smax - 1 : /\ Indices(Result, key) = {i}
                               /\ key \in strings => i = Index(key)
    BY <1>1, <1>4, ResultIndices
<1>6. ASSUME NEW k \in strings
      PROVE  Indices(Result, k) = {Index(k)}
    BY <1>1, <1>2, <1>4, ResultIndices
<1>7. Find(table', key) = {IF table'.offsets[i] = key THEN key ELSE NoKey}
    BY <1>3, <1>5 DEF Find
<1>8. CASE key \in strings
  <2>1. \A k \in strings : i \in Indices(Result, k) <=> k = key
    BY <1>1, <1>2, <1>5, <1>6, <1>8 DEF IsPerfect
  <2>2. table'.offsets[i] = key
    BY <1>3, <1>5, <1>8, <2>1
  <2>3. QED
    BY <1>3, <1>5, <1>7, <1>8, <2>2
<1>9. CASE key \notin strings
  <2>1. table'.offsets[i] \in strings \cup {NoKey}
    BY <1>3, <1>5
  <2>2. table'.offsets[i] # key
    BY <1>2, <1>9, <2>1
  <2>3. QED
    BY <1>3, <1>5, <1>7, <1>9, <2>2
<1>10. QED
    BY <1>8, <1>9

\* FindsExactly: unless the table has a single slot, and the machine makes
\* something else than 0 of a hash that it shifts by 64 bits, get is right for
\* every name: it reads within the table, and finds what was written and
\* nothing else.
THEOREM FindsExactlyCorrect == SSpec => [](ShiftIsDefined => FindsExactly)
<1>1. HInv /\ AnswersRight /\ [SNext]_SVars => AnswersRight'
  <2> SUFFICES ASSUME HInv, AnswersRight, [SNext]_SVars
               PROVE  AnswersRight'
    OBVIOUS
  <2>1. CASE UNCHANGED <<dstSize, table, message>> /\ strings' = strings
    BY <2>1, OthersAnswer
  <2>2. CASE NoHash \/ NoRoom \/ TooFar
    BY <2>2, OthersAnswer DEF NoHash, NoRoom, TooFar, Returns, hashVars
  <2>3. CASE Write
    BY <2>3, WriteAnswers
  <2>4. strings' = strings \/ Write
    BY DEF SNext, NewSalt, StartPerfect, SamePair, Place, CountFailure, WidenB, DoubleSlots,
           Fail, Exhausted, NoHash, NoRoom, TooFar, Returns, hashVars, SVars
  <2>5. QED
    BY <2>1, <2>2, <2>3, <2>4 DEF SNext, Searching, SVars
<1>2. SInit => AnswersRight
    BY InitAnswers
<1>3. SSpec => []AnswersRight
    BY <1>1, <1>2, InvariantHolds, PTL DEF SSpec
<1>4. AnswersRight <=> (ShiftIsDefined => FindsExactly)
    BY DEF AnswersRight
<1>5. QED
    BY <1>3, <1>4, PTL

\* Every table is asked for two strings at least.
Several == \A S \in Inputs : Cardinality(S) # 1

\* FindsExactly, where no table is asked for a single string: then no table has
\* a single slot, and no shift is undefined on any machine.
THEOREM FindsExactlyForSeveral == SSpec => [](Several => FindsExactly)
<1>1. SInit => (Several => table.alen # 1)
    BY DEF SInit, EmptyTable
<1>2. HInv /\ (Several => table.alen # 1) /\ [SNext]_SVars => (Several => table.alen # 1)'
  <2> SUFFICES ASSUME HInv, Several, table.alen # 1, [SNext]_SVars
               PROVE  table'.alen # 1
    BY DEF Several
  <2>1. CASE Write
    <3>1. strings \in Inputs /\ smax \in {Base, 2 * Base}
      BY DEF HInv, HTypeOK, Base
    <3>2. /\ Base \in Nat \ {0} /\ Cardinality(strings) \in Nat
          /\ Cardinality(strings) <= Base /\ Cardinality(strings) # 0
      BY <3>1, BaseIsPositive, PerfectHashAssumption, FS_EmptySet
    <3>3. Cardinality(strings) # 1
      BY <3>1 DEF Several
    <3>4. smax # 1
      BY <3>1, <3>2, <3>3
    <3>5. table'.alen = smax
      BY <2>1 DEF Write, Set, Result
    <3>6. QED
      BY <3>4, <3>5
  <2>2. CASE table' = table
    BY <2>2
  <2>3. QED
    BY <2>1, <2>2 DEF SNext, NoHash, NoRoom, TooFar, Searching, SVars
<1>3. (Several => table.alen # 1) /\ (ShiftIsDefined => FindsExactly) => (Several => FindsExactly)
    BY DEF ShiftIsDefined
<1>4. QED
    BY <1>1, <1>2, <1>3, InvariantHolds, FindsExactlyCorrect, PTL DEF SSpec

=============================================================================
