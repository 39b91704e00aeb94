--------------------------- MODULE Registry_proof ---------------------------
(***************************************************************************)
(* Theorems about Registry and the table of names that it uses, for every  *)
(* set of images, classes, categories and threads.                         *)
(*                                                                         *)
(* First the table: a key is found along the buckets from where it hashes  *)
(* to, and NXMapInsert, _NXMapRehash and NXMapRemove change what is found  *)
(* for one key and nothing else, though they move the others about.        *)
(*                                                                         *)
(* Then the inductive invariant IInv.  While the lock is held it says what *)
(* is true in the midst of an operation: a realized class is in the list   *)
(* of its superclass unless it is still to be connected (Linked), what is  *)
(* above it is realized or about to be (UpOK), categories and flushes come *)
(* after all realizing (TodoOK), and every stale cache is among those that *)
(* the walk of some flush has yet to come to (FlushOK, Remaining).  Once   *)
(* the lock is free nothing is left to do, and what remains of IInv is     *)
(* what the runs check.                                                    *)
(***************************************************************************)
EXTENDS Registry, Inductions

-----------------------------------------------------------------------------
(* Lemmas: where a key is looked for.                                      *)

\* The d-th bucket that is looked at for a key.
Probe(key, nb, d) == (((65521 * Hash[key] + Hash[key]) % nb) + d) % nb

\* Where the model looks is where Probe says.
LEMMA IndexIs ==
    ASSUME NEW T, NEW key, NEW d
    PROVE  Index(T, key, d) = Probe(key, T.nbBuckets, d)
BY DEF Index, bucketOf, Probe

\* Every bucket is looked at, once, and the next one comes next.
LEMMA ProbesAre ==
    ASSUME NEW key \in DOMAIN Hash, NEW nb \in Nat \ {0}
    PROVE  /\ \A d \in 0..nb - 1 : Probe(key, nb, d) \in 0..nb - 1
           /\ \A d, e \in 0..nb - 1 : Probe(key, nb, d) = Probe(key, nb, e) => d = e
           /\ \A i \in 0..nb - 1 : \E d \in 0..nb - 1 : Probe(key, nb, d) = i
           /\ \A d \in 0..nb - 2 : Probe(key, nb, d + 1) =
                 IF Probe(key, nb, d) + 1 < nb THEN Probe(key, nb, d) + 1 ELSE 0
<1>1. Hash[key] \in Nat
    BY HashAssumption
<1>2. PICK x \in Nat : x = 65521 * Hash[key] + Hash[key]
    BY <1>1
<1>3. PICK start \in 0..nb - 1 : start = x % nb
    OBVIOUS
<1>4. ASSUME NEW d \in 0..nb - 1
      PROVE  Probe(key, nb, d) = IF start + d < nb THEN start + d ELSE start + d - nb
    BY <1>2, <1>3 DEF Probe
<1>5. ASSUME NEW i \in 0..nb - 1
      PROVE  \E d \in 0..nb - 1 : Probe(key, nb, d) = i
  <2>1. CASE i >= start
    <3>1. i - start \in 0..nb - 1 /\ Probe(key, nb, i - start) = i
      BY <1>4, <2>1
    <3>2. QED
      BY <3>1
  <2>2. CASE i < start
    <3>1. i + nb - start \in 0..nb - 1 /\ Probe(key, nb, i + nb - start) = i
      BY <1>4, <2>2
    <3>2. QED
      BY <3>1
  <2>3. QED
    BY <2>1, <2>2
<1>6. ASSUME NEW d \in 0..nb - 2
      PROVE  Probe(key, nb, d + 1) =
                 IF Probe(key, nb, d) + 1 < nb THEN Probe(key, nb, d) + 1 ELSE 0
  <2>1. d \in 0..nb - 1 /\ d + 1 \in 0..nb - 1
    OBVIOUS
  <2>2. QED
    BY <1>4, <2>1
<1>7. \A d \in 0..nb - 1 : Probe(key, nb, d) \in 0..nb - 1
    BY <1>4
<1>8. \A d, e \in 0..nb - 1 : Probe(key, nb, d) = Probe(key, nb, e) => d = e
    BY <1>4
<1>9. QED
    BY <1>5, <1>6, <1>7, <1>8

-----------------------------------------------------------------------------
(* Lemmas: a table of names.                                               *)

Pairs == [key : DOMAIN Hash \cup {NOTAKEY}, value : Classes \cup {NULL}]

\* The buckets in use.
Full(T) == {i \in 0..T.nbBuckets - 1 : T.buckets[i].key # NOTAKEY}

\* All buckets from the one the hash gives up to this one are in use.
Reached(T, i) ==
    \E d \in 0..T.nbBuckets - 1 :
        /\ Probe(T.buckets[i].key, T.nbBuckets, d) = i
        /\ \A e \in 0..d - 1 : Probe(T.buckets[i].key, T.nbBuckets, e) \in Full(T)

MapTables == [count : Nat, nbBuckets : Nat \ {0},
              buckets : UNION {[0..n - 1 -> Pairs] : n \in Nat \ {0}}]

\* Each key is there once and can be found, with a value.
Shaped(T) ==
    /\ T \in MapTables
    /\ T.buckets \in [0..T.nbBuckets - 1 -> Pairs]
    /\ \A i, j \in Full(T) : T.buckets[i].key = T.buckets[j].key => i = j
    /\ \A i \in Full(T) : T.buckets[i].value # NULL /\ Reached(T, i)

TableOK(T) == Shaped(T) /\ T.count = Cardinality(Full(T))

Has(T, key) == \E i \in Full(T) : T.buckets[i].key = key

\* What the table has for a key.
Found(T, key) ==
    IF Has(T, key) THEN T.buckets[CHOOSE i \in Full(T) : T.buckets[i].key = key].value
    ELSE NULL

\* What the buckets of a table hold.
LEMMA PairsAre ==
    ASSUME NEW T, Shaped(T)
    PROVE  /\ T.nbBuckets \in Nat \ {0}
           /\ \A i \in 0..T.nbBuckets - 1 : T.buckets[i] \in Pairs
           /\ \A i \in Full(T) : /\ i \in 0..T.nbBuckets - 1
                                 /\ T.buckets[i].key \in DOMAIN Hash
                                 /\ T.buckets[i].value \in Classes
BY DEF Shaped, MapTables, Full, Pairs

\* Found tells what each full bucket holds, and which keys are held.
LEMMA FoundIs ==
    ASSUME NEW T, Shaped(T)
    PROVE  /\ \A i \in Full(T) : Found(T, T.buckets[i].key) = T.buckets[i].value
           /\ \A key : Found(T, key) # NULL <=> Has(T, key)
           /\ \A key : Found(T, key) \in Classes \cup {NULL}
<1>1. ASSUME NEW i \in Full(T)
      PROVE  Found(T, T.buckets[i].key) = T.buckets[i].value
  <2> DEFINE j == CHOOSE j \in Full(T) : T.buckets[j].key = T.buckets[i].key
  <2>1. j \in Full(T) /\ T.buckets[j].key = T.buckets[i].key
    OBVIOUS
  <2>2. j = i
    BY <2>1 DEF Shaped
  <2>3. Has(T, T.buckets[i].key)
    BY DEF Has
  <2>4. Found(T, T.buckets[i].key) = T.buckets[j].value
    BY <2>3 DEF Found
  <2>5. QED
    BY <2>2, <2>4
<1>2. ASSUME NEW key
      PROVE  /\ Found(T, key) # NULL <=> Has(T, key)
             /\ Found(T, key) \in Classes \cup {NULL}
  <2>1. CASE Has(T, key)
    <3>1. PICK i \in Full(T) : T.buckets[i].key = key
      BY <2>1 DEF Has
    <3>2. Found(T, key) = T.buckets[i].value
      BY <1>1, <3>1
    <3>3. QED
      BY <2>1, <3>2, PairsAre DEF Shaped
  <2>2. CASE ~ Has(T, key)
    BY <2>2 DEF Found
  <2>3. QED
    BY <2>1, <2>2
<1>3. QED
    BY <1>1, <1>2

\* A chain is a run of full buckets, as long as there are any.
LEMMA ChainIs ==
    ASSUME NEW T, Shaped(T), NEW key \in DOMAIN Hash
    PROVE  /\ Chain(T, key) \in 0..T.nbBuckets
           /\ \A d \in 0..Chain(T, key) - 1 : Probe(key, T.nbBuckets, d) \in Full(T)
           /\ Chain(T, key) < T.nbBuckets =>
                 Probe(key, T.nbBuckets, Chain(T, key)) \notin Full(T)
<1>1. PICK nb \in Nat \ {0} : nb = T.nbBuckets
    BY PairsAre
<1>2. \A d \in 0..nb - 1 : Pair(T, key, d).key # NOTAKEY <=> Probe(key, nb, d) \in Full(T)
    BY <1>1, IndexIs, ProbesAre DEF Pair, Full
<1> DEFINE S == {n \in 0..nb : n = nb \/ Probe(key, nb, n) \notin Full(T)}
           IsChain(n) == /\ \A d \in 0..n - 1 : Pair(T, key, d).key # NOTAKEY
                         /\ n < T.nbBuckets => Pair(T, key, n).key = NOTAKEY
<1>3. nb \in S /\ S \in SUBSET Nat
    OBVIOUS
<1>4. PICK n \in S : \A m \in S : n <= m
    BY <1>3, LeastNumber
<1>5. \A d \in 0..n - 1 : d \in 0..nb - 1 /\ Probe(key, nb, d) \in Full(T)
    BY <1>4
<1>6. n < nb => n \in 0..nb - 1 /\ Probe(key, nb, n) \notin Full(T)
    BY <1>4
<1>7. IsChain(n)
    BY <1>1, <1>2, <1>5, <1>6
<1>8. Chain(T, key) = CHOOSE m \in 0..T.nbBuckets : IsChain(m)
    BY DEF Chain
<1> HIDE DEF IsChain
<1>8a. n \in 0..T.nbBuckets
    BY <1>1, <1>4
<1>9. Chain(T, key) \in 0..T.nbBuckets /\ IsChain(Chain(T, key))
    BY <1>7, <1>8, <1>8a
<1>10. PICK m \in 0..nb : m = Chain(T, key)
    BY <1>1, <1>9
<1>11. \A d \in 0..m - 1 : d \in 0..nb - 1
    OBVIOUS
<1>12. m < nb => m \in 0..nb - 1
    OBVIOUS
<1>13. QED
    BY <1>1, <1>2, <1>9, <1>10, <1>11, <1>12 DEF IsChain

\* A key that is held is held once, on the way from where it hashes to.
LEMMA HoldingIs ==
    ASSUME NEW T, Shaped(T), NEW key \in DOMAIN Hash
    PROVE  /\ \A i \in Full(T) : T.buckets[i].key = key =>
                 \E d \in 0..T.nbBuckets - 1 :
                    Holding(T, key) = {d} /\ Probe(key, T.nbBuckets, d) = i /\ d < Chain(T, key)
           /\ Holding(T, key) # {} <=> Has(T, key)
<1>1. PICK nb \in Nat \ {0} : nb = T.nbBuckets
    BY PairsAre
<1>2. PICK n \in 0..nb : n = Chain(T, key)
    BY <1>1, ChainIs
<1>3. Holding(T, key) = {d \in 0..n - 1 : T.buckets[Probe(key, nb, d)].key = key}
    BY <1>1, <1>2, IndexIs DEF Holding, Pair
<1>4. \A d \in 0..n - 1 : d \in 0..nb - 1 /\ Probe(key, nb, d) \in Full(T)
    BY <1>1, <1>2, ChainIs
<1>5. ASSUME NEW i \in Full(T), T.buckets[i].key = key
      PROVE  \E d \in 0..nb - 1 :
                Holding(T, key) = {d} /\ Probe(key, nb, d) = i /\ d < n
  <2>1. PICK d \in 0..nb - 1 :
            /\ Probe(key, nb, d) = i
            /\ \A e \in 0..d - 1 : Probe(key, nb, e) \in Full(T)
    BY <1>1, <1>5 DEF Shaped, Reached
  <2>2. d < n
    <3>1. n < nb => Probe(key, nb, n) \notin Full(T)
      BY <1>1, <1>2, ChainIs
    <3>2. n < d => n \in 0..d - 1
      BY <2>1
    <3>3. n # d \/ n = nb
      BY <2>1, <3>1
    <3>4. ~ (n < d)
      BY <2>1, <3>1, <3>2
    <3>5. QED
      BY <2>1, <3>3, <3>4
  <2>3. d \in Holding(T, key)
    BY <1>3, <1>5, <2>1, <2>2
  <2>4. ASSUME NEW e \in Holding(T, key)
        PROVE  e = d
    <3>1. Probe(key, nb, e) \in Full(T) /\ T.buckets[Probe(key, nb, e)].key = key
                /\ e \in 0..nb - 1
      BY <1>3, <1>4
    <3>2. Probe(key, nb, e) = Probe(key, nb, d)
      BY <1>5, <2>1, <3>1 DEF Shaped
    <3>3. QED
      BY <2>1, <3>1, <3>2, ProbesAre
  <2>5. Holding(T, key) = {d}
    BY <2>3, <2>4
  <2>6. QED
    BY <2>1, <2>2, <2>5
<1>6. \A d \in Holding(T, key) :
          Probe(key, nb, d) \in Full(T) /\ T.buckets[Probe(key, nb, d)].key = key
    BY <1>3, <1>4
<1>7. QED
    BY <1>1, <1>2, <1>5, <1>6 DEF Has

\* NXMapGet returns what the table has.
LEMMA GetIs ==
    ASSUME NEW T, Shaped(T), NEW key \in DOMAIN Hash
    PROVE  NXMapGet(T, key) = Found(T, key)
<1>1. CASE Has(T, key)
  <2>1. PICK i \in Full(T) : T.buckets[i].key = key
    BY <1>1 DEF Has
  <2>2. PICK d \in 0..T.nbBuckets - 1 :
            Holding(T, key) = {d} /\ Probe(key, T.nbBuckets, d) = i
    BY <2>1, HoldingIs
  <2>3. (CHOOSE e \in Holding(T, key) : TRUE) = d
    BY <2>2
  <2>4. NXMapGet(T, key) = T.buckets[i].value
    BY <2>2, <2>3, IndexIs DEF NXMapGet, Pair
  <2>5. QED
    BY <2>1, <2>4, FoundIs
<1>2. CASE ~ Has(T, key)
  <2>1. Holding(T, key) = {}
    BY <1>2, HoldingIs
  <2>2. QED
    BY <1>2, <2>1 DEF NXMapGet, Found
<1>3. QED
    BY <1>1, <1>2

\* How full a table is.
LEMMA FullIsFinite ==
    ASSUME NEW T, Shaped(T)
    PROVE  /\ IsFiniteSet(Full(T)) /\ Cardinality(Full(T)) \in 0..T.nbBuckets
           /\ Cardinality(Full(T)) # T.nbBuckets => Full(T) # 0..T.nbBuckets - 1
<1>1. PICK nb \in Nat \ {0} : nb = T.nbBuckets
    BY PairsAre
<1>2. IsFiniteSet(0..nb - 1) /\ Cardinality(0..nb - 1) = nb
    BY FS_Interval
<1>3. IsFiniteSet(Full(T)) /\ Cardinality(Full(T)) <= nb
  <2>1. Full(T) \in SUBSET (0..nb - 1)
    BY <1>1 DEF Full
  <2>2. QED
    BY <1>2, <2>1, FS_Subset
<1>4. QED
    BY <1>1, <1>2, <1>3, FS_CardinalityType

\* With an empty bucket every chain ends, and a pair is less than a round away
\* from the bucket that its key hashes to.
LEMMA ChainEnds ==
    ASSUME NEW T, Shaped(T), Full(T) # 0..T.nbBuckets - 1, NEW key \in DOMAIN Hash
    PROVE  /\ Chain(T, key) \in 0..T.nbBuckets - 1
           /\ \A d \in 0..T.nbBuckets - 1 :
                 (\A e \in 0..d : Probe(key, T.nbBuckets, e) \in Full(T)) =>
                    d + 1 \in 0..T.nbBuckets - 1
<1>1. PICK nb \in Nat \ {0} : nb = T.nbBuckets
    BY PairsAre
<1>2. PICK i \in 0..nb - 1 : i \notin Full(T)
    BY <1>1 DEF Full
<1>3. PICK f \in 0..nb - 1 : Probe(key, nb, f) = i
    BY ProbesAre
<1>4. PICK n \in 0..nb : n = Chain(T, key)
    BY <1>1, ChainIs
<1>5. \A d \in 0..n - 1 : Probe(key, nb, d) \in Full(T)
    BY <1>1, <1>4, ChainIs
<1>6. n # nb
    BY <1>2, <1>3, <1>5
<1>7. ASSUME NEW d \in 0..nb - 1, \A e \in 0..d : Probe(key, nb, e) \in Full(T)
      PROVE  d + 1 \in 0..nb - 1
  <2>1. f \notin 0..d
    BY <1>2, <1>3, <1>7
  <2>2. QED
    BY <2>1
<1>8. QED
    BY <1>1, <1>4, <1>6, <1>7


\* The buckets after a chain was pushed: the pair, then the chain, then what
\* was and is elsewhere.
LEMMA PushedBuckets ==
    ASSUME NEW T, Shaped(T), Full(T) # 0..T.nbBuckets - 1,
           NEW key \in DOMAIN Hash, NEW value \in Classes,
           NEW P, P = Pushed(T, key, value),
           NEW n, n = Chain(T, key), NEW nb, nb = T.nbBuckets
    PROVE  /\ nb \in Nat \ {0} /\ n \in 0..nb - 1
           /\ P = [count |-> T.count + 1, nbBuckets |-> nb, buckets |-> P.buckets]
           /\ P.buckets \in [0..nb - 1 -> Pairs]
           /\ P.buckets[Probe(key, nb, 0)] = [key |-> key, value |-> value]
           /\ \A d \in 0..n - 1 :
                 P.buckets[Probe(key, nb, d + 1)] = T.buckets[Probe(key, nb, d)]
           /\ \A i \in 0..nb - 1 : (\A d \in 0..n : Probe(key, nb, d) # i) =>
                 P.buckets[i] = T.buckets[i]
<1>1. nb \in Nat \ {0} /\ n \in 0..nb - 1
    BY PairsAre, ChainEnds
<1> DEFINE at == [d \in 0..Chain(T, key) |-> Index(T, key, d)]
           pushed(i) == CHOOSE d \in 0..Chain(T, key) : at[d] = i
           bucket(i) == IF i \notin {at[d] : d \in 0..Chain(T, key)} THEN T.buckets[i]
                        ELSE IF pushed(i) = 0 THEN [key |-> key, value |-> value]
                        ELSE T.buckets[at[pushed(i) - 1]]
<1>2. T = [count |-> T.count, nbBuckets |-> nb, buckets |-> T.buckets]
          /\ T.buckets \in [0..nb - 1 -> Pairs] /\ T.count \in Nat
    BY DEF Shaped, MapTables
<1>3. Pushed(T, key, value) =
          [count |-> T.count + 1, nbBuckets |-> nb, buckets |-> [i \in 0..nb - 1 |-> bucket(i)]]
  <2>2. Pushed(T, key, value) = [T EXCEPT !.count = @ + 1,
                                          !.buckets = [i \in DOMAIN T.buckets |-> bucket(i)]]
    BY DEF Pushed
  <2>3. DOMAIN T.buckets = 0..nb - 1
    BY <1>2
  <2> HIDE DEF bucket
  <2>4. QED
    BY <1>2, <2>2, <2>3
<1>4. \A d \in 0..n : d \in 0..nb - 1 /\ at[d] = Probe(key, nb, d) /\ at[d] \in 0..nb - 1
  <2>1. \A d \in 0..n : d \in 0..nb - 1
    BY <1>1
  <2>2. \A d \in 0..n : at[d] = Probe(key, nb, d)
    BY IndexIs
  <2>3. QED
    BY <1>1, <2>1, <2>2, ProbesAre
<1>5. ASSUME NEW d \in 0..n
      PROVE  pushed(at[d]) = d
  <2>1. \A e \in 0..n : at[e] = at[d] => e = d
    BY <1>1, <1>4, ProbesAre
  <2> HIDE DEF at
  <2>2. QED
    BY <2>1
<1>6. \A d \in 0..n : bucket(at[d]) = IF d = 0 THEN [key |-> key, value |-> value]
                                      ELSE T.buckets[at[d - 1]]
  <2> HIDE DEF at, pushed
  <2>1. QED
    BY <1>5
<1>7. \A i \in 0..nb - 1 : (\A d \in 0..n : Probe(key, nb, d) # i) => bucket(i) = T.buckets[i]
    BY <1>4
<1>8. [key |-> key, value |-> value] \in Pairs
    BY DEF Pairs
<1>9. \A d \in 0..n : d # 0 => d - 1 \in 0..n
    BY <1>1
<1> HIDE DEF at, pushed, bucket
<1>10. \A i \in 0..nb - 1 : bucket(i) \in Pairs
  <2> TAKE i \in 0..nb - 1
  <2>1. CASE \E d \in 0..n : at[d] = i
    <3>1. PICK d \in 0..n : at[d] = i
      BY <2>1
    <3>2. d # 0 => T.buckets[at[d - 1]] \in Pairs
      BY <1>2, <1>4, <1>9
    <3>3. QED
      BY <1>6, <1>8, <3>1, <3>2
  <2>2. CASE ~ \E d \in 0..n : at[d] = i
    BY <1>2, <1>4, <1>7, <2>2
  <2>3. QED
    BY <2>1, <2>2
<1>11. P.buckets = [i \in 0..nb - 1 |-> bucket(i)]
    BY <1>3
<1>12. P.buckets \in [0..nb - 1 -> Pairs] /\ \A i \in 0..nb - 1 : P.buckets[i] = bucket(i)
    BY <1>10, <1>11
<1>13. P.buckets[Probe(key, nb, 0)] = [key |-> key, value |-> value]
    BY <1>1, <1>4, <1>6, <1>12
<1>14. ASSUME NEW d \in 0..n - 1
       PROVE  P.buckets[Probe(key, nb, d + 1)] = T.buckets[Probe(key, nb, d)]
  <2>1. d \in 0..n /\ d + 1 \in 0..n /\ d + 1 # 0 /\ (d + 1) - 1 = d
    BY <1>1
  <2>2. QED
    BY <1>4, <1>6, <1>12, <2>1
<1>15. QED
    BY <1>1, <1>3, <1>7, <1>12, <1>13, <1>14

\* A pair that is pushed is added, and nothing else changes.
LEMMA PushedIs ==
    ASSUME NEW T, Shaped(T), Full(T) # 0..T.nbBuckets - 1,
           NEW key \in DOMAIN Hash, NEW value \in Classes, ~ Has(T, key),
           NEW P, P = Pushed(T, key, value)
    PROVE  /\ Shaped(P) /\ P.nbBuckets = T.nbBuckets /\ P.count = T.count + 1
           /\ \E i \in (0..T.nbBuckets - 1) \ Full(T) : Full(P) = Full(T) \cup {i}
           /\ \A x : Found(P, x) = IF x = key THEN value ELSE Found(T, x)
<1>1. PICK nb \in Nat \ {0} : nb = T.nbBuckets
    BY PairsAre
<1>2. PICK n : n = Chain(T, key)
    OBVIOUS
<1> DEFINE at(d) == Probe(key, nb, d)
<1>3. /\ n \in 0..nb - 1
      /\ P = [count |-> T.count + 1, nbBuckets |-> nb, buckets |-> P.buckets]
      /\ P.buckets \in [0..nb - 1 -> Pairs]
      /\ P.buckets[at(0)] = [key |-> key, value |-> value]
      /\ \A d \in 0..n - 1 : P.buckets[at(d + 1)] = T.buckets[at(d)]
      /\ \A i \in 0..nb - 1 : (\A d \in 0..n : at(d) # i) => P.buckets[i] = T.buckets[i]
    BY <1>1, <1>2, PushedBuckets
<1>4. /\ \A d \in 0..n - 1 : at(d) \in Full(T)
      /\ at(n) \notin Full(T)
    BY <1>1, <1>2, <1>3, ChainIs
<1>5. /\ \A d \in 0..n : d \in 0..nb - 1 /\ at(d) \in 0..nb - 1
      /\ \A d, e \in 0..n : at(d) = at(e) => d = e
  <2>1. \A d \in 0..n : d \in 0..nb - 1
    BY <1>3
  <2>2. QED
    BY <1>1, <2>1, ProbesAre
<1> HIDE DEF at
<1>6. \A i \in Full(T) : i \in 0..nb - 1 /\ T.buckets[i].key # NOTAKEY
                          /\ T.buckets[i].key \in DOMAIN Hash /\ T.buckets[i].value # NULL
    BY <1>1, PairsAre DEF Full, Shaped
<1>7. key # NOTAKEY /\ value # NULL
    BY HashAssumption, RegistryAssumption
\* Where the pair of a bucket was.
<1>8. \A i \in 0..nb - 1 : \/ i = at(0)
                           \/ \E d \in 0..n - 1 : i = at(d + 1)
                           \/ \A d \in 0..n : at(d) # i
  <2> SUFFICES ASSUME NEW i \in 0..nb - 1, NEW d \in 0..n, at(d) = i, d # 0
               PROVE  \E e \in 0..n - 1 : i = at(e + 1)
    OBVIOUS
  <2>1. d - 1 \in 0..n - 1 /\ (d - 1) + 1 = d
    BY <1>3
  <2>2. QED
    BY <2>1
<1> DEFINE From(i, j) == /\ j \in Full(T) /\ P.buckets[i] = T.buckets[j]
                         /\ \/ i = j /\ \A d \in 0..n : at(d) # i
                            \/ \E d \in 0..n - 1 : i = at(d + 1) /\ j = at(d)
<1>9. Full(P) = Full(T) \cup {at(n)}
  <2>1. Full(P) = {i \in 0..nb - 1 : P.buckets[i].key # NOTAKEY}
    BY <1>3 DEF Full
  <2>2. \A d \in 0..n - 1 : at(d + 1) \in Full(P) /\ d + 1 \in 0..n
    BY <1>3, <1>4, <1>5, <1>6, <2>1
  <2>3. at(0) \in Full(P)
    BY <1>3, <1>5, <1>7, <2>1
  <2>4. at(n) \in Full(P)
    <3>1. n # 0 => n - 1 \in 0..n - 1 /\ (n - 1) + 1 = n
      BY <1>3
    <3>2. QED
      BY <2>2, <2>3, <3>1
  <2>5. ASSUME NEW i \in 0..nb - 1, i # at(n)
        PROVE  i \in Full(P) <=> i \in Full(T)
    <3>1. CASE \A d \in 0..n : at(d) # i
      BY <1>1, <1>3, <2>1, <3>1 DEF Full
    <3>2. CASE \E d \in 0..n : at(d) = i
      <4>1. PICK d \in 0..n : at(d) = i
        BY <3>2
      <4>2. d \in 0..n - 1
        BY <1>3, <2>5, <4>1
      <4>3. i \in Full(T)
        BY <1>4, <4>1, <4>2
      <4>4. i \in Full(P)
        BY <1>8, <2>2, <2>3, <2>5, <4>1
      <4>5. QED
        BY <4>3, <4>4
    <3>3. QED
      BY <3>1, <3>2
  <2>6. \A i \in Full(P) : i \in 0..nb - 1
    BY <2>1
  <2>7. QED
    BY <1>6, <2>4, <2>5, <2>6
<1>10. ASSUME NEW i \in Full(P), i # at(0)
       PROVE  \E j : From(i, j)
  <2>1. i \in 0..nb - 1
    BY <1>3 DEF Full
  <2>2. CASE \E d \in 0..n - 1 : i = at(d + 1)
    BY <1>3, <1>4, <2>2
  <2>3. CASE \A d \in 0..n : at(d) # i
    <3>1. n \in 0..n
      BY <1>3
    <3>2. i \in Full(T)
      BY <1>9, <2>3, <3>1
    <3>3. QED
      BY <1>3, <2>1, <2>3, <3>2
  <2>4. QED
    BY <1>8, <1>10, <2>1, <2>2, <2>3
<1>11. ASSUME NEW j \in Full(T)
       PROVE  \E i \in Full(P) : From(i, j) /\ i # at(0)
  <2>1. CASE \E d \in 0..n - 1 : j = at(d)
    <3>1. PICK d \in 0..n - 1 : j = at(d)
      BY <2>1
    <3>2. d + 1 \in 0..n /\ d + 1 # 0 /\ 0 \in 0..n
      BY <1>3
    <3>3. P.buckets[at(d + 1)] = T.buckets[j]
      BY <1>3, <3>1
    <3>4. at(d + 1) \in Full(P)
      BY <1>3, <1>5, <1>6, <3>2, <3>3 DEF Full
    <3>5. QED
      BY <1>5, <3>1, <3>2, <3>3, <3>4
  <2>2. CASE \A d \in 0..n - 1 : j # at(d)
    <3>1. \A d \in 0..n : at(d) # j
      BY <1>3, <1>4, <2>2
    <3>2. 0 \in 0..n
      BY <1>3
    <3>3. QED
      BY <1>3, <1>6, <1>9, <3>1, <3>2
  <2>3. QED
    BY <2>1, <2>2
<1>12. \A i, k, j \in Full(P) \cup Full(T) : From(i, j) /\ From(k, j) => i = k
  <2> SUFFICES ASSUME NEW i, NEW k, NEW j, From(i, j), From(k, j)
               PROVE  i = k
    OBVIOUS
  <2>1. \A d \in 0..n - 1 : d \in 0..n /\ d + 1 \in 0..n
    BY <1>3
  <2>2. QED
    BY <1>5, <2>1
<1>13. \A i \in Full(P) : i # at(0) => P.buckets[i].key # key
    BY <1>10 DEF Has
<1>14. ASSUME NEW i \in Full(P), NEW k \in Full(P), P.buckets[i].key = P.buckets[k].key
       PROVE  i = k
  <2>1. CASE i = at(0) \/ k = at(0)
    BY <1>3, <1>13, <1>14, <2>1
  <2>2. CASE i # at(0) /\ k # at(0)
    <3>1. PICK j : From(i, j)
      BY <1>10, <2>2
    <3>2. PICK l : From(k, l)
      BY <1>10, <2>2
    <3>3. j = l
      BY <1>14, <3>1, <3>2 DEF Shaped
    <3> HIDE DEF From
    <3>4. j \in Full(T)
      BY <3>1 DEF From
    <3>5. QED
      BY <1>12, <3>1, <3>2, <3>3, <3>4
  <2>3. QED
    BY <2>1, <2>2
<1>15. ASSUME NEW i \in Full(P)
       PROVE  P.buckets[i].value # NULL /\ Reached(P, i)
  <2>1. CASE i = at(0)
    <3>1. Probe(P.buckets[i].key, nb, 0) = i
      BY <1>3, <2>1 DEF at
    <3>2. Reached(P, i)
      BY <1>1, <1>3, <3>1 DEF Reached
    <3>3. QED
      BY <1>3, <1>7, <2>1, <3>2
  <2>2. CASE i # at(0)
    <3>1. PICK j : From(i, j)
      BY <1>10, <2>2
    <3>2. PICK k \in DOMAIN Hash : k = T.buckets[j].key
      BY <1>6, <3>1
    <3>3. PICK d \in 0..nb - 1 :
              /\ Probe(k, nb, d) = j
              /\ \A e \in 0..d - 1 : Probe(k, nb, e) \in Full(T)
      BY <1>1, <3>1, <3>2 DEF Shaped, Reached
    <3>4. P.buckets[i].key = k /\ P.buckets[i].value # NULL
      BY <1>6, <3>1, <3>2
    <3>5. CASE i = j
      BY <1>3, <1>9, <3>3, <3>4, <3>5 DEF Reached
    <3>6. CASE \E f \in 0..n - 1 : i = at(f + 1) /\ j = at(f)
      <4>1. PICK f \in 0..n - 1 : i = at(f + 1) /\ j = at(f)
        BY <3>6
      <4>2. \A e \in 0..d : Probe(k, nb, e) \in Full(T)
        <5>1. \A e \in 0..d : e \in 0..d - 1 \/ e = d
          BY <3>3
        <5>2. j \in Full(T)
          BY <3>1
        <5>3. QED
          BY <3>3, <5>1, <5>2
      <4>3. d + 1 \in 0..nb - 1
        BY <1>1, <3>2, <3>3, <4>2, ChainEnds
      <4>4. d \in 0..nb - 2 /\ f \in 0..nb - 2
        BY <1>1, <1>3, <4>3
      <4>5. Probe(k, nb, d + 1) = i
        <5>1. Probe(k, nb, d + 1) =
                  IF Probe(k, nb, d) + 1 < nb THEN Probe(k, nb, d) + 1 ELSE 0
          BY <4>4, ProbesAre
        <5>2. Probe(key, nb, f + 1) =
                  IF Probe(key, nb, f) + 1 < nb THEN Probe(key, nb, f) + 1 ELSE 0
          BY <4>4, ProbesAre
        <5>3. QED
          BY <3>3, <4>1, <5>1, <5>2 DEF at
      <4>6. \A e \in 0..(d + 1) - 1 : Probe(k, nb, e) \in Full(P)
        <5>1. (d + 1) - 1 = d
          OBVIOUS
        <5>2. QED
          BY <1>9, <4>2, <5>1
      <4>7. QED
        BY <1>3, <3>4, <4>3, <4>5, <4>6 DEF Reached
    <3>7. QED
      BY <3>1, <3>4, <3>5, <3>6
  <2>3. QED
    BY <2>1, <2>2
<1>16. Shaped(P) /\ P.nbBuckets = nb /\ P.count = T.count + 1
  <2>1. T.count \in Nat
    BY DEF Shaped, MapTables
  <2>2. P.buckets \in UNION {[0..m - 1 -> Pairs] : m \in Nat \ {0}}
    BY <1>1, <1>3
  <2>3. P.count = T.count + 1 /\ P.nbBuckets = nb
    BY <1>3
  <2>4. P \in MapTables
    BY <1>1, <1>3, <2>1, <2>2 DEF MapTables
  <2>5. QED
    BY <1>3, <1>14, <1>15, <2>3, <2>4 DEF Shaped
<1>17. ASSUME NEW x
       PROVE  Found(P, x) = IF x = key THEN value ELSE Found(T, x)
  <2>1. CASE x = key
    <3>1. at(0) \in Full(P)
      BY <1>1, <1>3, <1>5, <1>7 DEF Full
    <3>2. QED
      BY <1>3, <1>16, <2>1, <3>1, FoundIs
  <2>2. CASE x # key /\ Has(T, x)
    <3>1. PICK j \in Full(T) : T.buckets[j].key = x
      BY <2>2 DEF Has
    <3>2. PICK i \in Full(P) : From(i, j)
      BY <1>11
    <3>3. QED
      BY <1>16, <2>2, <3>1, <3>2, FoundIs
  <2>3. CASE x # key /\ ~ Has(T, x)
    <3>1. \A i \in Full(P) : P.buckets[i].key # x
      BY <1>3, <1>10, <2>3 DEF Has
    <3>2. QED
      BY <2>3, <3>1 DEF Has, Found
  <2>4. QED
    BY <2>1, <2>2, <2>3
<1>18. at(n) \in (0..nb - 1) \ Full(T)
    BY <1>3, <1>4, <1>5
<1>19. QED
    BY <1>1, <1>9, <1>16, <1>17, <1>18

\* NXMapInsert of a key that the table does not hold, without growing.
LEMMA PushedIsOK ==
    ASSUME NEW T, TableOK(T), T.count # T.nbBuckets,
           NEW key \in DOMAIN Hash, NEW value \in Classes, ~ Has(T, key),
           NEW P, P = Pushed(T, key, value)
    PROVE  /\ TableOK(P) /\ P.nbBuckets = T.nbBuckets /\ P.count = T.count + 1
           /\ \A x : Found(P, x) = IF x = key THEN value ELSE Found(T, x)
<1>1. Shaped(T) /\ Full(T) # 0..T.nbBuckets - 1
    BY FullIsFinite DEF TableOK
<1>2. /\ Shaped(P) /\ P.nbBuckets = T.nbBuckets /\ P.count = T.count + 1
      /\ \E i \in (0..T.nbBuckets - 1) \ Full(T) : Full(P) = Full(T) \cup {i}
      /\ \A x : Found(P, x) = IF x = key THEN value ELSE Found(T, x)
    BY <1>1, PushedIs
<1>3. Cardinality(Full(P)) = Cardinality(Full(T)) + 1
    BY <1>1, <1>2, FullIsFinite, FS_AddElement
<1>4. QED
    BY <1>2, <1>3 DEF TableOK

\* A new table holds nothing.
LEMMA EmptyIsOK ==
    ASSUME NEW nb \in Nat \ {0}
    PROVE  /\ TableOK(EmptyTable(nb))
           /\ EmptyTable(nb).count = 0 /\ EmptyTable(nb).nbBuckets = nb
           /\ \A x : Found(EmptyTable(nb), x) = NULL
<1>1. PICK T : T = EmptyTable(nb)
    OBVIOUS
<1>2. /\ T = [count |-> 0, nbBuckets |-> nb, buckets |-> T.buckets]
      /\ T.buckets = [i \in 0..nb - 1 |-> NoPair]
    BY <1>1 DEF EmptyTable
<1>3. T.buckets \in [0..nb - 1 -> Pairs]
    BY <1>2 DEF NoPair, Pairs
<1>4. Full(T) = {}
    BY <1>2 DEF Full, NoPair
<1>5. T \in MapTables
    BY <1>2, <1>3 DEF MapTables
<1>6. TableOK(T)
    BY <1>2, <1>3, <1>4, <1>5, FS_EmptySet DEF TableOK, Shaped
<1>7. QED
    BY <1>1, <1>2, <1>4, <1>6 DEF Found, Has

\* A table that holds the pairs of the first i buckets of another.
Holds(T, new, i) ==
    /\ TableOK(new) /\ new.count = Cardinality({j \in Full(T) : j < i})
    /\ \A x : Found(new, x) =
                 IF \E j \in Full(T) : j < i /\ T.buckets[j].key = x THEN Found(T, x) ELSE NULL

\* _NXMapRehash moves one more bucket to the new table.
LEMMA HoldOneMore ==
    ASSUME NEW T, Shaped(T), NEW i \in 0..T.nbBuckets - 1,
           NEW new, Holds(T, new, i), T.nbBuckets < new.nbBuckets,
           NEW next, next = IF T.buckets[i].key = NOTAKEY THEN new
                            ELSE Pushed(new, T.buckets[i].key, T.buckets[i].value)
    PROVE  Holds(T, next, i + 1) /\ next.nbBuckets = new.nbBuckets
<1>1. PICK nb \in Nat \ {0} : nb = T.nbBuckets
    BY PairsAre
<1>2. Full(T) \in SUBSET (0..nb - 1)
    BY <1>1 DEF Full
<1>3. CASE i \notin Full(T)
  <2>1. next = new
    BY <1>3 DEF Full
  <2>2. \A j \in Full(T) : j < i + 1 <=> j < i
    BY <1>1, <1>2, <1>3
  <2>3. QED
    BY <2>1, <2>2 DEF Holds
<1>4. CASE i \in Full(T)
  <2>1. PICK key \in DOMAIN Hash : key = T.buckets[i].key
    BY <1>4, PairsAre
  <2>2. PICK value \in Classes : value = T.buckets[i].value
    BY <1>4, PairsAre
  <2>3. next = Pushed(new, key, value)
    BY <1>4, <2>1, <2>2 DEF Full
  <2>4. {j \in Full(T) : j < i + 1} = {j \in Full(T) : j < i} \cup {i}
            /\ i \notin {j \in Full(T) : j < i}
    BY <1>1, <1>2, <1>4
  <2>5. IsFiniteSet({j \in Full(T) : j < i})
            /\ Cardinality({j \in Full(T) : j < i}) \in Nat
            /\ Cardinality({j \in Full(T) : j < i}) <= nb
    <3>1. IsFiniteSet(Full(T)) /\ Cardinality(Full(T)) \in 0..nb
      BY <1>1, FullIsFinite
    <3>2. {j \in Full(T) : j < i} \in SUBSET Full(T)
      OBVIOUS
    <3>3. QED
      BY <1>1, <3>1, <3>2, FS_Subset, FS_CardinalityType
  <2>6. Cardinality({j \in Full(T) : j < i + 1}) = Cardinality({j \in Full(T) : j < i}) + 1
    BY <2>4, <2>5, FS_AddElement
  <2>7. ~ Has(new, key)
    <3>1. ~ \E j \in Full(T) : j < i /\ T.buckets[j].key = key
      BY <1>1, <1>2, <1>4, <2>1 DEF Shaped
    <3>2. Found(new, key) = NULL
      BY <3>1 DEF Holds
    <3>3. QED
      BY <3>2, FoundIs DEF Holds, TableOK
  <2>8. TableOK(new) /\ new.count # new.nbBuckets
    BY <1>1, <2>5, PairsAre DEF Holds, TableOK
  <2>9. /\ TableOK(next) /\ next.nbBuckets = new.nbBuckets /\ next.count = new.count + 1
        /\ \A x : Found(next, x) = IF x = key THEN value ELSE Found(new, x)
    BY <2>3, <2>7, <2>8, PushedIsOK
  <2>10. Found(T, key) = value
    BY <1>4, <2>1, <2>2, FoundIs
  <2>11. \A x : Found(next, x) =
             IF \E j \in Full(T) : j < i + 1 /\ T.buckets[j].key = x THEN Found(T, x) ELSE NULL
    <3>1. \A x : Found(new, x) =
             IF \E j \in Full(T) : j < i /\ T.buckets[j].key = x THEN Found(T, x) ELSE NULL
      BY DEF Holds
    <3>2. \A x : (\E j \in Full(T) : j < i + 1 /\ T.buckets[j].key = x) <=>
                 (x = key \/ \E j \in Full(T) : j < i /\ T.buckets[j].key = x)
      BY <1>1, <1>2, <1>4, <2>1, <2>4
    <3>3. QED
      BY <2>9, <2>10, <3>1, <3>2
  <2>12. QED
    BY <2>6, <2>9, <2>11 DEF Holds
<1>5. QED
    BY <1>3, <1>4

\* A table that grew has what it had.
LEMMA RehashedIs ==
    ASSUME NEW T, TableOK(T)
    PROVE  /\ TableOK(Rehashed(T)) /\ Rehashed(T).count = T.count
           /\ Rehashed(T).nbBuckets = 2 * T.nbBuckets + 1
           /\ \A x : Found(Rehashed(T), x) = Found(T, x)
<1>0. Shaped(T)
    BY DEF TableOK
<1>1. PICK N \in Nat \ {0} : N = T.nbBuckets
    BY <1>0, PairsAre
<1>2. PICK nb \in Nat \ {0} : nb = 2 * N + 1
    OBVIOUS
<1>3. PICK V : V = MapTables
    OBVIOUS
<1>4. PICK base : base = EmptyTable(nb)
    OBVIOUS
<1>5. base \in V /\ base.nbBuckets = nb /\ Holds(T, base, 0)
  <2>1. \A j \in Full(T) : ~ (j < 0)
    BY <1>1 DEF Full
  <2>2. {j \in Full(T) : j < 0} = {}
    BY <2>1
  <2>3. TableOK(base) /\ base.count = 0 /\ base.nbBuckets = nb /\ \A x : Found(base, x) = NULL
    BY <1>4, EmptyIsOK
  <2>4. Holds(T, base, 0)
    BY <2>1, <2>2, <2>3, FS_EmptySet DEF Holds
  <2>5. QED
    BY <1>3, <2>3, <2>4 DEF TableOK, Shaped
<1> DEFINE Onward(v, i) == IF T.buckets[i].key = NOTAKEY THEN v
                           ELSE Pushed(v, T.buckets[i].key, T.buckets[i].value)
           Good(i, m) == Holds(T, m, i) /\ m.nbBuckets = nb
<1>6. ASSUME NEW i \in 0..N, i < N, NEW m, Good(i, m)
      PROVE  Good(i + 1, Onward(m, i)) /\ Onward(m, i) \in V
  <2>1. i \in 0..T.nbBuckets - 1 /\ T.nbBuckets < m.nbBuckets
    BY <1>1, <1>2, <1>6
  <2>2. Holds(T, Onward(m, i), i + 1) /\ Onward(m, i).nbBuckets = nb
    BY <1>0, <1>6, <2>1, HoldOneMore
  <2>3. QED
    BY <1>3, <2>2 DEF Holds, TableOK, Shaped
<1> HIDE DEF Onward, Good
<1>7. PICK step : step = [i \in 1..N |-> [v \in V |->
              IF Onward(v, i - 1) \in V THEN Onward(v, i - 1) ELSE v]]
    OBVIOUS
<1>8. step \in [1..N -> [V -> V]]
    BY <1>7
<1>9. PICK g \in [0..N -> V] : \A i \in 0..N :
              g[i] = IF i = 0 THEN base ELSE step[i][g[i - 1]]
  <2>1. Iteration(N, V, base, step)
    BY <1>5, <1>8 DEF Iteration
  <2>2. QED
    BY <2>1, PrefixRecursion
<1>10. ASSUME NEW i \in 0..N, i < N
       PROVE  g[i + 1] = IF Onward(g[i], i) \in V THEN Onward(g[i], i) ELSE g[i]
  <2>1. i + 1 \in 0..N /\ i + 1 # 0 /\ (i + 1) - 1 = i /\ i + 1 \in 1..N
    BY <1>10
  <2>2. g[i + 1] = step[i + 1][g[i]] /\ g[i] \in V
    BY <1>9, <2>1
  <2>3. QED
    BY <1>7, <2>1, <2>2
<1>11. \A i \in 0..N : Good(i, g[i])
  <2> DEFINE G == {i \in 0..N : Good(i, g[i])}
  <2>1. 0 \in G
    BY <1>5, <1>9 DEF Good
  <2>2. ASSUME NEW i \in 0..N, i \in G, i < N
        PROVE  i + 1 \in G
    BY <1>6, <1>10, <2>2
  <2>3. G \in SUBSET (0..N)
    OBVIOUS
  <2> HIDE DEF G
  <2>4. G = 0..N
    BY <2>1, <2>2, <2>3, PrefixInduction
  <2>5. QED
    BY <2>4 DEF G
<1>12. \A i \in 0..N : g[i] = IF i = 0 THEN base ELSE Onward(g[i - 1], i - 1)
  <2> SUFFICES ASSUME NEW i \in 0..N, i # 0
               PROVE  g[i] = Onward(g[i - 1], i - 1)
    BY <1>9
  <2>1. i - 1 \in 0..N /\ i - 1 < N /\ (i - 1) + 1 = i
    OBVIOUS
  <2>2. QED
    BY <1>6, <1>10, <1>11, <2>1
<1> DEFINE moved[i \in 0..T.nbBuckets] ==
               IF i = 0 THEN EmptyTable(2 * T.nbBuckets + 1)
               ELSE LET pair == T.buckets[i - 1]
                    IN  IF pair.key = NOTAKEY THEN moved[i - 1]
                        ELSE Pushed(moved[i - 1], pair.key, pair.value)
<1>13. moved = [i \in 0..N |-> IF i = 0 THEN base ELSE Onward(moved[i - 1], i - 1)]
  <2>1. g = [i \in 0..N |-> IF i = 0 THEN base ELSE Onward(g[i - 1], i - 1)]
    BY <1>12
  <2>2. QED
    BY <1>1, <1>2, <1>4, <2>1 DEF Onward
<1>14. Rehashed(T) = moved[N]
    BY <1>1 DEF Rehashed
<1> HIDE DEF moved
<1>15. Good(N, moved[N])
  <2> DEFINE G == {i \in 0..N : Good(i, moved[i])}
  <2>1. 0 \in G
    BY <1>5, <1>13 DEF Good
  <2>2. ASSUME NEW i \in 0..N, i \in G, i < N
        PROVE  i + 1 \in G
    <3>1. i + 1 \in 0..N /\ i + 1 # 0 /\ (i + 1) - 1 = i
      BY <2>2
    <3>2. moved[i + 1] = Onward(moved[i], i)
      BY <1>13, <3>1
    <3>3. QED
      BY <1>6, <2>2, <3>1, <3>2
  <2>3. G \in SUBSET (0..N)
    OBVIOUS
  <2> HIDE DEF G
  <2>4. G = 0..N
    BY <2>1, <2>2, <2>3, PrefixInduction
  <2>5. N \in G
    BY <2>4
  <2>6. QED
    BY <2>5 DEF G
<1>16. \A j \in Full(T) : j < N
    BY <1>1 DEF Full
<1>17. {j \in Full(T) : j < N} = Full(T)
    BY <1>16
<1>18. \A x : (\E j \in Full(T) : j < N /\ T.buckets[j].key = x) <=> Has(T, x)
    BY <1>16 DEF Has
<1>19. \A x : ~ Has(T, x) => Found(T, x) = NULL
    BY DEF Found
<1>20. QED
    BY <1>1, <1>2, <1>14, <1>15, <1>17, <1>18, <1>19 DEF Good, Holds, TableOK

LEMMA OtherBuckets ==
    ASSUME NEW C, NEW N, NEW B, NEW T \in [count : C, nbBuckets : N, buckets : B],
           NEW b, NEW P, P = [T EXCEPT !.buckets = b]
    PROVE  P = [count |-> T.count, nbBuckets |-> T.nbBuckets, buckets |-> b]
OBVIOUS

LEMMA OtherCount ==
    ASSUME NEW C, NEW N, NEW B, NEW T \in [count : C, nbBuckets : N, buckets : B],
           NEW b, NEW d, NEW P, P = [T EXCEPT !.count = d, !.buckets = b]
    PROVE  P = [count |-> d, nbBuckets |-> T.nbBuckets, buckets |-> b]
OBVIOUS

\* A bucket gets another value.
LEMMA OverwrittenIs ==
    ASSUME NEW T, TableOK(T), NEW i \in Full(T), NEW key, key = T.buckets[i].key,
           NEW value \in Classes, NEW P, P = [T EXCEPT !.buckets[i].value = value]
    PROVE  /\ TableOK(P) /\ P.count = T.count /\ P.nbBuckets = T.nbBuckets
           /\ \A x : Found(P, x) = IF x = key THEN value ELSE Found(T, x)
<1>1. PICK nb \in Nat \ {0} : nb = T.nbBuckets
    BY PairsAre DEF TableOK
<1>2. T = [count |-> T.count, nbBuckets |-> nb, buckets |-> T.buckets]
          /\ T.buckets \in [0..nb - 1 -> Pairs] /\ T.count \in Nat
    BY <1>1 DEF TableOK, Shaped, MapTables
<1>3. i \in 0..nb - 1 /\ key \in DOMAIN Hash /\ key # NOTAKEY /\ value # NULL
    BY <1>1, PairsAre, RegistryAssumption DEF TableOK, Full
<1>4. /\ P = [count |-> T.count, nbBuckets |-> nb, buckets |-> P.buckets]
      /\ P.buckets = [T.buckets EXCEPT ![i] = [T.buckets[i] EXCEPT !.value = value]]
  <2>1. P = [T EXCEPT !.buckets = [T.buckets EXCEPT ![i] = [T.buckets[i] EXCEPT !.value = value]]]
    OBVIOUS
  <2>2. PICK b : b = [T.buckets EXCEPT ![i] = [T.buckets[i] EXCEPT !.value = value]]
    OBVIOUS
  <2>3. P = [T EXCEPT !.buckets = b]
    BY <2>1, <2>2
  <2>4. T \in [count : Nat, nbBuckets : Nat, buckets : [0..nb - 1 -> Pairs]]
    BY <1>2
  <2>5. P = [count |-> T.count, nbBuckets |-> T.nbBuckets, buckets |-> b]
    BY <2>3, <2>4, OtherBuckets
  <2>6. QED
    BY <1>1, <2>2, <2>5
<1>5. T.buckets[i] \in Pairs
    BY <1>2, <1>3
<1>6. [T.buckets[i] EXCEPT !.value = value] = [key |-> key, value |-> value]
    BY <1>5 DEF Pairs
<1>7. [key |-> key, value |-> value] \in Pairs
    BY <1>3 DEF Pairs
<1>8. /\ P.buckets \in [0..nb - 1 -> Pairs]
      /\ \A j \in 0..nb - 1 : P.buckets[j] = IF j = i THEN [key |-> key, value |-> value]
                                             ELSE T.buckets[j]
    BY <1>2, <1>3, <1>4, <1>6, <1>7
<1>9. \A j \in 0..nb - 1 : P.buckets[j].key = T.buckets[j].key
    BY <1>8
<1>10. Full(P) = Full(T)
    BY <1>1, <1>4, <1>9 DEF Full
<1>11. Shaped(P)
  <2>1. P \in MapTables
    BY <1>2, <1>4, <1>8 DEF MapTables
  <2>2. \A j \in Full(P) : P.buckets[j].value # NULL /\ Reached(P, j)
    <3> TAKE j \in Full(P)
    <3>1. j \in 0..nb - 1 /\ T.buckets[j].value # NULL /\ Reached(T, j)
      BY <1>1, <1>10 DEF Full, TableOK, Shaped
    <3>2. P.nbBuckets = nb
      BY <1>4
    <3>3. QED
      BY <1>1, <1>3, <1>8, <1>9, <1>10, <3>1, <3>2 DEF Reached
  <2>3. \A j \in Full(P) : j \in 0..nb - 1
    BY <1>1, <1>10 DEF Full
  <2>4. \A j, k \in Full(P) : P.buckets[j].key = P.buckets[k].key => j = k
    BY <1>9, <1>10, <2>3 DEF Shaped, TableOK
  <2>5. P.nbBuckets = nb
    BY <1>4
  <2>6. QED
    BY <1>8, <2>1, <2>2, <2>4, <2>5 DEF Shaped
<1>12. ASSUME NEW x
       PROVE  Found(P, x) = IF x = key THEN value ELSE Found(T, x)
  <2>1. CASE Has(T, x)
    <3>1. PICK j \in Full(T) : T.buckets[j].key = x
      BY <2>1 DEF Has
    <3>2. j \in 0..nb - 1 /\ (j = i <=> x = key)
      BY <1>1, <3>1 DEF Full, TableOK, Shaped
    <3>3. Found(P, x) = P.buckets[j].value /\ Found(T, x) = T.buckets[j].value
      BY <1>9, <1>10, <1>11, <3>1, <3>2, FoundIs DEF TableOK
    <3>4. QED
      BY <1>8, <3>2, <3>3
  <2>2. CASE ~ Has(T, x)
    <3>1. x # key
      BY <2>2 DEF Has
    <3>2. \A j \in Full(T) : j \in 0..nb - 1
      BY <1>1 DEF Full
    <3>3. ~ Has(P, x)
      BY <1>9, <1>10, <2>2, <3>2 DEF Has
    <3>4. QED
      BY <2>2, <3>1, <3>3 DEF Found
  <2>3. QED
    BY <2>1, <2>2
<1>13. P.count = T.count /\ P.nbBuckets = T.nbBuckets
    BY <1>1, <1>4
<1>14. QED
    BY <1>10, <1>11, <1>12, <1>13 DEF TableOK

\* A key and its value are put in, in place of the value that the key had.
LEMMA InsertIs ==
    ASSUME NEW T, TableOK(T), NEW key \in DOMAIN Hash, NEW value \in Classes,
           NEW P, P = NXMapInsert(T, key, value)
    PROVE  /\ TableOK(P)
           /\ \A x : Found(P, x) = IF x = key THEN value ELSE Found(T, x)
<1>0. Shaped(T) /\ key # NOTAKEY
    BY HashAssumption DEF TableOK
<1>1. PICK nb \in Nat \ {0} : nb = T.nbBuckets
    BY <1>0, PairsAre
<1>2. CASE Pair(T, key, 0).key = key
  <2>1. PICK i : i = Index(T, key, 0)
    OBVIOUS
  <2>2. i \in 0..nb - 1
    BY <1>1, <2>1, IndexIs, ProbesAre
  <2>3. i \in Full(T) /\ T.buckets[i].key = key
    BY <1>0, <1>1, <1>2, <2>1, <2>2 DEF Full, Pair
  <2>4. P = [T EXCEPT !.buckets[i].value = value]
    BY <1>2, <2>1 DEF NXMapInsert
  <2>5. QED
    BY <2>3, <2>4, OverwrittenIs
<1>3. CASE Pair(T, key, 0).key # key
  <2>1. PICK roomy : roomy = IF T.count = T.nbBuckets THEN Rehashed(T) ELSE T
    OBVIOUS
  <2>2. PICK pushed : pushed = Pushed(roomy, key, value)
    OBVIOUS
  <2>3. /\ TableOK(roomy) /\ roomy.count # roomy.nbBuckets
        /\ \A x : Found(roomy, x) = Found(T, x)
    <3>1. CASE T.count = T.nbBuckets
      <4>1. roomy.count = nb /\ roomy.nbBuckets = 2 * nb + 1
        BY <1>1, <2>1, <3>1, RehashedIs
      <4>2. nb # 2 * nb + 1
        OBVIOUS
      <4>3. QED
        BY <2>1, <3>1, <4>1, <4>2, RehashedIs
    <3>2. CASE T.count # T.nbBuckets
      BY <2>1, <3>2
    <3>3. QED
      BY <3>1, <3>2
  <2>4. P = IF Holding(roomy, key) # {}
            THEN [roomy EXCEPT !.buckets[Index(roomy, key,
                                 CHOOSE d \in Holding(roomy, key) : TRUE)].value = value]
            ELSE IF Chain(roomy, key) > 0 /\ Crowded(pushed) THEN Rehashed(pushed)
            ELSE pushed
    BY <1>3, <2>1, <2>2 DEF NXMapInsert
  <2>5. CASE Has(roomy, key)
    <3>1. PICK i \in Full(roomy) : roomy.buckets[i].key = key
      BY <2>5 DEF Has
    <3>2. PICK d : Holding(roomy, key) = {d} /\ Probe(key, roomy.nbBuckets, d) = i
      BY <2>3, <3>1, HoldingIs DEF TableOK
    <3>3. (CHOOSE e \in Holding(roomy, key) : TRUE) = d
      BY <3>2
    <3>4. P = [roomy EXCEPT !.buckets[i].value = value]
      BY <2>4, <3>2, <3>3, IndexIs
    <3>5. /\ TableOK(P)
          /\ \A x : Found(P, x) = IF x = key THEN value ELSE Found(roomy, x)
      BY <2>3, <3>1, <3>4, OverwrittenIs
    <3>6. QED
      BY <2>3, <3>5
  <2>6. CASE ~ Has(roomy, key)
    <3>1. Holding(roomy, key) = {}
      BY <2>3, <2>6, HoldingIs DEF TableOK
    <3>2. /\ TableOK(pushed)
          /\ \A x : Found(pushed, x) = IF x = key THEN value ELSE Found(roomy, x)
      BY <2>2, <2>3, <2>6, PushedIsOK
    <3>3. P = pushed \/ P = Rehashed(pushed)
      BY <2>4, <3>1
    <3>4. TableOK(P) /\ \A x : Found(P, x) = Found(pushed, x)
      BY <3>2, <3>3, RehashedIs
    <3>5. QED
      BY <2>3, <3>2, <3>4
  <2>7. QED
    BY <2>5, <2>6
<1>4. QED
    BY <1>2, <1>3

\* A table without a chain.
ChainCut(T, key, n, at, b, P) ==
    /\ n = Chain(T, key)
    /\ at = {Probe(key, T.nbBuckets, d) : d \in 0..n - 1}
    /\ b = [i \in DOMAIN T.buckets |-> IF i \in at THEN NoPair ELSE T.buckets[i]]
    /\ P = [count |-> T.count - n, nbBuckets |-> T.nbBuckets, buckets |-> b]

\* The table without the chain that NXMapRemove takes out.
LEMMA ClearedIs ==
    ASSUME NEW T, TableOK(T), NEW key \in DOMAIN Hash,
           NEW n, NEW at, NEW b, NEW P, ChainCut(T, key, n, at, b, P)
    PROVE  /\ TableOK(P) /\ Full(P) = Full(T) \ at
           /\ \A i \in Full(P) : P.buckets[i] = T.buckets[i]
<1> USE DEF ChainCut
<1>0. Shaped(T)
    BY DEF TableOK
<1>1. PICK nb \in Nat \ {0} : nb = T.nbBuckets
    BY <1>0, PairsAre
<1>2. n \in 0..nb /\ \A d \in 0..n - 1 : d \in 0..nb - 1
    BY <1>0, <1>1, ChainIs
<1>3. T = [count |-> T.count, nbBuckets |-> nb, buckets |-> T.buckets]
          /\ T.buckets \in [0..nb - 1 -> Pairs] /\ T.count \in Nat
    BY <1>0, <1>1 DEF Shaped, MapTables
<1>4. /\ P = [count |-> T.count - n, nbBuckets |-> nb, buckets |-> P.buckets]
      /\ P.buckets = [i \in 0..nb - 1 |-> IF i \in at THEN NoPair ELSE T.buckets[i]]
  <2>1. P = [count |-> T.count - n, nbBuckets |-> nb, buckets |-> b] /\ P.buckets = b
    BY <1>1
  <2>2. DOMAIN T.buckets = 0..nb - 1
    BY <1>3
  <2>3. QED
    BY <2>1, <2>2
<1>5. P.buckets \in [0..nb - 1 -> Pairs]
    BY <1>3, <1>4 DEF NoPair, Pairs
<1>6. Full(P) = Full(T) \ at
    BY <1>1, <1>4 DEF Full, NoPair
<1>7. \A i \in Full(P) : i \in 0..nb - 1 /\ P.buckets[i] = T.buckets[i]
  <2>1. \A i \in Full(P) : i \in 0..nb - 1 /\ i \notin at
    BY <1>1, <1>6 DEF Full
  <2>2. QED
    BY <1>4, <2>1
<1>8. at \in SUBSET Full(T)
    BY <1>0, <1>1, ChainIs
<1>9. T.count - n \in Nat /\ T.count - n = Cardinality(Full(P))
  <2>1. PICK f : f = [d \in 0..n - 1 |-> Probe(key, nb, d)]
    OBVIOUS
  <2>2. f \in Bijection(0..n - 1, at)
    <3>1. f \in [0..n - 1 -> at]
      BY <1>1, <2>1
    <3>2. \A d, e \in 0..n - 1 : f[d] = f[e] => d = e
      BY <1>1, <1>2, <2>1, ProbesAre
    <3>3. \A i \in at : \E d \in 0..n - 1 : f[d] = i
      BY <1>1, <2>1
    <3>4. QED
      BY <3>1, <3>2, <3>3 DEF Bijection, Injection, Surjection, IsInjective
  <2>3. IsFiniteSet(0..n - 1) /\ Cardinality(0..n - 1) = n
    <3>1. 0 \in Int /\ n - 1 \in Int
      BY <1>2
    <3>2. IsFiniteSet(0..n - 1)
          /\ Cardinality(0..n - 1) = IF 0 > n - 1 THEN 0 ELSE (n - 1) - 0 + 1
      BY <3>1, FS_Interval
    <3>3. QED
      BY <1>2, <3>2
  <2>4. ExistsBijection(0..n - 1, at)
    BY <2>2 DEF ExistsBijection
  <2>5. IsFiniteSet(at) /\ Cardinality(at) = n
    BY <2>3, <2>4, FS_Bijection
  <2>6. IsFiniteSet(Full(T)) /\ T.count = Cardinality(Full(T))
    BY <1>0, FullIsFinite DEF TableOK
  <2>7. Full(T) \cap at = at
    BY <1>8
  <2>8. Cardinality(Full(T) \ at) = T.count - n /\ IsFiniteSet(Full(T) \ at)
    <3>1. /\ IsFiniteSet(Full(T) \ at)
          /\ Cardinality(Full(T) \ at) = Cardinality(Full(T)) - Cardinality(Full(T) \cap at)
      BY <2>6, FS_Difference
    <3>2. QED
      BY <2>5, <2>6, <2>7, <3>1
  <2>9. QED
    BY <1>6, <2>8, FS_CardinalityType
<1>10. ASSUME NEW i \in Full(P)
       PROVE  Reached(P, i)
  <2>1. i \in Full(T) /\ i \notin at /\ P.buckets[i] = T.buckets[i]
    BY <1>6, <1>7
  <2>2. PICK k \in DOMAIN Hash : k = T.buckets[i].key
    BY <1>0, <2>1, PairsAre
  <2>3. PICK d \in 0..nb - 1 : /\ Probe(k, nb, d) = i
                               /\ \A e \in 0..d - 1 : Probe(k, nb, e) \in Full(T)
    BY <1>0, <1>1, <2>1, <2>2 DEF Shaped, Reached
  <2>4. ASSUME NEW e \in 0..d - 1, Probe(k, nb, e) \in at
        PROVE  FALSE
    <3> DEFINE G == {f \in 0..d : f >= e => Probe(k, nb, f) \in at}
    <3>1. 0 \in G
      BY <2>3, <2>4
    <3>2. ASSUME NEW f \in 0..d, f \in G, f < d
          PROVE  f + 1 \in G
      <4>1. f + 1 \in 0..d /\ f \in 0..nb - 2
        BY <2>3, <3>2
      <4>2. CASE f + 1 <= e
        <5>1. f + 1 >= e => f + 1 = e
          BY <2>3, <4>1, <4>2
        <5>2. QED
          BY <2>4, <4>1, <5>1
      <4>3. CASE f >= e
        <5>1. PICK c \in 0..n - 1 : Probe(k, nb, f) = Probe(key, nb, c)
          BY <1>1, <3>2, <4>3
        <5>2. Probe(k, nb, f + 1) \in Full(T)
          <6>1. f + 1 \in 0..d - 1 \/ f + 1 = d
            BY <4>1
          <6>2. QED
            BY <2>1, <2>3, <6>1
        <5>3. n # nb
          <6>1. CASE n = nb
            <7>1. PICK x \in 0..nb - 1 : Probe(key, nb, x) = i
              <8>1. i \in 0..nb - 1
                BY <1>1, <2>1 DEF Full
              <8>2. QED
                BY <8>1, ProbesAre
            <7>2. i \in at
              BY <1>1, <6>1, <7>1
            <7>3. QED
              BY <2>1, <7>2
          <6>2. QED
            BY <6>1
        <5>4. c \in 0..nb - 2
          BY <1>2, <5>3
        <5>5. Probe(k, nb, f + 1) = Probe(key, nb, c + 1)
          <6>1. Probe(k, nb, f + 1) =
                    IF Probe(k, nb, f) + 1 < nb THEN Probe(k, nb, f) + 1 ELSE 0
            BY <4>1, ProbesAre
          <6>2. Probe(key, nb, c + 1) =
                    IF Probe(key, nb, c) + 1 < nb THEN Probe(key, nb, c) + 1 ELSE 0
            BY <5>4, ProbesAre
          <6>3. QED
            BY <5>1, <6>1, <6>2
        <5>6. c + 1 # n
          <6>1. Probe(key, nb, n) \notin Full(T)
            BY <1>0, <1>1, <1>2, <5>3, ChainIs
          <6>2. QED
            BY <5>2, <5>5, <6>1
        <5>7. c + 1 \in 0..n - 1
          BY <1>2, <5>6
        <5>8. Probe(k, nb, f + 1) \in at
          BY <1>1, <5>5, <5>7
        <5>9. QED
          BY <4>1, <5>8
      <4>4. QED
        BY <2>3, <3>2, <4>2, <4>3
    <3>3. G \in SUBSET (0..d)
      OBVIOUS
    <3> HIDE DEF G
    <3>4. G = 0..d
      BY <2>3, <3>1, <3>2, <3>3, PrefixInduction
    <3>5. d \in G /\ d >= e
      BY <2>3, <3>4
    <3>6. QED
      BY <2>1, <2>3, <3>5 DEF G
  <2>5. \A e \in 0..d - 1 : Probe(k, nb, e) \in Full(P)
    BY <1>6, <2>3, <2>4
  <2>6. P.nbBuckets = nb
    BY <1>4
  <2>7. QED
    BY <2>1, <2>2, <2>3, <2>5, <2>6 DEF Reached
<1>11. P \in MapTables
    BY <1>4, <1>5, <1>9 DEF MapTables
<1>12. Shaped(P)
  <2>1. \A i, j \in Full(P) : P.buckets[i].key = P.buckets[j].key => i = j
    BY <1>0, <1>6, <1>7 DEF Shaped
  <2>2. \A i \in Full(P) : P.buckets[i].value # NULL
    BY <1>0, <1>6, <1>7 DEF Shaped
  <2>3. QED
    BY <1>4, <1>5, <1>10, <1>11, <2>1, <2>2 DEF Shaped
<1>13. P.count = Cardinality(Full(P))
    BY <1>4, <1>9
<1>14. QED
    BY <1>6, <1>7, <1>12, <1>13 DEF TableOK

\* A key and its value are taken out.
LEMMA RemoveIs ==
    ASSUME NEW T, TableOK(T), NEW key \in DOMAIN Hash
    PROVE  /\ TableOK(NXMapRemove(T, key))
           /\ \A x : Found(NXMapRemove(T, key), x) = IF x = key THEN NULL ELSE Found(T, x)
<1>0. Shaped(T)
    BY DEF TableOK
<1>1. PICK nb \in Nat \ {0} : nb = T.nbBuckets
    BY <1>0, PairsAre
<1>2. PICK n : n = Chain(T, key)
    OBVIOUS
<1>3. n \in 0..nb /\ \A d \in 0..n - 1 : d \in 0..nb - 1 /\ Probe(key, nb, d) \in Full(T)
    BY <1>0, <1>1, <1>2, ChainIs
<1>4. PICK at : at = {Index(T, key, d) : d \in 0..n - 1}
    OBVIOUS
<1>5. at = {Probe(key, nb, d) : d \in 0..n - 1}
    BY <1>1, <1>4, IndexIs
<1>6. CASE Holding(T, key) = {}
  <2>1. NXMapRemove(T, key) = T
    BY <1>6 DEF NXMapRemove
  <2>2. Found(T, key) = NULL
    BY <1>0, <1>6, HoldingIs, FoundIs
  <2>3. QED
    BY <2>1, <2>2
<1>7. CASE Holding(T, key) # {}
  <2>1. PICK cleared : cleared = [T EXCEPT
            !.count = @ - n,
            !.buckets = [i \in DOMAIN T.buckets |-> IF i \in at THEN NoPair ELSE T.buckets[i]]]
    OBVIOUS
  <2>2. /\ TableOK(cleared) /\ Full(cleared) = Full(T) \ at
        /\ \A i \in Full(cleared) : cleared.buckets[i] = T.buckets[i]
    <3>1. at = {Probe(key, T.nbBuckets, d) : d \in 0..n - 1}
      BY <1>1, <1>5
    <3>2. PICK b : b = [i \in DOMAIN T.buckets |-> IF i \in at THEN NoPair ELSE T.buckets[i]]
      OBVIOUS
    <3>3. cleared = [T EXCEPT !.count = T.count - n, !.buckets = b]
      BY <2>1, <3>2
    <3>4. T \in [count : Nat, nbBuckets : Nat, buckets : [0..nb - 1 -> Pairs]]
      BY <1>0, <1>1 DEF Shaped, MapTables
    <3>5. cleared = [count |-> T.count - n, nbBuckets |-> T.nbBuckets, buckets |-> b]
      BY <3>3, <3>4, OtherCount
    <3>6. ChainCut(T, key, n, at, b, cleared)
      BY <1>2, <3>1, <3>2, <3>5 DEF ChainCut
    <3>7. QED
      BY <3>6, ClearedIs
  \* What is in the table when the chain was put back down to its d-th pair.
  <2> DEFINE Back(d) == {i \in Full(T) : \A e \in 0..d - 1 : Probe(key, nb, e) # i}
             Good(d, m) ==
                 /\ TableOK(m)
                 /\ \A x : Found(m, x) = IF x # key /\ \E i \in Back(d) : T.buckets[i].key = x
                                         THEN Found(T, x) ELSE NULL
             Onward(m, d) == IF Pair(T, key, d).key = key THEN m
                             ELSE NXMapInsert(m, Pair(T, key, d).key, Pair(T, key, d).value)
  <2>3. Good(n, cleared)
    <3>1. Back(n) = Full(cleared)
      BY <1>5, <2>2
    <3>2. ASSUME NEW i \in Full(T), T.buckets[i].key = key
          PROVE  i \notin Full(cleared)
      <4>1. PICK d \in 0..nb - 1 : Probe(key, nb, d) = i /\ d < n
        BY <1>0, <1>1, <1>2, <3>2, HoldingIs
      <4>2. d \in 0..n - 1
        BY <1>3, <4>1
      <4>3. QED
        BY <1>5, <2>2, <4>1, <4>2
    <3>3. ASSUME NEW x
          PROVE  Found(cleared, x) = IF x # key /\ \E i \in Full(cleared) : T.buckets[i].key = x
                                     THEN Found(T, x) ELSE NULL
      <4>1. CASE \E i \in Full(cleared) : T.buckets[i].key = x
        <5>1. PICK i \in Full(cleared) : T.buckets[i].key = x
          BY <4>1
        <5>2. i \in Full(T) /\ x # key
          BY <2>2, <3>2, <5>1
        <5>3. Found(cleared, x) = T.buckets[i].value /\ Found(T, x) = T.buckets[i].value
          BY <1>0, <2>2, <5>1, <5>2, FoundIs DEF TableOK
        <5>4. QED
          BY <4>1, <5>2, <5>3
      <4>2. CASE ~ \E i \in Full(cleared) : T.buckets[i].key = x
        BY <2>2, <4>2 DEF Found, Has
      <4>3. QED
        BY <4>1, <4>2
    <3>4. QED
      BY <2>2, <3>1, <3>3
  <2>4. ASSUME NEW d \in 0..n - 1, NEW m, Good(d + 1, m)
        PROVE  Good(d, Onward(m, d)) /\ Onward(m, d) \in MapTables
    <3>1. PICK b \in Full(T) : b = Probe(key, nb, d)
      BY <1>3
    <3>2. Pair(T, key, d) = T.buckets[b]
      BY <1>1, <3>1, IndexIs DEF Pair
    <3>3. Back(d) = Back(d + 1) \cup {b}
      <4>1. \A e \in 0..d : e \in 0..d - 1 \/ e = d
        BY <1>3
      <4>2. (d + 1) - 1 = d
        OBVIOUS
      <4>3. \A e \in 0..d - 1 : Probe(key, nb, e) # b
        <5>1. \A e \in 0..d - 1 : e \in 0..nb - 1 /\ e # d
          BY <1>3
        <5>2. QED
          BY <1>3, <3>1, <5>1, ProbesAre
      <4>4. \A e \in 0..d - 1 : e \in 0..d
        BY <1>3
      <4>5. d \in 0..d
        BY <1>3
      <4>6. QED
        BY <3>1, <4>1, <4>2, <4>3, <4>4, <4>5
    <3> HIDE DEF Back
    <3>4. CASE T.buckets[b].key = key
      <4>1. Onward(m, d) = m
        BY <3>2, <3>4
      <4>2. \A x : (x # key /\ \E i \in Back(d) : T.buckets[i].key = x) <=>
                   (x # key /\ \E i \in Back(d + 1) : T.buckets[i].key = x)
        BY <3>3, <3>4
      <4>3. Good(d, m)
        BY <2>4, <4>2
      <4>4. QED
        BY <4>1, <4>3 DEF TableOK, Shaped
    <3>5. CASE T.buckets[b].key # key
      <4>1. PICK k \in DOMAIN Hash : k = T.buckets[b].key
        BY <1>0, PairsAre
      <4>2. PICK v \in Classes : v = T.buckets[b].value
        BY <1>0, PairsAre
      <4>3. PICK o : o = Onward(m, d)
        OBVIOUS
      <4>4. o = NXMapInsert(m, k, v)
        BY <3>2, <3>5, <4>1, <4>2, <4>3
      <4>5. TableOK(o) /\ \A x : Found(o, x) = IF x = k THEN v ELSE Found(m, x)
        BY <2>4, <4>4, InsertIs
      <4>6. Found(T, k) = v
        BY <1>0, <4>1, <4>2, FoundIs
      <4>7. \A x : Found(o, x) = IF x # key /\ \E i \in Back(d) : T.buckets[i].key = x
                                 THEN Found(T, x) ELSE NULL
        BY <2>4, <3>3, <3>5, <4>1, <4>5, <4>6
      <4>8. QED
        BY <4>3, <4>5, <4>7 DEF TableOK, Shaped
    <3>6. QED
      BY <3>4, <3>5
  <2>5. cleared \in MapTables
    BY <2>2 DEF TableOK, Shaped
  <2> HIDE DEF Good, Onward
  <2>6. PICK step : step = [i \in 1..n |-> [v \in MapTables |->
                IF Onward(v, n - i) \in MapTables THEN Onward(v, n - i) ELSE v]]
    OBVIOUS
  <2>7. PICK g \in [0..n -> MapTables] : \A i \in 0..n :
                g[i] = IF i = 0 THEN cleared ELSE step[i][g[i - 1]]
    <3>1. step \in [1..n -> [MapTables -> MapTables]]
      BY <2>6
    <3>2. n \in Nat
      BY <1>3
    <3>3. Iteration(n, MapTables, cleared, step)
      BY <2>5, <3>1, <3>2 DEF Iteration
    <3>4. QED
      BY <3>3, PrefixRecursion
  <2>8. ASSUME NEW i \in 0..n, i < n
        PROVE  g[i + 1] = IF Onward(g[i], n - (i + 1)) \in MapTables
                          THEN Onward(g[i], n - (i + 1)) ELSE g[i]
    <3>1. i + 1 \in 0..n /\ i + 1 # 0 /\ (i + 1) - 1 = i /\ i + 1 \in 1..n
      BY <1>3, <2>8
    <3>2. g[i + 1] = step[i + 1][g[i]] /\ g[i] \in MapTables
      BY <2>7, <3>1
    <3>3. QED
      BY <2>6, <3>1, <3>2
  <2>9. \A i \in 0..n : i < n => /\ n - (i + 1) \in 0..n - 1 /\ (n - (i + 1)) + 1 = n - i
                                 /\ i + 1 \in 0..n
    BY <1>3
  <2>10. \A i \in 0..n : Good(n - i, g[i])
    <3> DEFINE G == {i \in 0..n : Good(n - i, g[i])}
    <3>1. 0 \in G
      BY <1>3, <2>3, <2>7
    <3>2. ASSUME NEW i \in 0..n, i \in G, i < n
          PROVE  i + 1 \in G
      BY <2>4, <2>8, <2>9, <3>2
    <3>3. G \in SUBSET (0..n)
      OBVIOUS
    <3> HIDE DEF G
    <3>4. G = 0..n
      BY <1>3, <3>1, <3>2, <3>3, PrefixInduction
    <3>5. QED
      BY <3>4 DEF G
  <2>11. \A i \in 0..n : i < n => g[i + 1] = Onward(g[i], n - (i + 1))
    BY <2>4, <2>8, <2>9, <2>10
  <2>12. PICK h : h = [d \in 0..n |-> g[n - d]]
    OBVIOUS
  <2>13. h = [d \in 0..n |-> IF d = n THEN cleared ELSE Onward(h[d + 1], d)]
    <3>1. ASSUME NEW d \in 0..n
          PROVE  h[d] = IF d = n THEN cleared ELSE Onward(h[d + 1], d)
      <4>1. CASE d = n
        <5>1. n - d = 0 /\ 0 \in 0..n
          BY <1>3, <4>1
        <5>2. QED
          BY <2>7, <2>12, <4>1, <5>1
      <4>2. CASE d # n
        <5>1. /\ d + 1 \in 0..n /\ n - (d + 1) \in 0..n /\ n - (d + 1) < n
              /\ (n - (d + 1)) + 1 = n - d /\ n - ((n - (d + 1)) + 1) = d
          BY <1>3, <4>2
        <5>2. g[n - d] = Onward(g[n - (d + 1)], d)
          BY <2>11, <5>1
        <5>3. QED
          BY <2>12, <4>2, <5>1, <5>2
      <4>3. QED
        BY <4>1, <4>2
    <3>2. QED
      BY <2>12, <3>1
  <2> DEFINE cut == [T EXCEPT
                 !.count = @ - Chain(T, key),
                 !.buckets = [i \in DOMAIN @ |->
                     IF i \in {Index(T, key, d) : d \in 0..Chain(T, key) - 1} THEN NoPair ELSE @[i]]]
             reinserted[d \in 0..Chain(T, key)] ==
                 IF d = Chain(T, key) THEN cut
                 ELSE LET pair == Pair(T, key, d)
                      IN  IF pair.key = key THEN reinserted[d + 1]
                          ELSE NXMapInsert(reinserted[d + 1], pair.key, pair.value)
             back[d \in 0..Chain(T, key)] == IF d = Chain(T, key) THEN cut ELSE Onward(back[d + 1], d)
  <2>14. NXMapRemove(T, key) = reinserted[0]
    BY <1>7 DEF NXMapRemove
  <2>15. reinserted = [d \in 0..n |-> IF d = n THEN cleared ELSE Onward(reinserted[d + 1], d)]
    <3>1. cut = cleared
      BY <1>2, <1>4, <2>1
    <3>2. reinserted = back
      BY DEF Onward
    <3> HIDE DEF cut, Onward
    <3>3. h = [d \in 0..Chain(T, key) |-> IF d = Chain(T, key) THEN cut ELSE Onward(h[d + 1], d)]
      BY <1>2, <2>13, <3>1
    <3>4. back = [d \in 0..Chain(T, key) |->
                      IF d = Chain(T, key) THEN cut ELSE Onward(back[d + 1], d)]
      BY <3>3
    <3> HIDE DEF back
    <3>5. back = [d \in 0..n |-> IF d = n THEN cleared ELSE Onward(back[d + 1], d)]
      BY <1>2, <3>1, <3>4
    <3>6. QED
      BY <3>2, <3>5
  <2> HIDE DEF reinserted
  <2>16. Good(0, reinserted[0])
    <3> DEFINE G == {i \in 0..n : Good(n - i, reinserted[n - i])}
    <3>1. 0 \in G
      <4>1. n - 0 = n /\ n \in 0..n /\ 0 \in 0..n
        BY <1>3
      <4>2. QED
        BY <2>3, <2>15, <4>1
    <3>2. ASSUME NEW i \in 0..n, i \in G, i < n
          PROVE  i + 1 \in G
      <4>1. PICK d \in 0..n - 1 : d = n - (i + 1)
        BY <2>9, <3>2
      <4>2. d + 1 = n - i /\ d \in 0..n /\ d # n
        BY <1>3, <3>2, <4>1
      <4>3. reinserted[d] = Onward(reinserted[d + 1], d)
        BY <2>15, <4>2
      <4>4. Good(d, reinserted[d])
        BY <2>4, <3>2, <4>2, <4>3
      <4>5. QED
        BY <2>9, <3>2, <4>1, <4>4
    <3>3. G \in SUBSET (0..n)
      OBVIOUS
    <3> HIDE DEF G
    <3>4. G = 0..n
      BY <1>3, <3>1, <3>2, <3>3, PrefixInduction
    <3>5. n \in G /\ n - n = 0
      BY <1>3, <3>4
    <3>6. QED
      BY <3>5 DEF G
  <2>17. Back(0) = Full(T)
    OBVIOUS
  <2>18. \A x : ~ Has(T, x) => Found(T, x) = NULL
    BY DEF Found
  <2>19. QED
    BY <2>14, <2>16, <2>17, <2>18 DEF Good, Has
<1>8. QED
    BY <1>6, <1>7

\* The count is that of the keys which have a value.
LEMMA CountIs ==
    ASSUME NEW T, TableOK(T)
    PROVE  T.count = Cardinality({x \in DOMAIN Hash : Found(T, x) # NULL})
<1>0. Shaped(T)
    BY DEF TableOK
<1>1. PICK f : f = [i \in Full(T) |-> T.buckets[i].key]
    OBVIOUS
<1>2. PICK S : S = {x \in DOMAIN Hash : Found(T, x) # NULL}
    OBVIOUS
<1>3. f \in Bijection(Full(T), S)
  <2>1. f \in [Full(T) -> S]
    BY <1>0, <1>1, <1>2, PairsAre, FoundIs DEF Has
  <2>2. \A i, j \in Full(T) : f[i] = f[j] => i = j
    BY <1>0, <1>1 DEF Shaped
  <2>3. \A x \in S : \E i \in Full(T) : f[i] = x
    BY <1>0, <1>1, <1>2, FoundIs DEF Has
  <2>4. QED
    BY <2>1, <2>2, <2>3 DEF Bijection, Injection, Surjection, IsInjective
<1>4. ExistsBijection(Full(T), S)
    BY <1>3 DEF ExistsBijection
<1>5. Cardinality(Full(T)) = Cardinality(S)
    BY <1>0, <1>4, FS_Bijection, FullIsFinite
<1>6. QED
    BY <1>2, <1>5 DEF TableOK

-----------------------------------------------------------------------------
(* The inductive invariant.                                                *)

\* A class of an image, or a pair that was made and not disposed of.
Live(c) == c \in StaticClasses \/ flags[Class(c)] # {}

ToRealize(n) == \E k \in DOMAIN todo : todo[k].task = "realize" /\ todo[k].node = n
ToConnect(n) == \E k \in DOMAIN todo : todo[k].task = "connect" /\ todo[k].node = n

\* A realized class that is in the list of its superclass, if it has one.
Linked(n) == isRealized(n) /\ ~ ToConnect(n)

\* Tasks that come after the classes were read and realized.
Late == {"category", "flush"}

TodoOK ==
    /\ Free => todo = <<>>
    /\ \A k \in DOMAIN todo :
          /\ todo[k].task = "realize" => todo[k].node = NULL \/ Live(todo[k].node[1])
          /\ todo[k].task = "connect" =>
                /\ todo[k].node[1] \in StaticClasses
                /\ isRealized(todo[k].node) /\ todo[k].node \notin realized
          /\ todo[k].task \in Late =>
                \A j \in DOMAIN todo : j > k => todo[j].task \in Late
          /\ todo[k].task = "flush" => \A j \in DOMAIN todo : todo[j].task \in Late
    /\ \A j, k \in DOMAIN todo : todo[j].task = "connect" /\ todo[k] = todo[j] => j = k

\* A pair is made as a whole.
PairOK ==
    \A c \in Addresses : \/ flags[Class(c)] = {} /\ flags[Meta(c)] = {}
                         \/ isRealized(Class(c)) /\ isRealized(Meta(c))

\* The metaclasses mirror the classes, up to the root metaclass, whose
\* superclass is the root class.
TreeOK ==
    /\ \A c \in Classes :
          IF Live(c)
          THEN /\ isa[Class(c)] = Meta(c)
               /\ \/ superclass[Class(c)] = NULL /\ superclass[Meta(c)] = Class(c)
                  \/ \E d \in Classes : /\ Live(d)
                                        /\ superclass[Class(c)] = Class(d)
                                        /\ superclass[Meta(c)] = Meta(d)
          ELSE superclass[Class(c)] = NULL /\ superclass[Meta(c)] = NULL
    /\ \A c \in StaticClasses : isa[Meta(c)] # NULL /\ isa[Meta(c)][1] \in StaticClasses

\* What threads are about to realize and initialize is there.
UseOK ==
    /\ \A t \in Threads : \A k \in DOMAIN op[t] : Live(op[t][k].node[1])
    /\ \A c \in Classes : uninitialized[Meta(c)] = c => Live(c)

NameOK ==
    /\ TableOK(namedClasses)
    /\ \A x \in DOMAIN Hash : Found(namedClasses, x) = named[x]
    /\ \A x \in DOMAIN Hash : named[x] # NULL => name[named[x]] = x /\ Live(named[x])
    /\ \A c \in Classes : Live(c) => name[c] \in DOMAIN Hash

\* What is above a realized class is realized, or about to be.
UpOK ==
    /\ \A n \in realized : Linked(n)
    /\ \A n \in Nodes : isRealized(n) =>
          \/ superclass[n] = NULL
          \/ isRealized(superclass[n])
          \/ ToRealize(superclass[n])
    /\ \A c \in Classes : isRealized(Class(c)) => isRealized(Meta(c)) \/ ToRealize(Meta(c))

\* The categories of a class that is not connected yet wait.
CategoryOK ==
    \A n \in StaticClasses \X {"class", "meta"} :
        IF Linked(n) THEN methods[n] = Reverse(arrived[n]) \o <<"base">> /\ unattached[n] = <<>>
        ELSE methods[n] = <<>> /\ unattached[n] = arrived[n]

\* The lists that the links make: list[n] has the subclasses of n.
Lists(list, links) ==
    /\ list \in [Nodes -> Seq(Nodes)]
    /\ links.first \in [Nodes -> Nodes \cup {NULL}] /\ links.next \in [Nodes -> Nodes \cup {NULL}]
    /\ \A n \in Nodes : links.first[n] = IF list[n] = <<>> THEN NULL ELSE list[n][1]
    /\ \A n \in Nodes : \A k \in DOMAIN list[n] :
          links.next[list[n][k]] = IF k = Len(list[n]) THEN NULL ELSE list[n][k + 1]
    /\ \A m, n \in Nodes : \A j \in DOMAIN list[m], k \in DOMAIN list[n] :
          list[m][j] = list[n][k] => m = n /\ j = k

SubclassesAre(list) ==
    /\ Lists(list, Links)
    /\ \A n \in Nodes : Range(list[n]) = {m \in Nodes : Linked(m) /\ superclass[m] = n}

LinkOK == \E list : SubclassesAre(list)

\* The superclasses, as far up as top.
UpTo(top) == [superclass EXCEPT ![top] = NULL]

\* A class on the way up from node, before top.
Before(top, node, a) == a # top /\ a \in Above(UpTo(top), node)

\* The classes that FOREACH_REALIZED_SUBCLASS has yet to come to: node and
\* those below it, and those below a later sibling of a class between node
\* and top.
Remaining(list, top, node) ==
    {m \in Nodes : \/ node \in Above(superclass, m)
                   \/ \E n \in Nodes : \E j, k \in DOMAIN list[n] :
                         j < k /\ Before(top, node, list[n][j])
                               /\ list[n][k] \in Above(superclass, m)}

FlushOK ==
    /\ \A k \in DOMAIN todo : todo[k].task = "flush" =>
          /\ isRealized(todo[k].node)
          /\ todo[k].top \in Above(superclass, todo[k].node)
    /\ \A list : SubclassesAre(list) => \A m \in stale :
          /\ isRealized(m)
          /\ \E k \in DOMAIN todo :
                todo[k].task = "flush" /\ m \in Remaining(list, todo[k].top, todo[k].node)

IInv == /\ TypeOK /\ TodoOK /\ PairOK /\ TreeOK /\ UseOK /\ NameOK /\ UpOK
        /\ CategoryOK /\ LinkOK /\ FlushOK

-----------------------------------------------------------------------------
(* Lemmas: what the constants are.                                         *)

\* What RegistryAssumption says of classes and their two sides.
LEMMA NodesAre ==
    /\ IsFiniteSet(Nodes) /\ Cardinality(Nodes) \in Nat
    /\ NULL \notin Nodes /\ NULL \notin Classes /\ NULL \notin Threads
    /\ \A c \in Classes : Class(c) \in Nodes /\ Meta(c) \in Nodes
    /\ \A n \in Nodes : n[1] \in Classes /\ (n = Class(n[1]) \/ n = Meta(n[1]))
    /\ \A c, d : Class(c) # Meta(d) /\ (Class(c) = Class(d) => c = d) /\ (Meta(c) = Meta(d) => c = d)
    /\ \A c : Class(c)[1] = c /\ Meta(c)[1] = c /\ ~ IsMeta(Class(c)) /\ IsMeta(Meta(c))
    /\ StaticClasses \X {"class", "meta"} = {n \in Nodes : n[1] \in StaticClasses}
<1>1. IsFiniteSet({"class", "meta"})
  <2>1. IsFiniteSet({} \cup {"class"})
    BY FS_EmptySet, FS_AddElement
  <2>2. IsFiniteSet(({} \cup {"class"}) \cup {"meta"})
    BY <2>1, FS_AddElement
  <2>3. {"class", "meta"} = ({} \cup {"class"}) \cup {"meta"}
    OBVIOUS
  <2>4. QED
    BY <2>2, <2>3
<1>2. IsFiniteSet(Nodes)
    BY <1>1, FS_Product, RegistryAssumption DEF Nodes
<1>3. Cardinality(Nodes) \in Nat
    BY <1>2, FS_CardinalityType
<1>4. QED
    BY <1>2, <1>3, RegistryAssumption DEF Nodes, Class, Meta, IsMeta, Classes

\* The class at the top of the hierarchy of a class is a class of an image.
LEMMA RootIs ==
    ASSUME NEW c \in StaticClasses
    PROVE  RootOf(c) \in StaticClasses
<1>1. PICK N \in Nat : N = Cardinality(StaticClasses)
  <2>1. StaticClasses \in SUBSET Classes
    BY DEF Classes
  <2>2. IsFiniteSet(StaticClasses)
    BY <2>1, FS_Subset, RegistryAssumption
  <2>3. QED
    BY <2>2, FS_CardinalityType
<1>2. PICK height \in [StaticClasses -> 0..N] :
          \A d \in StaticClasses : Super[d] # NULL => height[Super[d]] < height[d]
    BY <1>1, RegistryAssumption
<1>3. NULL \notin StaticClasses /\ Super \in [StaticClasses -> StaticClasses \cup {NULL}]
    BY NodesAre, RegistryAssumption DEF Classes
<1>4. Descends(StaticClasses, Super, N, height)
    BY <1>1, <1>2, <1>3 DEF Descends
<1> DEFINE Stop == {d \in StaticClasses : Super[d] = NULL}
           base == [d \in StaticClasses |-> d]
           step == [d \in StaticClasses |-> base]
<1>5. Recursion(StaticClasses, Super, N, height, StaticClasses, Stop, base, step)
    BY <1>3, <1>4 DEF Recursion
<1>6. PICK g \in [StaticClasses -> StaticClasses] : \A d \in StaticClasses :
          g[d] = IF d \in Stop THEN base[d] ELSE step[d][g[Super[d]]]
  <2> HIDE DEF Stop, base, step
  <2>1. QED
    BY <1>5, HierarchyRecursion
<1>7. \A d \in StaticClasses : g[d] = IF Super[d] = NULL THEN d ELSE g[Super[d]]
    BY <1>3, <1>6
<1> DEFINE up[d \in StaticClasses] == IF Super[d] = NULL THEN d ELSE up[Super[d]]
<1>8. g = [d \in StaticClasses |-> IF Super[d] = NULL THEN d ELSE g[Super[d]]]
    BY <1>7
<1>9. up = [d \in StaticClasses |-> IF Super[d] = NULL THEN d ELSE up[Super[d]]]
    BY <1>8
<1>10. RootOf(c) = up[c]
    BY DEF RootOf
<1> HIDE DEF up
<1> DEFINE G == {d \in StaticClasses : up[d] \in StaticClasses}
<1>11. \A d \in StaticClasses : (Super[d] \in StaticClasses => Super[d] \in G) => d \in G
    BY <1>3, <1>9
<1>12. G = StaticClasses
  <2>1. G \in SUBSET StaticClasses
    OBVIOUS
  <2> HIDE DEF G
  <2>2. QED
    BY <1>4, <1>11, <2>1, HierarchyInduction
<1>13. QED
    BY <1>10, <1>12

-----------------------------------------------------------------------------
(* The initial states.                                                     *)

LEMMA InitType ==
    ASSUME Init
    PROVE  TypeOK
<1> USE DEF Init
<1>1. flags \in [Nodes -> SUBSET {RO_META, RO_FROM_BUNDLE, RW_REALIZED, RW_CONSTRUCTING,
                                  RW_CONSTRUCTED}]
    OBVIOUS
<1>2. superclass \in [Nodes -> Nodes \cup {NULL}]
  <2>1. ASSUME NEW n \in Nodes, n[1] \notin Addresses
        PROVE  Super[n[1]] = NULL \/ <<Super[n[1]], n[2]>> \in Nodes
    <3>1. n[1] \in StaticClasses /\ n[2] \in {"class", "meta"}
      BY <2>1 DEF Nodes, Classes
    <3>2. Super[n[1]] \in StaticClasses \cup {NULL}
      BY <3>1, RegistryAssumption
    <3>3. QED
      BY <3>1, <3>2 DEF Nodes, Classes
  <2>2. \A n \in Nodes : Class(n[1]) \in Nodes
    BY NodesAre
  <2>3. QED
    BY <2>1, <2>2
<1>3. isa \in [Nodes -> Nodes \cup {NULL}]
  <2>1. \A n \in Nodes : n[1] \notin Addresses => n[1] \in StaticClasses
    BY DEF Nodes, Classes
  <2>2. \A n \in Nodes : n[1] \notin Addresses => Meta(RootOf(n[1])) \in Nodes /\ Meta(n[1]) \in Nodes
    BY <2>1, RootIs, NodesAre DEF Classes
  <2>3. QED
    BY <2>2
<1>4. name \in [Classes -> DOMAIN Hash \cup {NULL}]
  <2>1. \A c \in Classes : c \notin Addresses => Name[c] \in DOMAIN Hash
    BY RegistryAssumption DEF Classes
  <2>2. QED
    BY <2>1
<1>5. \A S : <<>> \in Seq(S)
    OBVIOUS
<1>6. /\ todo \in Seq(Task) /\ op \in [Threads -> Seq(Step)]
      /\ methods \in [Nodes -> Seq(DOMAIN ClassOf \cup {"base"})]
      /\ unattached \in [Nodes -> Seq(DOMAIN ClassOf)]
      /\ arrived \in [Nodes -> Seq(DOMAIN ClassOf)]
  <2> HIDE DEF Task, Step, Nodes
  <2>1. QED
    BY <1>5
<1>7. QED
    BY <1>1, <1>2, <1>3, <1>4, <1>6 DEF TypeOK

LEMMA InitTree ==
    ASSUME Init
    PROVE  PairOK /\ TreeOK
<1> USE NodesAre DEF Init
<1>1. PairOK
  <2> SUFFICES ASSUME NEW c \in Addresses
               PROVE  flags[Class(c)] = {} /\ flags[Meta(c)] = {}
    BY DEF PairOK
  <2>1. c \notin StaticClasses /\ c \in Classes
    BY RegistryAssumption DEF Classes
  <2>2. QED
    BY <2>1
<1>2. \A n \in Nodes : superclass[n] =
           IF n[1] \in Addresses THEN NULL
           ELSE IF Super[n[1]] # NULL THEN <<Super[n[1]], n[2]>>
           ELSE IF IsMeta(n) THEN Class(n[1]) ELSE NULL
    OBVIOUS
<1>3. \A n \in Nodes : isa[n] = IF n[1] \in Addresses THEN NULL
                                ELSE IF IsMeta(n) THEN Meta(RootOf(n[1])) ELSE Meta(n[1])
    OBVIOUS
<1> USE DEF Init
<1>4. ASSUME NEW c \in StaticClasses
      PROVE  /\ isa[Class(c)] = Meta(c)
             /\ isa[Meta(c)] # NULL /\ isa[Meta(c)][1] \in StaticClasses
             /\ \/ superclass[Class(c)] = NULL /\ superclass[Meta(c)] = Class(c)
                \/ \E d \in StaticClasses : superclass[Class(c)] = Class(d)
                                         /\ superclass[Meta(c)] = Meta(d)
  <2>1. c \notin Addresses /\ c \in Classes
    BY RegistryAssumption DEF Classes
  <2>2. isa[Class(c)] = Meta(c) /\ isa[Meta(c)] = Meta(RootOf(c))
    BY <1>3, <2>1
  <2>3. isa[Meta(c)] # NULL /\ isa[Meta(c)][1] \in StaticClasses
    <3>1. Meta(RootOf(c)) \in Nodes /\ Meta(RootOf(c))[1] \in StaticClasses
      BY RootIs DEF Classes
    <3>2. QED
      BY <2>2, <3>1
  <2>4. /\ superclass[Class(c)] = IF Super[c] # NULL THEN Class(Super[c]) ELSE NULL
        /\ superclass[Meta(c)] = IF Super[c] # NULL THEN Meta(Super[c]) ELSE Class(c)
    BY <1>2, <2>1 DEF Class, Meta, IsMeta
  <2>5. Super[c] \in StaticClasses \cup {NULL}
    BY RegistryAssumption
  <2>6. QED
    BY <2>2, <2>3, <2>4, <2>5
<1>5. ASSUME NEW c \in Classes, c \notin StaticClasses
      PROVE  ~ Live(c) /\ superclass[Class(c)] = NULL /\ superclass[Meta(c)] = NULL
  <2>1. c \in Addresses
    BY <1>5 DEF Classes
  <2>2. superclass[Class(c)] = NULL /\ superclass[Meta(c)] = NULL
    BY <1>2, <2>1
  <2>3. QED
    BY <1>1, <1>5, <2>1, <2>2 DEF Live, PairOK, isRealized
<1>6. \A c \in StaticClasses : Live(c) /\ c \in Classes
    BY DEF Live, Classes
<1>7. TreeOK
  <2> HIDE NodesAre DEF Init
  <2>1. ASSUME NEW c \in StaticClasses
        PROVE  \/ superclass[Class(c)] = NULL /\ superclass[Meta(c)] = Class(c)
               \/ \E d \in Classes : /\ Live(d)
                                     /\ superclass[Class(c)] = Class(d)
                                     /\ superclass[Meta(c)] = Meta(d)
    <3>1. CASE superclass[Class(c)] = NULL /\ superclass[Meta(c)] = Class(c)
      BY <3>1
    <3>2. CASE \E d \in StaticClasses : superclass[Class(c)] = Class(d)
                                       /\ superclass[Meta(c)] = Meta(d)
      <4>1. PICK d \in StaticClasses : superclass[Class(c)] = Class(d)
                                     /\ superclass[Meta(c)] = Meta(d)
        BY <3>2
      <4>2. d \in Classes /\ Live(d)
        BY <1>6
      <4>3. QED
        BY <4>1, <4>2
    <3>3. QED
      BY <1>4, <3>1, <3>2
  <2>2. ASSUME NEW c \in Classes
        PROVE  IF Live(c)
               THEN /\ isa[Class(c)] = Meta(c)
                    /\ \/ superclass[Class(c)] = NULL /\ superclass[Meta(c)] = Class(c)
                       \/ \E d \in Classes : /\ Live(d)
                                             /\ superclass[Class(c)] = Class(d)
                                             /\ superclass[Meta(c)] = Meta(d)
               ELSE superclass[Class(c)] = NULL /\ superclass[Meta(c)] = NULL
    <3>1. CASE c \in StaticClasses
      BY <1>4, <1>6, <2>1, <3>1
    <3>2. CASE c \notin StaticClasses
      BY <1>5, <3>2
    <3>3. QED
      BY <3>1, <3>2
  <2>3. \A c \in StaticClasses : isa[Meta(c)] # NULL /\ isa[Meta(c)][1] \in StaticClasses
    BY <1>4
  <2>4. QED
    BY <2>2, <2>3 DEF TreeOK
<1>8. QED
    BY <1>1, <1>7

LEMMA InitIsOK ==
    ASSUME Init
    PROVE  IInv
<1>1. TypeOK /\ PairOK /\ TreeOK
    BY InitType, InitTree
<1>2. \A n \in Nodes : ~ isRealized(n)
  <2>1. \A n \in Nodes : flags[n] = {RO_META} \/ flags[n] = {}
    BY DEF Init
  <2>2. QED
    BY <2>1 DEF isRealized, RO_META, RW_REALIZED
<1>3. TodoOK
    BY DEF Init, TodoOK
<1>4. UseOK
    BY NodesAre DEF Init, UseOK
<1>5. NameOK
  <2>1. /\ TableOK(namedClasses) /\ \A x : Found(namedClasses, x) = NULL
    BY EmptyIsOK, RegistryAssumption DEF Init, NXCreateMapTable
  <2>2. \A c \in Classes : Live(c) => c \in StaticClasses
    BY <1>1, <1>2, NodesAre DEF PairOK, Live, Classes
  <2>3. \A c \in StaticClasses : name[c] \in DOMAIN Hash
    BY RegistryAssumption DEF Init, Classes
  <2>4. \A x \in DOMAIN Hash : named[x] = NULL
    BY DEF Init
  <2>5. QED
    BY <2>1, <2>2, <2>3, <2>4 DEF NameOK
<1>6. UpOK
    BY <1>2, NodesAre DEF Init, UpOK
<1>7. CategoryOK
    BY <1>2, NodesAre DEF Init, CategoryOK, Linked
<1>8. LinkOK
  <2>1. PICK list : list = [n \in Nodes |-> <<>>]
    OBVIOUS
  <2>2. \A n \in Nodes : list[n] = <<>> /\ DOMAIN list[n] = {}
    BY <2>1
  <2>3. list \in [Nodes -> Seq(Nodes)]
    <3>1. <<>> \in Seq(Nodes)
      OBVIOUS
    <3>2. QED
      BY <2>1, <3>1
  <2>4. \A n \in Nodes : firstSubclass[n] = NULL
    BY DEF Init
  <2>5. firstSubclass \in [Nodes -> Nodes \cup {NULL}] /\ nextSibling \in [Nodes -> Nodes \cup {NULL}]
    BY <1>1 DEF TypeOK
  <2>6. Lists(list, Links)
    BY <2>2, <2>3, <2>4, <2>5 DEF Lists, Links
  <2>7. \A n \in Nodes : Range(list[n]) = {} /\ {m \in Nodes : Linked(m) /\ superclass[m] = n} = {}
    BY <1>2, <2>2 DEF Range, Linked
  <2>8. QED
    BY <2>6, <2>7 DEF LinkOK, SubclassesAre
<1>9. FlushOK
    BY DEF Init, FlushOK
<1>10. QED
    BY <1>1, <1>3, <1>4, <1>5, <1>6, <1>7, <1>8, <1>9 DEF IInv

-----------------------------------------------------------------------------
(* Lemmas: walks, and what is above a class.                               *)

\* A walk begins at first and goes on by next.
LEMMA WalkIs ==
    ASSUME NEW first \in Nodes \cup {NULL}, NEW next \in [Nodes -> Nodes \cup {NULL}]
    PROVE  /\ Walk(first, next) \in [0..Cardinality(Nodes) -> Nodes \cup {NULL}]
           /\ Walk(first, next)[0] = first
           /\ \A d \in 0..Cardinality(Nodes) - 1 :
                 Walk(first, next)[d + 1] = IF Walk(first, next)[d] = NULL THEN NULL
                                            ELSE next[Walk(first, next)[d]]
<1>1. PICK N \in Nat : N = Cardinality(Nodes)
    BY NodesAre
<1>2. PICK V : V = Nodes \cup {NULL}
    OBVIOUS
<1>3. PICK step : step = [d \in 1..N |-> [v \in V |-> IF v = NULL THEN NULL ELSE next[v]]]
    OBVIOUS
<1>4. step \in [1..N -> [V -> V]]
    BY <1>2, <1>3
<1>5. PICK g \in [0..N -> V] : \A d \in 0..N : g[d] = IF d = 0 THEN first ELSE step[d][g[d - 1]]
  <2>1. Iteration(N, V, first, step)
    BY <1>2, <1>4 DEF Iteration
  <2>2. QED
    BY <2>1, PrefixRecursion
<1>6. \A d \in 0..N : g[d] = IF d = 0 THEN first
                             ELSE LET n == g[d - 1] IN IF n = NULL THEN NULL ELSE next[n]
  <2> SUFFICES ASSUME NEW d \in 0..N, d # 0
               PROVE  g[d] = IF g[d - 1] = NULL THEN NULL ELSE next[g[d - 1]]
    BY <1>5
  <2>1. d \in 1..N /\ d - 1 \in 0..N
    OBVIOUS
  <2>2. g[d] = step[d][g[d - 1]] /\ g[d - 1] \in V
    BY <1>5, <2>1
  <2>3. QED
    BY <1>3, <2>1, <2>2
<1> DEFINE walk[d \in 0..Cardinality(Nodes)] ==
               IF d = 0 THEN first
               ELSE LET n == walk[d - 1] IN IF n = NULL THEN NULL ELSE next[n]
<1>7. walk = [d \in 0..N |-> IF d = 0 THEN first
                             ELSE LET n == walk[d - 1] IN IF n = NULL THEN NULL ELSE next[n]]
  <2>1. g = [d \in 0..N |-> IF d = 0 THEN first
                            ELSE LET n == g[d - 1] IN IF n = NULL THEN NULL ELSE next[n]]
    BY <1>6
  <2>2. QED
    BY <1>1, <2>1
<1>8. Walk(first, next) = walk
    BY DEF Walk
<1> HIDE DEF walk
<1>9. walk[0] = first
    BY <1>7
<1>10. \A d \in 0..N - 1 : walk[d + 1] = IF walk[d] = NULL THEN NULL ELSE next[walk[d]]
  <2> TAKE d \in 0..N - 1
  <2>1. d + 1 \in 0..N /\ d + 1 # 0 /\ (d + 1) - 1 = d
    OBVIOUS
  <2>2. QED
    BY <1>7, <2>1
<1>11. \A d \in 0..N : walk[d] \in V
  <2> DEFINE G == {d \in 0..N : walk[d] \in V}
  <2>1. 0 \in G
    BY <1>2, <1>9
  <2>2. ASSUME NEW d \in 0..N, d \in G, d < N
        PROVE  d + 1 \in G
    <3>1. d \in 0..N - 1 /\ d + 1 \in 0..N
      BY <2>2
    <3>2. walk[d + 1] = IF walk[d] = NULL THEN NULL ELSE next[walk[d]]
      BY <1>10, <3>1
    <3>3. QED
      BY <1>2, <2>2, <3>1, <3>2
  <2>3. G \in SUBSET (0..N)
    OBVIOUS
  <2> HIDE DEF G
  <2>4. G = 0..N
    BY <2>1, <2>2, <2>3, PrefixInduction
  <2>5. QED
    BY <2>4 DEF G
<1>12. walk \in [0..N -> V]
    BY <1>7, <1>11
<1>13. QED
    BY <1>1, <1>2, <1>8, <1>9, <1>10, <1>12

\* The classes above one are the least set that has the class and the
\* superclass of each class in it: the walk is long enough to meet them all.
LEMMA AboveIs ==
    ASSUME NEW sup \in [Nodes -> Nodes \cup {NULL}], NEW n \in Nodes
    PROVE  /\ Above(sup, n) \subseteq Nodes /\ n \in Above(sup, n)
           /\ \A a \in Above(sup, n) : sup[a] # NULL => sup[a] \in Above(sup, n)
           /\ \A S : n \in S /\ (\A a \in S \cap Above(sup, n) : sup[a] # NULL => sup[a] \in S)
                        => Above(sup, n) \subseteq S
<1>1. PICK N \in Nat : N = Cardinality(Nodes)
    BY NodesAre
<1>2. PICK walk \in [0..N -> Nodes \cup {NULL}] : walk = Walk(n, sup)
    BY <1>1, WalkIs
<1>3. /\ walk[0] = n
      /\ \A d \in 0..N - 1 : walk[d + 1] = IF walk[d] = NULL THEN NULL ELSE sup[walk[d]]
    BY <1>1, <1>2, WalkIs
<1>4. Above(sup, n) = {walk[d] : d \in 0..N} \ {NULL}
    BY <1>2 DEF Above, Range
<1>5. NULL \notin Nodes
    BY NodesAre
<1>6. Above(sup, n) \subseteq Nodes /\ n \in Above(sup, n)
    BY <1>3, <1>4, <1>5
<1>7. ASSUME NEW a \in Above(sup, n), sup[a] # NULL
      PROVE  sup[a] \in Above(sup, n)
  <2> DEFINE S == {d \in 0..N : walk[d] = a}
  <2>1. S # {} /\ S \in SUBSET Nat
    BY <1>4
  <2>2. PICK d \in S : \A e \in S : d <= e
    BY <2>1, LeastNumber
  <2>3. CASE d < N
    <3>1. d \in 0..N - 1 /\ d + 1 \in 0..N
      BY <2>3
    <3>2. walk[d + 1] = sup[a]
      BY <1>3, <1>5, <1>6, <3>1
    <3>3. QED
      BY <1>4, <1>7, <3>1, <3>2
  <2>4. CASE d = N
    <3>1. ASSUME NEW e \in 0..N
          PROVE  walk[e] # NULL
      <4> DEFINE G == {f \in 0..N : walk[f] = NULL \/ f < e}
      <4>1. CASE walk[e] = NULL
        <5> DEFINE H == {f \in 0..N : f >= e => walk[f] = NULL}
        <5>1. 0 \in H
          BY <4>1
        <5>2. ASSUME NEW f \in 0..N, f \in H, f < N
              PROVE  f + 1 \in H
          <6>1. f \in 0..N - 1 /\ f + 1 \in 0..N
            BY <5>2
          <6>2. f + 1 >= e => f >= e \/ f + 1 = e
            BY <3>1, <6>1
          <6>3. walk[f + 1] = IF walk[f] = NULL THEN NULL ELSE sup[walk[f]]
            BY <1>3, <6>1
          <6>4. QED
            BY <4>1, <5>2, <6>1, <6>2, <6>3
        <5>3. H \in SUBSET (0..N)
          OBVIOUS
        <5> HIDE DEF H
        <5>4. H = 0..N
          BY <5>1, <5>2, <5>3, PrefixInduction
        <5>5. N \in H /\ N >= e
          BY <5>4
        <5>6. QED
          BY <1>5, <1>6, <2>2, <2>4, <5>5 DEF H
      <4>2. QED
        BY <4>1
    <3>2. walk \in [0..N -> Nodes]
      BY <3>1
    <3>3. IsFiniteSet(0..N) /\ Cardinality(0..N) = N + 1
      <4>1. 0 \in Int /\ N \in Int
        OBVIOUS
      <4>2. IsFiniteSet(0..N) /\ Cardinality(0..N) = IF 0 > N THEN 0 ELSE N - 0 + 1
        BY <4>1, FS_Interval
      <4>3. QED
        BY <4>2
    <3>4. \E x, y \in 0..N : x # y /\ walk[x] = walk[y]
      <4>1. Cardinality(Nodes) < Cardinality(0..N)
        BY <1>1, <3>3
      <4>2. QED
        BY <3>2, <3>3, <4>1, NodesAre, FS_PigeonHole
    <3>5. PICK i \in 0..N, j \in 0..N : i < j /\ walk[i] = walk[j]
      BY <3>4
    <3> DEFINE G == {f \in 0..N - j : walk[i + f] = walk[j + f]}
    <3>6. 0 \in G
      BY <3>5
    <3>7. ASSUME NEW f \in 0..N - j, f \in G, f < N - j
          PROVE  f + 1 \in G
      <4>1. /\ i + f \in 0..N - 1 /\ j + f \in 0..N - 1 /\ f + 1 \in 0..N - j
            /\ i + (f + 1) = (i + f) + 1 /\ j + (f + 1) = (j + f) + 1
        BY <3>5, <3>7
      <4>2. QED
        BY <1>3, <3>7, <4>1
    <3>8. G \in SUBSET (0..N - j)
      OBVIOUS
    <3> HIDE DEF G
    <3>9. N - j \in Nat
      BY <3>5
    <3>10. G = 0..N - j
      BY <3>6, <3>7, <3>8, <3>9, PrefixInduction
    <3>11. N - j \in G /\ j + (N - j) = N /\ i + (N - j) \in 0..N /\ i + (N - j) < N
      BY <3>5, <3>9, <3>10
    <3>12. walk[i + (N - j)] = walk[N]
      BY <3>11 DEF G
    <3>13. QED
      BY <2>2, <2>4, <3>11, <3>12
  <2>5. QED
    BY <2>2, <2>3, <2>4
<1>8. ASSUME NEW S, n \in S, \A a \in S \cap Above(sup, n) : sup[a] # NULL => sup[a] \in S
      PROVE  Above(sup, n) \subseteq S
  <2> DEFINE G == {d \in 0..N : walk[d] = NULL \/ walk[d] \in S}
  <2>1. 0 \in G
    BY <1>3, <1>8
  <2>2. ASSUME NEW d \in 0..N, d \in G, d < N
        PROVE  d + 1 \in G
    <3>1. d \in 0..N - 1 /\ d + 1 \in 0..N
      BY <2>2
    <3>2. walk[d + 1] = IF walk[d] = NULL THEN NULL ELSE sup[walk[d]]
      BY <1>3, <3>1
    <3>3. walk[d] # NULL => walk[d] \in S \cap Above(sup, n)
      BY <1>4, <2>2
    <3>4. QED
      BY <1>8, <3>1, <3>2, <3>3
  <2>3. G \in SUBSET (0..N)
    OBVIOUS
  <2> HIDE DEF G
  <2>4. G = 0..N
    BY <2>1, <2>2, <2>3, PrefixInduction
  <2>5. QED
    BY <1>4, <2>4 DEF G
<1>9. QED
    BY <1>6, <1>7, <1>8

\* What is above a class that is above another is above that one too.
LEMMA AboveSteps ==
    ASSUME NEW sup \in [Nodes -> Nodes \cup {NULL}], NEW n \in Nodes, NEW a \in Above(sup, n)
    PROVE  /\ a \in Nodes /\ Above(sup, a) \subseteq Above(sup, n)
           /\ a # n => \E b \in Above(sup, n) : sup[b] = a
           /\ a # n => sup[n] # NULL /\ a \in Above(sup, sup[n])
<1>1. a \in Nodes
    BY AboveIs
<1>2. Above(sup, a) \subseteq Above(sup, n)
    BY <1>1, AboveIs
<1>3. Above(sup, n) \subseteq {n} \cup {sup[b] : b \in Above(sup, n)}
  <2>1. PICK S : S = {n} \cup {sup[b] : b \in Above(sup, n)}
    OBVIOUS
  <2>2. n \in S /\ \A b \in S \cap Above(sup, n) : sup[b] # NULL => sup[b] \in S
    BY <2>1
  <2>3. QED
    BY <2>1, <2>2, AboveIs
<1>4. sup[n] = NULL => Above(sup, n) \subseteq {n}
  <2>1. CASE sup[n] = NULL
    <3>1. PICK S : S = {n}
      OBVIOUS
    <3>2. n \in S /\ \A b \in S \cap Above(sup, n) : sup[b] # NULL => sup[b] \in S
      BY <2>1, <3>1
    <3>3. QED
      BY <3>1, <3>2, AboveIs
  <2>2. QED
    BY <2>1
<1>5. sup[n] # NULL => Above(sup, n) \subseteq {n} \cup Above(sup, sup[n])
  <2>1. CASE sup[n] # NULL
    <3>1. sup[n] \in Nodes
      BY <2>1
    <3>2. /\ sup[n] \in Above(sup, sup[n])
          /\ \A b \in Above(sup, sup[n]) : sup[b] # NULL => sup[b] \in Above(sup, sup[n])
      BY <3>1, AboveIs
    <3>3. PICK S : S = {n} \cup Above(sup, sup[n])
      OBVIOUS
    <3>4. n \in S /\ \A b \in S \cap Above(sup, n) : sup[b] # NULL => sup[b] \in S
      BY <3>2, <3>3
    <3>5. QED
      BY <3>3, <3>4, AboveIs
  <2>2. QED
    BY <2>1
<1>6. QED
    BY <1>1, <1>2, <1>3, <1>4, <1>5

-----------------------------------------------------------------------------
(* Lemmas: lists of subclasses.                                            *)

\* What a list of subclasses and its links say of each other.
LEMMA ListIs ==
    ASSUME NEW list, NEW links, Lists(list, links), NEW n \in Nodes
    PROVE  /\ list[n] \in Seq(Nodes) /\ Len(list[n]) \in Nat
           /\ DOMAIN list[n] = 1..Len(list[n])
           /\ links.first[n] = IF Len(list[n]) = 0 THEN NULL ELSE list[n][1]
           /\ \A k \in 1..Len(list[n]) :
                 /\ list[n][k] \in Nodes
                 /\ links.next[list[n][k]] = IF k = Len(list[n]) THEN NULL ELSE list[n][k + 1]
           /\ \A j, k \in 1..Len(list[n]) : list[n][j] = list[n][k] => j = k
<1>1. PICK s \in Seq(Nodes) : s = list[n]
    BY DEF Lists
<1>2. PICK L \in Nat : L = Len(s)
    BY <1>1
<1>3. DOMAIN s = 1..L /\ (s = <<>> <=> L = 0) /\ \A k \in 1..L : s[k] \in Nodes
    BY <1>1, <1>2
<1>4. links.first[n] = IF s = <<>> THEN NULL ELSE s[1]
    BY <1>1 DEF Lists
<1>5. \A k \in DOMAIN s : links.next[s[k]] = IF k = Len(s) THEN NULL ELSE s[k + 1]
    BY <1>1 DEF Lists
<1>6. \A j, k \in DOMAIN s : s[j] = s[k] => j = k
    BY <1>1 DEF Lists
<1>7. QED
    BY <1>1, <1>2, <1>3, <1>4, <1>5, <1>6

\* The loops over a list come to its members, in order, and end.
LEMMA ListIsWalked ==
    ASSUME NEW list, NEW links, Lists(list, links), NEW n \in Nodes
    PROVE  /\ Len(list[n]) \in 0..Cardinality(Nodes)
           /\ SubclassList(links, n)[Cardinality(Nodes)] = NULL
           /\ Range(SubclassList(links, n)) \ {NULL} = Range(list[n])
<1>1. PICK N \in Nat : N = Cardinality(Nodes)
    BY NodesAre
<1>2. PICK s \in Seq(Nodes) : s = list[n]
    BY DEF Lists
<1>3. PICK L \in Nat : L = Len(s)
    BY <1>2
<1>4. PICK first \in Nodes \cup {NULL} : first = links.first[n]
    BY DEF Lists
<1>5. PICK next \in [Nodes -> Nodes \cup {NULL}] : next = links.next
    BY DEF Lists
<1>6. /\ first = IF L = 0 THEN NULL ELSE s[1]
      /\ \A k \in 1..L : s[k] \in Nodes /\ next[s[k]] = IF k = L THEN NULL ELSE s[k + 1]
      /\ \A j, k \in 1..L : s[j] = s[k] => j = k
    BY <1>2, <1>3, <1>4, <1>5, ListIs
<1>7. L \in 0..N
  <2>1. CASE L > N
    <3>1. IsFiniteSet(1..L) /\ Cardinality(1..L) = L
      <4>1. 1 \in Int /\ L \in Int
        OBVIOUS
      <4>2. IsFiniteSet(1..L) /\ Cardinality(1..L) = IF 1 > L THEN 0 ELSE L - 1 + 1
        BY <4>1, FS_Interval
      <4>3. QED
        BY <2>1, <4>2
    <3>2. PICK f \in [1..L -> Nodes] : \A k \in 1..L : f[k] = s[k]
      <4>1. [k \in 1..L |-> s[k]] \in [1..L -> Nodes]
        BY <1>6
      <4>2. QED
        BY <4>1
    <3>3. \E x, y \in 1..L : x # y /\ f[x] = f[y]
      <4>1. PICK S : S = 1..L
        OBVIOUS
      <4>2. IsFiniteSet(S) /\ Cardinality(Nodes) < Cardinality(S) /\ f \in [S -> Nodes]
        BY <1>1, <2>1, <3>1, <3>2, <4>1
      <4>3. \E x, y \in S : x # y /\ f[x] = f[y]
        BY <4>2, NodesAre, FS_PigeonHole
      <4>4. QED
        BY <4>1, <4>3
    <3>4. QED
      BY <1>6, <3>2, <3>3
  <2>2. QED
    BY <2>1
<1>8. PICK walk \in [0..N -> Nodes \cup {NULL}] : walk = SubclassList(links, n)
    BY <1>1, <1>4, <1>5, WalkIs DEF SubclassList
<1>9. /\ walk[0] = first
      /\ \A d \in 0..N - 1 : walk[d + 1] = IF walk[d] = NULL THEN NULL ELSE next[walk[d]]
  <2>1. walk = Walk(first, next)
    BY <1>4, <1>5, <1>8 DEF SubclassList
  <2>2. QED
    BY <1>1, <2>1, WalkIs
<1> DEFINE G == {d \in 0..N : walk[d] = IF d < L THEN s[d + 1] ELSE NULL}
<1>10. 0 \in G
    BY <1>6, <1>9
<1>11. ASSUME NEW d \in 0..N, d \in G, d < N
       PROVE  d + 1 \in G
  <2>1. d \in 0..N - 1 /\ d + 1 \in 0..N
    BY <1>11
  <2>2. walk[d + 1] = IF walk[d] = NULL THEN NULL ELSE next[walk[d]]
    BY <1>9, <2>1
  <2>3. CASE d < L
    <3>1. d + 1 \in 1..L /\ walk[d] = s[d + 1]
      BY <1>11, <2>3
    <3>2. walk[d] # NULL /\ next[walk[d]] = IF d + 1 = L THEN NULL ELSE s[(d + 1) + 1]
      <4>1. PICK k \in 1..L : k = d + 1
        BY <3>1
      <4>2. s[k] \in Nodes /\ next[s[k]] = IF k = L THEN NULL ELSE s[k + 1]
        BY <1>6
      <4>3. QED
        BY <3>1, <4>1, <4>2, NodesAre
    <3>3. QED
      BY <2>1, <2>2, <3>1, <3>2
  <2>4. CASE ~ (d < L)
    BY <1>11, <2>1, <2>2, <2>4
  <2>5. QED
    BY <2>3, <2>4
<1>12. \A d \in 0..N : walk[d] = IF d < L THEN s[d + 1] ELSE NULL
  <2>1. G \in SUBSET (0..N)
    OBVIOUS
  <2> HIDE DEF G
  <2>2. G = 0..N
    BY <1>10, <1>11, <2>1, PrefixInduction
  <2>3. QED
    BY <2>2 DEF G
<1>13. walk[N] = NULL
    BY <1>7, <1>12
<1>14. Range(walk) \ {NULL} = Range(s)
  <2>1. Range(walk) = {walk[d] : d \in 0..N}
    BY DEF Range
  <2>2. Range(s) = {s[k] : k \in 1..L}
    BY <1>2, <1>3 DEF Range
  <2>3. ASSUME NEW d \in 0..N, walk[d] # NULL
        PROVE  walk[d] \in Range(s)
    <3>1. d + 1 \in 1..L /\ walk[d] = s[d + 1]
      BY <1>7, <1>12, <2>3
    <3>2. QED
      BY <2>2, <3>1
  <2>4. ASSUME NEW k \in 1..L
        PROVE  s[k] \in Range(walk) \ {NULL}
    <3>1. k - 1 \in 0..N /\ k - 1 < L /\ (k - 1) + 1 = k
      BY <1>7
    <3>2. walk[k - 1] = s[k]
      BY <1>12, <3>1
    <3>3. QED
      BY <1>6, <2>1, <3>1, <3>2, NodesAre
  <2>5. QED
    BY <2>1, <2>2, <2>3, <2>4
<1>15. QED
    BY <1>1, <1>2, <1>3, <1>7, <1>8, <1>13, <1>14

\* new is list with subcls in the list of supercls, and links are those of new.
OneMore(list, supercls, subcls, new, links) ==
    /\ Lists(new, links)
    /\ links = [first |-> links.first, next |-> links.next]
    /\ \A n \in Nodes : Range(new[n]) =
          IF n = supercls THEN Range(list[n]) \cup {subcls} ELSE Range(list[n])

\* The same without it.
OneLess(list, supercls, subcls, new, links) ==
    /\ Lists(new, links)
    /\ links = [first |-> links.first, next |-> links.next]
    /\ \A n \in Nodes : Range(new[n]) =
          IF n = supercls THEN Range(list[n]) \ {subcls} ELSE Range(list[n])

\* addSubclass adds one class to one list.
LEMMA ListAdded ==
    ASSUME NEW list, NEW links, Lists(list, links), NEW supercls \in Nodes, NEW subcls \in Nodes,
           \A n \in Nodes : subcls \notin Range(list[n]),
           NEW added, added = addSubclass(links, supercls, subcls)
    PROVE  \E new : OneMore(list, supercls, subcls, new, added)
<1>1. PICK s \in Seq(Nodes) : s = list[supercls]
    BY DEF Lists
<1>2. PICK L \in Nat : L = Len(s)
    BY <1>1
<1>3. DOMAIN s = 1..L /\ \A k \in 1..L : s[k] \in Nodes
    BY <1>1, <1>2
<1>4. PICK u : u = [k \in 1..L + 1 |-> IF k = 1 THEN subcls ELSE s[k - 1]]
    OBVIOUS
<1>5. \A k \in 1..L + 1 : k = 1 \/ k - 1 \in 1..L
    OBVIOUS
<1>6. u \in Seq(Nodes) /\ Len(u) = L + 1 /\ DOMAIN u = 1..L + 1
  <2>1. u \in [1..L + 1 -> Nodes]
    BY <1>3, <1>4, <1>5
  <2>2. L + 1 \in Nat
    OBVIOUS
  <2>3. QED
    BY <2>1, <2>2
<1>7. PICK new : new = [list EXCEPT ![supercls] = u]
    OBVIOUS
<1>8. /\ new \in [Nodes -> Seq(Nodes)] /\ new[supercls] = u
      /\ \A n \in Nodes : n # supercls => new[n] = list[n]
    BY <1>6, <1>7 DEF Lists
<1>9. added = [first |-> added.first, next |-> added.next]
    BY NodesAre DEF addSubclass
<1>10. /\ added.first = [links.first EXCEPT ![supercls] = subcls]
       /\ added.next = [links.next EXCEPT ![subcls] = links.first[supercls]]
    BY NodesAre DEF addSubclass
<1>11. /\ links.first \in [Nodes -> Nodes \cup {NULL}]
       /\ links.next \in [Nodes -> Nodes \cup {NULL}]
       /\ links.first[supercls] = IF L = 0 THEN NULL ELSE s[1]
  <2>1. s = <<>> <=> L = 0
    BY <1>2
  <2>2. QED
    BY <1>1, <2>1 DEF Lists
<1>12. \A n \in Nodes : \A k \in DOMAIN list[n] : list[n][k] # subcls /\ list[n][k] \in Nodes
  <2> TAKE n \in Nodes
  <2>1. list[n] \in Seq(Nodes)
    BY DEF Lists
  <2>2. QED
    BY <2>1 DEF Range
<1>13. ASSUME NEW n \in Nodes
       PROVE  added.first[n] = IF new[n] = <<>> THEN NULL ELSE new[n][1]
  <2>1. CASE n = supercls
    <3>1. u # <<>> /\ u[1] = subcls
      BY <1>4, <1>6
    <3>2. QED
      BY <1>8, <1>10, <1>11, <2>1, <3>1
  <2>2. CASE n # supercls
    BY <1>8, <1>10, <1>11, <2>2 DEF Lists
  <2>3. QED
    BY <2>1, <2>2
<1>14. ASSUME NEW n \in Nodes, NEW k \in DOMAIN new[n]
       PROVE  added.next[new[n][k]] = IF k = Len(new[n]) THEN NULL ELSE new[n][k + 1]
  <2>1. CASE n # supercls
    <3>1. added.next[list[n][k]] = links.next[list[n][k]]
      BY <1>8, <1>10, <1>11, <1>12, <1>14, <2>1
    <3>2. new[n] = list[n] /\ k \in DOMAIN list[n]
      BY <1>8, <1>14, <2>1
    <3>3. links.next[list[n][k]] = IF k = Len(list[n]) THEN NULL ELSE list[n][k + 1]
      BY <3>2 DEF Lists
    <3>4. QED
      BY <3>1, <3>2, <3>3
  <2>2. CASE n = supercls /\ k = 1
    <3>1. added.next[u[k]] = links.first[supercls]
      BY <1>4, <1>6, <1>8, <1>10, <1>11, <1>14, <2>2
    <3>2. L # 0 => u[1 + 1] = s[1]
      <4>1. L # 0 => 1 + 1 \in 1..L + 1 /\ 1 + 1 # 1 /\ (1 + 1) - 1 = 1
        OBVIOUS
      <4>2. QED
        BY <1>4, <4>1
    <3>3. new[n] = u /\ Len(new[n]) = L + 1 /\ (k = L + 1 <=> L = 0)
      BY <1>6, <1>8, <2>2
    <3>4. added.next[u[k]] = IF L = 0 THEN NULL ELSE u[k + 1]
      BY <1>11, <2>2, <3>1, <3>2
    <3>5. QED
      BY <3>3, <3>4
  <2>3. CASE n = supercls /\ k # 1
    <3>1. k \in 1..L + 1 /\ k - 1 \in 1..L /\ u[k] = s[k - 1]
      <4>1. k \in 1..L + 1
        BY <1>6, <1>8, <1>14, <2>3
      <4>2. k - 1 \in 1..L
        BY <2>3, <4>1
      <4>3. QED
        BY <1>4, <2>3, <4>1, <4>2
    <3>2. s[k - 1] # subcls /\ s[k - 1] \in Nodes
      BY <1>1, <1>3, <1>12, <3>1
    <3>3. added.next[u[k]] = links.next[s[k - 1]]
      BY <1>10, <1>11, <3>1, <3>2
    <3>4. links.next[s[k - 1]] = IF k - 1 = L THEN NULL ELSE s[(k - 1) + 1]
      <4>1. PICK j \in 1..L : j = k - 1
        BY <3>1
      <4>2. links.next[s[j]] = IF j = L THEN NULL ELSE s[j + 1]
        BY <1>1, <1>2, ListIs
      <4>3. QED
        BY <4>1, <4>2
    <3>5. k # L + 1 => k + 1 \in 1..L + 1 /\ k + 1 # 1 /\ (k + 1) - 1 = k /\ (k - 1) + 1 = k
      BY <3>1
    <3>6. k # L + 1 => u[k + 1] = s[k]
      BY <1>4, <3>5
    <3>7. k - 1 = L <=> k = L + 1
      BY <3>1
    <3>8. QED
      BY <1>6, <1>8, <2>3, <3>3, <3>4, <3>5, <3>6, <3>7
  <2>4. QED
    BY <2>1, <2>2, <2>3
<1>15. ASSUME NEW m \in Nodes, NEW n \in Nodes, NEW j \in DOMAIN new[m], NEW k \in DOMAIN new[n],
              new[m][j] = new[n][k]
       PROVE  m = n /\ j = k
  <2>1. \A i \in 1..L : u[i + 1] = s[i]
    <3>1. \A i \in 1..L : i + 1 \in 1..L + 1 /\ i + 1 # 1 /\ (i + 1) - 1 = i
      OBVIOUS
    <3>2. QED
      BY <1>4, <3>1
  <2> DEFINE At(i, x, y) == \/ x # supercls /\ y = i
                            \/ x = supercls /\ y = i - 1
  <2>2. ASSUME NEW x \in Nodes, NEW i \in DOMAIN new[x], new[x][i] # subcls
        PROVE  \E y \in DOMAIN list[x] : At(i, x, y) /\ list[x][y] = new[x][i]
    <3>1. CASE x # supercls
      BY <1>8, <2>2, <3>1
    <3>2. CASE x = supercls
      <4>1. i \in 1..L + 1 /\ new[x] = u
        BY <1>6, <1>8, <2>2, <3>2
      <4>2. i # 1
        BY <1>4, <2>2, <4>1
      <4>3. i - 1 \in 1..L
        BY <4>1, <4>2
      <4>4. u[i] = s[i - 1]
        BY <1>4, <4>1, <4>2
      <4>5. QED
        BY <1>1, <1>3, <3>2, <4>1, <4>3, <4>4
    <3>3. QED
      BY <3>1, <3>2
  <2>3. ASSUME NEW x \in Nodes, NEW i \in DOMAIN new[x], new[x][i] = subcls
        PROVE  x = supercls /\ i = 1
    <3>1. x = supercls
      BY <1>8, <1>12, <2>3
    <3>2. i \in 1..L + 1 /\ u[i] = subcls
      BY <1>6, <1>8, <2>3, <3>1
    <3>3. i # 1 => i - 1 \in 1..L /\ u[i] = s[i - 1]
      BY <1>4, <3>2
    <3>4. QED
      BY <1>1, <1>3, <1>12, <3>1, <3>2, <3>3
  <2>4. CASE new[m][j] = subcls
    BY <1>15, <2>3, <2>4
  <2>5. CASE new[m][j] # subcls
    <3>1. PICK y \in DOMAIN list[m] : At(j, m, y) /\ list[m][y] = new[m][j]
      BY <2>2, <2>5
    <3>2. PICK z \in DOMAIN list[n] : At(k, n, z) /\ list[n][z] = new[n][k]
      BY <1>15, <2>2, <2>5
    <3>3. m = n /\ y = z
      BY <1>15, <3>1, <3>2 DEF Lists
    <3>4. m = supercls => j \in Int /\ k \in Int
      BY <1>6, <1>8, <3>3
    <3>5. QED
      BY <3>1, <3>2, <3>3, <3>4
  <2>6. QED
    BY <2>4, <2>5
<1>16. added.first \in [Nodes -> Nodes \cup {NULL}] /\ added.next \in [Nodes -> Nodes \cup {NULL}]
    BY <1>10, <1>11
<1>17. Lists(new, added)
    BY <1>8, <1>13, <1>14, <1>15, <1>16 DEF Lists
<1>18. Range(u) = Range(s) \cup {subcls}
  <2>1. Range(u) = {u[k] : k \in 1..L + 1} /\ Range(s) = {s[k] : k \in 1..L}
    BY <1>3, <1>6 DEF Range
  <2>2. ASSUME NEW k \in 1..L
        PROVE  \E j \in 1..L + 1 : u[j] = s[k]
    <3>1. k + 1 \in 1..L + 1 /\ k + 1 # 1 /\ (k + 1) - 1 = k
      OBVIOUS
    <3>2. u[k + 1] = s[k]
      BY <1>4, <3>1
    <3>3. QED
      BY <3>1, <3>2
  <2>3. 1 \in 1..L + 1 /\ u[1] = subcls
    BY <1>4
  <2>4. \A j \in 1..L + 1 : u[j] = subcls \/ \E k \in 1..L : u[j] = s[k]
    BY <1>4, <1>5
  <2>5. QED
    BY <2>1, <2>2, <2>3, <2>4
<1>19. \A n \in Nodes : Range(new[n]) =
           IF n = supercls THEN Range(list[n]) \cup {subcls} ELSE Range(list[n])
    BY <1>1, <1>8, <1>18
<1>20. QED
    BY <1>9, <1>17, <1>19 DEF OneMore

\* removeSubclass takes one class out of one list.
LEMMA ListRemoved ==
    ASSUME NEW list, NEW links, Lists(list, links), NEW supercls \in Nodes,
           NEW subcls \in Range(list[supercls]),
           links = [first |-> links.first, next |-> links.next],
           NEW removed, removed = removeSubclass(links, supercls, subcls)
    PROVE  \E new : OneLess(list, supercls, subcls, new, removed)
<1>1. PICK s \in Seq(Nodes) : s = list[supercls]
    BY DEF Lists
<1>2. PICK L \in Nat : L = Len(s)
    BY <1>1
<1>3. DOMAIN s = 1..L /\ \A k \in 1..L : s[k] \in Nodes
    BY <1>1, <1>2
<1>4. PICK p \in 1..L : s[p] = subcls
    BY <1>1, <1>3 DEF Range
<1>5. PICK next \in [Nodes -> Nodes \cup {NULL}] : next = links.next
    BY DEF Lists
<1>6. PICK first \in [Nodes -> Nodes \cup {NULL}] : first = links.first
    BY DEF Lists
<1>7. /\ first[supercls] = s[1]
      /\ \A k \in 1..L : next[s[k]] = IF k = L THEN NULL ELSE s[k + 1]
      /\ \A j, k \in 1..L : s[j] = s[k] => j = k
  <2>1. L # 0
    BY <1>4
  <2>2. QED
    BY <1>1, <1>2, <1>5, <1>6, <2>1, ListIs
<1>8. PICK u : u = [k \in 1..L - 1 |-> IF k < p THEN s[k] ELSE s[k + 1]]
    OBVIOUS
<1>9. \A k \in 1..L - 1 : k \in 1..L /\ k + 1 \in 1..L
    OBVIOUS
<1>10. u \in Seq(Nodes) /\ Len(u) = L - 1 /\ DOMAIN u = 1..L - 1
  <2>1. u \in [1..L - 1 -> Nodes]
    BY <1>3, <1>8, <1>9
  <2>2. L - 1 \in Nat
    BY <1>4
  <2>3. QED
    BY <2>1, <2>2
<1>11. PICK new : new = [list EXCEPT ![supercls] = u]
    OBVIOUS
<1>12. /\ new \in [Nodes -> Seq(Nodes)] /\ new[supercls] = u
       /\ \A n \in Nodes : n # supercls => new[n] = list[n]
    BY <1>10, <1>11 DEF Lists
<1>13. removed = removeSubclass(links, supercls, subcls)
    OBVIOUS
\* Which link skips the subclass.
<1>14. /\ removed = [first |-> removed.first, next |-> removed.next]
       /\ p = 1 => /\ removed.first = [first EXCEPT ![supercls] = next[subcls]]
                   /\ removed.next = next
       /\ p # 1 => /\ removed.first = first
                   /\ removed.next = [next EXCEPT ![s[p - 1]] = next[subcls]]
  <2>1. links = [first |-> first, next |-> next]
    BY <1>5, <1>6
  <2>2. CASE p = 1
    <3>1. links.first[supercls] = subcls
      BY <1>4, <1>6, <1>7, <2>2
    <3>2. removed = [links EXCEPT !.first[supercls] = links.next[subcls]]
      BY <1>13, <3>1 DEF removeSubclass
    <3>3. PICK g : g = [first EXCEPT ![supercls] = next[subcls]]
      OBVIOUS
    <3>4. removed = [first |-> g, next |-> next]
      BY <2>1, <3>2, <3>3
    <3>5. removed.first = g /\ removed.next = next
      BY <3>4
    <3>6. QED
      BY <2>2, <3>3, <3>4, <3>5
  <2>3. CASE p # 1
    <3>1. links.first[supercls] # subcls
      <4>1. 1 \in 1..L
        BY <1>4
      <4>2. QED
        BY <1>4, <1>6, <1>7, <2>3, <4>1
    <3>2. p - 1 \in 1..L /\ p - 1 # L /\ (p - 1) + 1 = p
      BY <2>3
    <3> DEFINE Before0(n) == n \in Range(SubclassList(links, supercls)) \ {NULL}
                             /\ links.next[n] = subcls
    <3>3. Range(SubclassList(links, supercls)) \ {NULL} = {s[k] : k \in 1..L}
      <4>1. Range(s) = {s[k] : k \in 1..L}
        BY <1>3 DEF Range
      <4>2. QED
        BY <1>1, <4>1, ListIsWalked
    <3>4. s[p - 1] \in Range(SubclassList(links, supercls)) \ {NULL} /\ links.next[s[p - 1]] = subcls
      BY <1>4, <1>5, <1>7, <3>2, <3>3
    <3>5. ASSUME NEW n \in Range(SubclassList(links, supercls)) \ {NULL}, links.next[n] = subcls
          PROVE  n = s[p - 1]
      <4>1. PICK k \in 1..L : n = s[k]
        BY <3>3
      <4>2. k # L
        BY <1>3, <1>4, <1>5, <1>7, <3>5, <4>1, NodesAre
      <4>3. k + 1 \in 1..L /\ s[k + 1] = s[p]
        BY <1>4, <1>5, <1>7, <3>5, <4>1, <4>2
      <4>4. k + 1 = p
        BY <1>4, <1>7, <4>3
      <4>5. k = p - 1
        BY <4>1, <4>4
      <4>6. QED
        BY <4>1, <4>5
    <3>6. PICK before : before = CHOOSE n \in Range(SubclassList(links, supercls)) \ {NULL} :
                                     links.next[n] = subcls
      OBVIOUS
    <3>7. before = s[p - 1]
      BY <3>4, <3>5, <3>6
    <3>8. removed = [links EXCEPT !.next[before] = links.next[subcls]]
      BY <1>13, <3>1, <3>6 DEF removeSubclass
    <3>9. QED
      BY <1>5, <2>1, <2>3, <3>7, <3>8
  <2>4. QED
    BY <2>2, <2>3
<1>15. subcls \in Nodes /\ next[subcls] = IF p = L THEN NULL ELSE s[p + 1]
    BY <1>3, <1>4, <1>7
<1>16. ASSUME NEW n \in Nodes
       PROVE  removed.first[n] = IF new[n] = <<>> THEN NULL ELSE new[n][1]
  <2>1. CASE n # supercls
    BY <1>6, <1>12, <1>14, <2>1 DEF Lists
  <2>2. CASE n = supercls
    <3>1. u = <<>> <=> L = 1
      <4>1. u = <<>> <=> Len(u) = 0
        BY <1>10
      <4>2. QED
        BY <1>10, <4>1
    <3>2. L # 1 => 1 \in 1..L - 1 /\ u[1] = IF 1 < p THEN s[1] ELSE s[1 + 1]
      BY <1>8
    <3>3. CASE p = 1
      BY <1>12, <1>14, <1>15, <2>2, <3>1, <3>2, <3>3
    <3>4. CASE p # 1
      <4>1. L # 1 /\ 1 < p
        BY <3>4
      <4>2. QED
        BY <1>7, <1>12, <1>14, <2>2, <3>1, <3>2, <3>4, <4>1
    <3>5. QED
      BY <3>3, <3>4
  <2>3. QED
    BY <2>1, <2>2
<1>17. ASSUME NEW n \in Nodes, NEW k \in DOMAIN new[n]
       PROVE  removed.next[new[n][k]] = IF k = Len(new[n]) THEN NULL ELSE new[n][k + 1]
  <2>1. CASE n # supercls
    <3>1. k \in DOMAIN list[n]
      BY <1>12, <1>17, <2>1
    <3>2. list[n][k] \in Nodes
      <4>1. list[n] \in Seq(Nodes)
        BY DEF Lists
      <4>2. QED
        BY <3>1, <4>1
    <3>3. p # 1 => list[n][k] # s[p - 1]
      <4>1. p # 1 => p - 1 \in DOMAIN list[supercls]
        BY <1>1, <1>3
      <4>2. QED
        BY <1>1, <2>1, <3>1, <4>1 DEF Lists
    <3>4. removed.next[list[n][k]] = next[list[n][k]]
      BY <1>14, <3>2, <3>3
    <3>5. QED
      BY <1>5, <1>12, <2>1, <3>1, <3>4 DEF Lists
  <2>2. CASE n = supercls
    <3>1. k \in 1..L - 1 /\ new[n] = u
      BY <1>10, <1>12, <1>17, <2>2
    <3>2. k \in 1..L /\ k + 1 \in 1..L /\ (p # 1 => p - 1 \in 1..L)
      BY <3>1
    <3>3. u[k] = IF k < p THEN s[k] ELSE s[k + 1]
      BY <1>8, <3>1
    <3>4. k # L - 1 => k + 1 \in 1..L - 1 /\ u[k + 1] = IF k + 1 < p THEN s[k + 1] ELSE s[(k + 1) + 1]
      BY <1>8, <3>1
    <3>5. CASE k + 1 = p
      <4>1. p # 1 /\ k = p - 1 /\ k < p
        BY <3>1, <3>5
      <4>2. removed.next[s[k]] = next[subcls]
        BY <1>3, <1>14, <3>2, <4>1
      <4>3. ~ (k + 1 < p) /\ (k + 1) + 1 = p + 1 /\ (p = L <=> k = L - 1)
        BY <3>1, <3>5
      <4>4. QED
        BY <1>10, <1>15, <3>1, <3>3, <3>4, <4>1, <4>2, <4>3
    <3>6. CASE k + 1 < p
      <4>1. k # p - 1 /\ k < p /\ k # L - 1 /\ k # L
        BY <3>1, <3>6
      <4>2. p # 1 => s[k] # s[p - 1]
        BY <1>7, <3>2, <4>1
      <4>3. removed.next[s[k]] = next[s[k]]
        BY <1>3, <1>14, <3>2, <4>2
      <4>4. next[s[k]] = s[k + 1]
        BY <1>7, <3>2, <4>1
      <4>5. QED
        BY <1>10, <3>1, <3>3, <3>4, <3>6, <4>1, <4>3, <4>4
    <3>7. CASE ~ (k + 1 <= p)
      <4>1. k + 1 # p - 1 /\ ~ (k < p) /\ ~ (k + 1 < p)
        BY <3>1, <3>7
      <4>2. p # 1 => s[k + 1] # s[p - 1]
        BY <1>7, <3>2, <4>1
      <4>3. removed.next[s[k + 1]] = next[s[k + 1]]
        BY <1>3, <1>14, <3>2, <4>2
      <4>4. next[s[k + 1]] = IF k + 1 = L THEN NULL ELSE s[(k + 1) + 1]
        BY <1>7, <3>2
      <4>5. k + 1 = L <=> k = L - 1
        BY <3>1
      <4>6. QED
        BY <1>10, <3>1, <3>3, <3>4, <4>1, <4>3, <4>4, <4>5
    <3>8. QED
      BY <3>1, <3>5, <3>6, <3>7
  <2>3. QED
    BY <2>1, <2>2
\* The place that a member had.
<1>18. ASSUME NEW x \in Nodes, NEW i \in DOMAIN new[x]
       PROVE  \E y \in DOMAIN list[x] : /\ list[x][y] = new[x][i]
                                        /\ x # supercls => y = i
                                        /\ x = supercls => /\ i \in 1..L - 1
                                                           /\ y = IF i < p THEN i ELSE i + 1
  <2>1. CASE x # supercls
    BY <1>12, <1>18, <2>1
  <2>2. CASE x = supercls
    <3>1. i \in 1..L - 1 /\ new[x] = u
      BY <1>10, <1>12, <1>18, <2>2
    <3>2. PICK y \in 1..L : y = IF i < p THEN i ELSE i + 1
      BY <1>9, <3>1
    <3>3. u[i] = s[y]
      BY <1>8, <3>1, <3>2
    <3>4. QED
      BY <1>1, <1>3, <2>2, <3>1, <3>2, <3>3
  <2>3. QED
    BY <2>1, <2>2
<1>19. ASSUME NEW m \in Nodes, NEW n \in Nodes, NEW j \in DOMAIN new[m], NEW k \in DOMAIN new[n],
              new[m][j] = new[n][k]
       PROVE  m = n /\ j = k
  <2>1. PICK y \in DOMAIN list[m] : /\ list[m][y] = new[m][j]
                                    /\ m # supercls => y = j
                                    /\ m = supercls => /\ j \in 1..L - 1
                                                       /\ y = IF j < p THEN j ELSE j + 1
    BY <1>18
  <2>2. PICK z \in DOMAIN list[n] : /\ list[n][z] = new[n][k]
                                    /\ n # supercls => z = k
                                    /\ n = supercls => /\ k \in 1..L - 1
                                                       /\ z = IF k < p THEN k ELSE k + 1
    BY <1>18
  <2>3. m = n /\ y = z
    BY <1>19, <2>1, <2>2 DEF Lists
  <2>4. CASE m # supercls
    BY <2>1, <2>2, <2>3, <2>4
  <2>5. CASE m = supercls
    <3>1. /\ j \in 1..L - 1 /\ k \in 1..L - 1
          /\ (IF j < p THEN j ELSE j + 1) = (IF k < p THEN k ELSE k + 1)
      BY <2>1, <2>2, <2>3, <2>5
    <3>2. j = k
      BY <3>1
    <3>3. QED
      BY <2>3, <3>2
  <2>6. QED
    BY <2>4, <2>5
<1>20. removed.first \in [Nodes -> Nodes \cup {NULL}] /\ removed.next \in [Nodes -> Nodes \cup {NULL}]
    BY <1>14, <1>15
<1>21. Lists(new, removed)
    BY <1>12, <1>16, <1>17, <1>19, <1>20 DEF Lists
<1>22. Range(u) = Range(s) \ {subcls}
  <2>1. Range(u) = {u[k] : k \in 1..L - 1} /\ Range(s) = {s[k] : k \in 1..L}
    BY <1>3, <1>10 DEF Range
  <2>2. ASSUME NEW k \in 1..L, s[k] # subcls
        PROVE  \E j \in 1..L - 1 : u[j] = s[k]
    <3>1. CASE k < p
      <4>1. k \in 1..L - 1 /\ u[k] = s[k]
        BY <1>8, <3>1
      <4>2. QED
        BY <4>1
    <3>2. CASE ~ (k < p)
      <4>1. k # p
        BY <1>4, <2>2
      <4>2. k - 1 \in 1..L - 1 /\ ~ (k - 1 < p) /\ (k - 1) + 1 = k
        BY <3>2, <4>1
      <4>3. u[k - 1] = s[k]
        BY <1>8, <4>2
      <4>4. QED
        BY <4>2, <4>3
    <3>3. QED
      BY <3>1, <3>2
  <2>3. ASSUME NEW j \in 1..L - 1
        PROVE  \E k \in 1..L : u[j] = s[k] /\ s[k] # subcls
    <3>1. PICK k \in 1..L : k = (IF j < p THEN j ELSE j + 1) /\ k # p
      BY <1>9
    <3>2. u[j] = s[k]
      BY <1>8, <3>1
    <3>3. s[k] # subcls
      BY <1>4, <1>7, <3>1
    <3>4. QED
      BY <3>2, <3>3
  <2>4. Range(u) \subseteq Range(s) \ {subcls}
    BY <2>1, <2>3
  <2>5. Range(s) \ {subcls} \subseteq Range(u)
    BY <2>1, <2>2
  <2>6. QED
    BY <2>4, <2>5
<1>23. \A n \in Nodes : Range(new[n]) =
           IF n = supercls THEN Range(list[n]) \ {subcls} ELSE Range(list[n])
    BY <1>1, <1>12, <1>22
<1>24. removed = [first |-> removed.first, next |-> removed.next]
    BY <1>14
<1>25. QED
    BY <1>21, <1>23, <1>24 DEF OneLess

\* The links put the classes of S, and no other, into the lists of their
\* superclasses.
Listed(list, links, S, sup) ==
    /\ Lists(list, links) /\ links = [first |-> links.first, next |-> links.next]
    /\ \A x \in Nodes : Range(list[x]) = {m \in S : sup[m] = x}

LinkedNodes == {m \in Nodes : Linked(m)}

\* The invariant LinkOK in terms of Listed.
LEMMA ListedIsLinked ==
    ASSUME NEW list
    PROVE  SubclassesAre(list) <=> Listed(list, Links, LinkedNodes, superclass)
BY DEF SubclassesAre, Listed, LinkedNodes, Links

\* Only the superclasses of the classes of S matter.
LEMMA ListedSame ==
    ASSUME NEW list, NEW links, NEW S, NEW sup, Listed(list, links, S, sup),
           NEW other, \A m \in S : other[m] = sup[m]
    PROVE  Listed(list, links, S, other)
<1>1. \A x : {m \in S : sup[m] = x} = {m \in S : other[m] = x}
    OBVIOUS
<1>2. QED
    BY <1>1 DEF Listed

\* addSubclass for a class that is in no list.
LEMMA ListedMore ==
    ASSUME NEW list, NEW links, NEW S \in SUBSET Nodes, NEW sup \in [Nodes -> Nodes \cup {NULL}],
           Listed(list, links, S, sup), NEW n \in Nodes, n \notin S,
           NEW added, added = addSubclass(links, sup[n], n)
    PROVE  \E new : Listed(new, added, S \cup {n}, sup)
<1>1. /\ Lists(list, links) /\ links = [first |-> links.first, next |-> links.next]
      /\ \A x \in Nodes : Range(list[x]) = {m \in S : sup[m] = x}
    BY DEF Listed
<1>2. CASE sup[n] = NULL
  <2>1. added = links
    BY <1>2 DEF addSubclass
  <2>2. \A x \in Nodes : {m \in S : sup[m] = x} = {m \in S \cup {n} : sup[m] = x}
    BY <1>2, NodesAre
  <2>3. QED
    BY <1>1, <2>1, <2>2 DEF Listed
<1>3. CASE sup[n] # NULL
  <2>1. PICK s \in Nodes : s = sup[n]
    BY <1>3
  <2>2. \A x \in Nodes : n \notin Range(list[x])
    BY <1>1
  <2>3. added = addSubclass(links, s, n)
    BY <2>1
  <2>4. PICK new : OneMore(list, s, n, new, added)
    BY <1>1, <2>2, <2>3, ListAdded
  <2>5. /\ Lists(new, added) /\ added = [first |-> added.first, next |-> added.next]
        /\ \A x \in Nodes : Range(new[x]) = IF x = s THEN Range(list[x]) \cup {n} ELSE Range(list[x])
    BY <2>4 DEF OneMore
  <2>6. \A x \in Nodes : Range(new[x]) = {m \in S \cup {n} : sup[m] = x}
    <3> TAKE x \in Nodes
    <3>1. CASE x = s
      BY <1>1, <2>1, <2>5, <3>1
    <3>2. CASE x # s
      BY <1>1, <2>1, <2>5, <3>2
    <3>3. QED
      BY <3>1, <3>2
  <2>7. QED
    BY <2>5, <2>6 DEF Listed
<1>4. QED
    BY <1>2, <1>3

\* removeSubclass for a class that is in the list of its superclass.
LEMMA ListedLess ==
    ASSUME NEW list, NEW links, NEW S \in SUBSET Nodes, NEW sup \in [Nodes -> Nodes \cup {NULL}],
           Listed(list, links, S, sup), NEW n \in S,
           NEW removed, removed = IF sup[n] = NULL THEN links ELSE removeSubclass(links, sup[n], n)
    PROVE  \E new : Listed(new, removed, S \ {n}, sup)
<1>1. /\ Lists(list, links) /\ links = [first |-> links.first, next |-> links.next]
      /\ \A x \in Nodes : Range(list[x]) = {m \in S : sup[m] = x}
    BY DEF Listed
<1>2. CASE sup[n] = NULL
  <2>1. removed = links
    BY <1>2
  <2>2. \A x \in Nodes : {m \in S : sup[m] = x} = {m \in S \ {n} : sup[m] = x}
    BY <1>2, NodesAre
  <2>3. QED
    BY <1>1, <2>1, <2>2 DEF Listed
<1>3. CASE sup[n] # NULL
  <2>1. PICK s \in Nodes : s = sup[n]
    BY <1>3
  <2>2. n \in Range(list[s]) /\ n \in Nodes
    BY <1>1, <2>1
  <2>3. removed = removeSubclass(links, s, n)
    BY <1>3, <2>1
  <2>4. PICK new : OneLess(list, s, n, new, removed)
    BY <1>1, <2>2, <2>3, ListRemoved
  <2>5. /\ Lists(new, removed) /\ removed = [first |-> removed.first, next |-> removed.next]
        /\ \A x \in Nodes : Range(new[x]) = IF x = s THEN Range(list[x]) \ {n} ELSE Range(list[x])
    BY <2>4 DEF OneLess
  <2>6. \A x \in Nodes : Range(new[x]) = {m \in S \ {n} : sup[m] = x}
    <3> TAKE x \in Nodes
    <3>1. CASE x = s
      BY <1>1, <2>1, <2>5, <3>1
    <3>2. CASE x # s
      BY <1>1, <2>1, <2>5, <3>2
    <3>3. QED
      BY <3>1, <3>2
  <2>7. QED
    BY <2>5, <2>6 DEF Listed
<1>4. QED
    BY <1>2, <1>3

-----------------------------------------------------------------------------
(* Lemmas: steps that leave parts of the state alone.                      *)

SameFlags ==
    \A n \in Nodes : /\ isRealized(n)' <=> isRealized(n)
                     /\ n[1] \in StaticClasses \/ (flags'[n] = {} <=> flags[n] = {})

SameConnect == \A n \in Nodes : ToConnect(n)' <=> ToConnect(n)

LEMMA SameLive ==
    ASSUME SameFlags
    PROVE  \A c \in Classes : Live(c)' <=> Live(c)
BY NodesAre DEF SameFlags, Live

LEMMA SameIfUnchanged ==
    ASSUME UNCHANGED flags
    PROVE  SameFlags
BY DEF SameFlags, isRealized

LEMMA PairKept ==
    ASSUME PairOK, SameFlags
    PROVE  PairOK'
<1>1. \A c \in Addresses : /\ Class(c) \in Nodes /\ Meta(c) \in Nodes
                           /\ Class(c)[1] \notin StaticClasses /\ Meta(c)[1] \notin StaticClasses
    BY NodesAre, RegistryAssumption DEF Classes
<1>2. QED
    BY <1>1 DEF PairOK, SameFlags

LEMMA TreeKept ==
    ASSUME TreeOK, SameFlags, UNCHANGED <<superclass, isa>>
    PROVE  TreeOK'
BY SameLive DEF TreeOK

\* What threads are about to do is typed.
LEMMA OpIs ==
    ASSUME TypeOK, NEW t \in Threads
    PROVE  /\ op[t] \in Seq(Step)
           /\ \A k \in DOMAIN op[t] : /\ op[t][k].step \in {"realize", "initialize"}
                                     /\ op[t][k].node \in Nodes /\ op[t][k].node[1] \in Classes
<1>1. op[t] \in Seq(Step)
    BY DEF TypeOK
<1>2. \A k \in DOMAIN op[t] : op[t][k] \in Step
    BY <1>1
<1>3. QED
    BY <1>1, <1>2, NodesAre DEF Step

LEMMA UseKept ==
    ASSUME TypeOK, UseOK, SameFlags, UNCHANGED <<op, uninitialized>>
    PROVE  UseOK'
BY OpIs, SameLive DEF UseOK

LEMMA NameKept ==
    ASSUME TypeOK, NameOK, SameFlags, UNCHANGED <<namedClasses, named, name>>
    PROVE  NameOK'
<1>1. \A x \in DOMAIN Hash : named[x] # NULL => named[x] \in Classes
    BY DEF TypeOK
<1>2. QED
    BY <1>1, SameLive DEF NameOK

SameLinked == \A n \in Nodes : Linked(n)' <=> Linked(n)

LEMMA LinkedKept ==
    ASSUME SameFlags, SameConnect
    PROVE  SameLinked
BY DEF SameFlags, SameConnect, SameLinked, Linked

LEMMA CategoryKept ==
    ASSUME CategoryOK, SameLinked, UNCHANGED <<methods, unattached, arrived>>
    PROVE  CategoryOK'
BY NodesAre DEF CategoryOK, SameLinked

LEMMA LinkKept ==
    ASSUME LinkOK, SameLinked, UNCHANGED <<superclass, firstSubclass, nextSibling>>
    PROVE  LinkOK' /\ \A list : SubclassesAre(list)' <=> SubclassesAre(list)
<1>1. UNCHANGED Links
    BY DEF Links
<1>2. \A list : SubclassesAre(list)' <=> SubclassesAre(list)
    BY <1>1 DEF SubclassesAre, SameLinked
<1>3. QED
    BY <1>2 DEF LinkOK

LEMMA UpKept ==
    ASSUME TypeOK, UpOK, SameFlags, SameConnect, UNCHANGED <<superclass, realized>>,
           \A n \in Nodes : ToRealize(n) => ToRealize(n)' \/ isRealized(n)
    PROVE  UpOK'
<1>1. \A n \in Nodes : superclass[n] # NULL => superclass[n] \in Nodes
    BY DEF TypeOK
<1>2. \A m \in Nodes : Linked(m)' <=> Linked(m)
    BY DEF Linked, SameFlags, SameConnect
<1>3. realized \subseteq Nodes
    BY DEF TypeOK
<1>4. QED
    BY <1>1, <1>2, <1>3, NodesAre DEF UpOK, SameFlags

LEMMA FlushKept ==
    ASSUME TypeOK, LinkOK, FlushOK, SameFlags, SameConnect,
           UNCHANGED <<superclass, firstSubclass, nextSibling, stale>>,
           \A k \in DOMAIN todo : todo[k].task = "flush" =>
              \E j \in DOMAIN todo' : todo'[j] = todo[k],
           \A k \in DOMAIN todo' : todo'[k].task = "flush" =>
              todo'[k].node \in Nodes /\ \E j \in DOMAIN todo : todo[j] = todo'[k]
    PROVE  FlushOK'
<1>1. \A list : SubclassesAre(list)' <=> SubclassesAre(list)
    BY LinkKept, LinkedKept
<1>2. \A list, top, node : Remaining(list, top, node)' = Remaining(list, top, node)
    BY DEF Remaining, Before, UpTo
<1>3. stale \subseteq Nodes
    BY DEF TypeOK
<1>4. \A k \in DOMAIN todo' : todo'[k].task = "flush" =>
          /\ RW_REALIZED \in flags'[todo'[k].node]
          /\ todo'[k].top \in Above(superclass', todo'[k].node)
    BY DEF FlushOK, SameFlags, isRealized
<1>5. \A list : SubclassesAre(list) => \A m \in stale :
          /\ isRealized(m)'
          /\ \E k \in DOMAIN todo' : /\ todo'[k].task = "flush"
                                     /\ m \in Remaining(list, todo'[k].top, todo'[k].node)
  <2> SUFFICES ASSUME NEW list, SubclassesAre(list), NEW m \in stale
               PROVE  /\ isRealized(m)'
                      /\ \E k \in DOMAIN todo' : /\ todo'[k].task = "flush"
                                     /\ m \in Remaining(list, todo'[k].top, todo'[k].node)
    OBVIOUS
  <2>1. PICK k \in DOMAIN todo : /\ todo[k].task = "flush"
                                 /\ m \in Remaining(list, todo[k].top, todo[k].node)
    BY DEF FlushOK
  <2>2. PICK j \in DOMAIN todo' : todo'[j] = todo[k]
    BY <2>1
  <2>3. isRealized(m)'
    BY <1>3 DEF FlushOK, SameFlags
  <2>4. QED
    BY <2>1, <2>2, <2>3
<1>6. QED
    BY <1>1, <1>2, <1>4, <1>5 DEF FlushOK, isRealized

-----------------------------------------------------------------------------
(* Lemmas: tasks.                                                          *)

\* The elements of a sequence without its head.
LEMMA TailIs ==
    ASSUME NEW S, NEW s \in Seq(S), s # <<>>
    PROVE  /\ Tail(s) \in Seq(S) /\ Head(s) \in S /\ 1 \in DOMAIN s /\ s[1] = Head(s)
           /\ \A k \in DOMAIN s : k \in Nat /\ s[k] \in S
           /\ \A k \in DOMAIN Tail(s) : k \in Nat /\ k + 1 \in DOMAIN s /\ Tail(s)[k] = s[k + 1]
           /\ \A k \in DOMAIN s : k # 1 => /\ k - 1 \in DOMAIN Tail(s)
                                           /\ Tail(s)[k - 1] = s[k] /\ (k - 1) + 1 = k
<1>1. Len(s) \in Nat /\ Len(s) # 0 /\ DOMAIN s = 1..Len(s)
    OBVIOUS
<1>2. Tail(s) \in Seq(S) /\ Len(Tail(s)) = Len(s) - 1
    OBVIOUS
<1>3. DOMAIN Tail(s) = 1..Len(s) - 1
    BY <1>2
<1>4. \A k \in 1..Len(s) - 1 : Tail(s)[k] = s[k + 1]
    OBVIOUS
<1>5. QED
    BY <1>1, <1>2, <1>3, <1>4

\* The elements of a sequence with others put before it.
LEMMA PutBefore ==
    ASSUME NEW S, NEW u \in Seq(S), NEW s \in Seq(S)
    PROVE  /\ u \o s \in Seq(S) /\ \A k \in DOMAIN (u \o s) : k \in Nat /\ (u \o s)[k] \in S
           /\ \A k \in 1..Len(u) : k \in DOMAIN (u \o s) /\ (u \o s)[k] = u[k]
           /\ \A k \in DOMAIN s : /\ k + Len(u) \in DOMAIN (u \o s)
                                  /\ (u \o s)[k + Len(u)] = s[k]
           /\ \A k \in DOMAIN (u \o s) :
                 \/ k \in 1..Len(u)
                 \/ k > Len(u) /\ k - Len(u) \in DOMAIN s /\ (u \o s)[k] = s[k - Len(u)]
<1> DEFINE v == u \o s
<1>0. PICK m \in Nat : m = Len(u)
    OBVIOUS
<1>1. v \in Seq(S) /\ Len(v) = m + Len(s)
    BY <1>0
<1>2. PICK n \in Nat : n = Len(s)
    OBVIOUS
<1>3. DOMAIN v = 1..m + n /\ DOMAIN s = 1..n
    BY <1>1, <1>2
<1>4. \A k \in 1..m + n : v[k] = IF k <= m THEN u[k] ELSE s[k - m]
    BY <1>0, <1>2
<1> HIDE DEF v
<1>5. \A k \in 1..m + n : k \in Nat /\ v[k] \in S
    BY <1>1, <1>3
<1>6. \A k \in 1..n : k + m \in 1..m + n /\ ~ (k + m <= m) /\ (k + m) - m = k
    BY <1>2
<1>7. \A k \in 1..m : k \in 1..m + n /\ k <= m
    BY <1>2
<1>8. \A k \in 1..m + n : k \in 1..m \/ (k > m /\ ~ (k <= m) /\ k - m \in 1..n)
    BY <1>2
<1>9. v \in Seq(S) /\ \A k \in DOMAIN v : k \in Nat /\ v[k] \in S
    BY <1>1, <1>3, <1>5
<1>10. \A k \in 1..m : k \in DOMAIN v /\ v[k] = u[k]
    BY <1>3, <1>4, <1>7
<1>11. \A k \in DOMAIN s : k + m \in DOMAIN v /\ v[k + m] = s[k]
  <2> SUFFICES ASSUME NEW k \in 1..n
               PROVE  k + m \in 1..m + n /\ v[k + m] = s[k]
    BY <1>3
  <2>1. PICK j \in 1..m + n : j = k + m /\ ~ (j <= m) /\ j - m = k
    BY <1>6
  <2>2. QED
    BY <1>4, <2>1
<1>12. \A k \in DOMAIN v : k \in 1..m \/ (k > m /\ k - m \in DOMAIN s /\ v[k] = s[k - m])
    BY <1>3, <1>4, <1>8
<1>13. QED
    BY <1>0, <1>9, <1>10, <1>11, <1>12 DEF v

LEMMA ThreeInARow ==
    ASSUME NEW S, NEW a \in S, NEW b \in S, NEW c \in S
    PROVE  <<a, b, c>> \in Seq(S)
OBVIOUS

\* What a task consists of.
LEMMA TaskIs ==
    ASSUME NEW x \in Task
    PROVE  /\ x.task \in {"discover", "realize", "connect", "category", "flush"}
           /\ x.task = "discover" => x.class \in StaticClasses
           /\ x.task = "realize" => x.node \in Nodes \cup {NULL}
           /\ x.task = "connect" => x.node \in Nodes
           /\ x.task = "category" => /\ x.cat \in DOMAIN ClassOf
                                     /\ x.node \in Nodes /\ x.node[1] \in StaticClasses
           /\ x.task = "flush" => x.top \in Nodes /\ x.node \in Nodes
<1>1. StaticClasses \X {"class", "meta"} \subseteq Nodes
    BY NodesAre
<1> HIDE DEF Nodes
<1>2. CASE x \in [task : {"discover"}, class : StaticClasses]
    BY <1>2
<1>3. CASE x \in [task : {"realize"}, node : Nodes \cup {NULL}]
    BY <1>3
<1>4. CASE x \in [task : {"connect"}, node : Nodes]
    BY <1>4
<1>5. CASE x \in [task : {"category"}, cat : DOMAIN ClassOf, node : StaticClasses \X {"class", "meta"}]
    BY <1>1, <1>5
<1>6. CASE x \in [task : {"flush"}, top : Nodes, node : Nodes]
    BY <1>6
<1>7. QED
    BY <1>2, <1>3, <1>4, <1>5, <1>6 DEF Task

\* The first task, and what is left without it.
LEMMA TaskDone ==
    ASSUME TypeOK, TodoOK, todo # <<>>
    PROVE  /\ ~ Free /\ It \in Task /\ 1 \in DOMAIN todo /\ todo[1] = It
           /\ Tail(todo) \in Seq(Task)
           /\ \A k \in DOMAIN todo : k \in Nat /\ todo[k] \in Task
           /\ \A k \in DOMAIN Tail(todo) :
                 k \in Nat /\ k + 1 \in DOMAIN todo /\ Tail(todo)[k] = todo[k + 1]
           /\ \A k \in DOMAIN todo : todo[k] = It \/ \E j \in DOMAIN Tail(todo) : Tail(todo)[j] = todo[k]
BY TailIs DEF TypeOK, TodoOK, It

\* Tasks that are put in the place of the first one.
LEMMA TasksPut ==
    ASSUME TypeOK, TodoOK, todo # <<>>, NEW u \in Seq(Task), NEW m \in Nat, m = Len(u),
           todo' = u \o Tail(todo)
    PROVE  /\ todo' \in Seq(Task) /\ \A k \in DOMAIN todo' : k \in Nat /\ todo'[k] \in Task
           /\ \A k \in 1..m : k \in DOMAIN todo' /\ todo'[k] = u[k]
           /\ \A k \in DOMAIN todo' :
                 \/ k \in 1..m
                 \/ k > m /\ (k - m) + 1 \in DOMAIN todo /\ todo'[k] = todo[(k - m) + 1]
           /\ \A k \in DOMAIN todo : k = 1 \/ \E j \in DOMAIN todo' : todo'[j] = todo[k]
<1>1. PICK s \in Seq(Task) : s = Tail(todo)
    BY TaskDone
<1>2. /\ \A k \in DOMAIN s : k \in Nat /\ k + 1 \in DOMAIN todo /\ s[k] = todo[k + 1]
      /\ \A k \in DOMAIN todo : k # 1 => /\ k - 1 \in DOMAIN s /\ s[k - 1] = todo[k]
    BY <1>1, TailIs DEF TypeOK
<1>3. PICK v : v = u \o s
    OBVIOUS
<1>4. /\ v \in Seq(Task) /\ \A k \in DOMAIN v : k \in Nat /\ v[k] \in Task
      /\ \A k \in 1..m : k \in DOMAIN v /\ v[k] = u[k]
    BY <1>3, PutBefore
<1>5. \A k \in DOMAIN s : k + m \in DOMAIN v /\ v[k + m] = s[k]
    BY <1>3, PutBefore
<1>6. \A k \in DOMAIN v : k \in 1..m \/ (k > m /\ k - m \in DOMAIN s /\ v[k] = s[k - m])
    BY <1>3, PutBefore
<1>7. v = todo'
    BY <1>1, <1>3
<1> HIDE <1>3
<1>8. \A k \in DOMAIN v : \/ k \in 1..m
                          \/ k > m /\ (k - m) + 1 \in DOMAIN todo /\ v[k] = todo[(k - m) + 1]
    BY <1>2, <1>6
<1>9. \A k \in DOMAIN todo : k = 1 \/ \E j \in DOMAIN v : v[j] = todo[k]
    BY <1>2, <1>5
<1>10. QED
    BY <1>4, <1>7, <1>8, <1>9

\* A task that is done leaves the rest of the tasks in order.
LEMMA TodoDropped ==
    ASSUME TypeOK, TodoOK, todo # <<>>, todo' = Tail(todo), UNCHANGED runtimeLock, SameFlags,
           \A n \in realized' : n \in realized \/ (It.task = "connect" /\ n = It.node)
    PROVE  TodoOK'
<1>1. /\ ~ Free /\ It \in Task /\ 1 \in DOMAIN todo /\ todo[1] = It
      /\ \A k \in DOMAIN todo : k \in Nat /\ todo[k] \in Task
      /\ \A k \in DOMAIN todo' : k \in Nat /\ k + 1 \in DOMAIN todo /\ todo'[k] = todo[k + 1]
    BY TaskDone
<1>2. \A k \in DOMAIN todo' :
          todo'[k].task = "realize" =>
              \/ todo'[k].node = NULL
              \/ todo'[k].node[1] \in StaticClasses \/ flags'[Class(todo'[k].node[1])] # {}
  <2> SUFFICES ASSUME NEW k \in DOMAIN todo', todo'[k].task = "realize", todo'[k].node # NULL
               PROVE  todo'[k].node[1] \in StaticClasses \/ flags'[Class(todo'[k].node[1])] # {}
    OBVIOUS
  <2>1. PICK n \in Nodes : n = todo'[k].node
    BY <1>1, TaskIs
  <2>2. Live(n[1])
    BY <1>1, <2>1, NodesAre DEF TodoOK
  <2>3. Live(n[1])'
    BY <2>2, SameLive, NodesAre
  <2>4. QED
    BY <2>1, <2>3 DEF Live
<1>3. \A k \in DOMAIN todo' :
          todo'[k].task = "connect" =>
                /\ todo'[k].node[1] \in StaticClasses
                /\ RW_REALIZED \in flags'[todo'[k].node] /\ todo'[k].node \notin realized'
  <2> SUFFICES ASSUME NEW k \in DOMAIN todo', todo'[k].task = "connect"
               PROVE  /\ todo'[k].node[1] \in StaticClasses
                      /\ RW_REALIZED \in flags'[todo'[k].node] /\ todo'[k].node \notin realized'
    OBVIOUS
  <2>1. PICK n \in Nodes : n = todo'[k].node
    BY <1>1, TaskIs
  <2>2. /\ n[1] \in StaticClasses /\ isRealized(n) /\ n \notin realized
    BY <1>1, <2>1 DEF TodoOK
  <2>3. ~ (It.task = "connect" /\ n = It.node)
    <3>1. CASE It.task = "connect" /\ n = It.node
      <4>1. It = todo[k + 1]
        <5>1. \A x \in Task : x.task = "connect" => x = [task |-> "connect", node |-> x.node]
          BY DEF Task
        <5>2. todo[k + 1] \in Task /\ todo[k + 1].task = "connect"
          BY <1>1
        <5>3. todo[k + 1] = [task |-> "connect", node |-> todo[k + 1].node]
          BY <5>1, <5>2
        <5>4. It = [task |-> "connect", node |-> It.node]
          BY <1>1, <3>1, <5>1
        <5>5. QED
          BY <1>1, <2>1, <3>1, <5>3, <5>4
      <4>2. 1 = k + 1 /\ k \in Nat
        BY <1>1, <3>1, <4>1 DEF TodoOK
      <4>3. k = 0
        BY <4>2
      <4>4. todo' \in Seq(Task)
        BY TaskDone
      <4>5. 0 \notin DOMAIN todo'
        BY <4>4
      <4>6. QED
        BY <4>3, <4>5
    <3>2. QED
      BY <3>1
  <2>4. RW_REALIZED \in flags'[n]
    BY <2>2 DEF SameFlags, isRealized
  <2>5. QED
    BY <2>1, <2>2, <2>3, <2>4
<1>4. \A j, k \in DOMAIN todo' : j > k => j + 1 > k + 1
    BY <1>1
<1>5. \A k \in DOMAIN todo' : todo'[k].task \in Late =>
          \A j \in DOMAIN todo' : j > k => todo'[j].task \in Late
    BY <1>1, <1>4 DEF TodoOK
<1>6. \A k \in DOMAIN todo' : todo'[k].task = "flush" =>
          \A j \in DOMAIN todo' : todo'[j].task \in Late
    BY <1>1 DEF TodoOK
<1>7. \A j, k \in DOMAIN todo' : todo'[j].task = "connect" /\ todo'[k] = todo'[j] => j = k
  <2> SUFFICES ASSUME NEW j \in DOMAIN todo', NEW k \in DOMAIN todo', todo'[j].task = "connect",
                      todo'[k] = todo'[j]
               PROVE  j = k
    OBVIOUS
  <2>1. j + 1 = k + 1 /\ j \in Nat /\ k \in Nat
    BY <1>1 DEF TodoOK
  <2>2. QED
    BY <2>1
<1>8. ~ Free'
    BY <1>1 DEF Free
<1>9. QED
    BY <1>2, <1>3, <1>5, <1>6, <1>7, <1>8 DEF TodoOK, isRealized, Live

\* The other tasks stay when the first one is done.
LEMMA OthersToDo ==
    ASSUME TypeOK, TodoOK, todo # <<>>, todo' = Tail(todo)
    PROVE  /\ It.task # "connect" => SameConnect
           /\ \A n : ToRealize(n) => ToRealize(n)' \/ (It.task = "realize" /\ n = It.node)
           /\ \A k \in DOMAIN todo' : todo'[k] \in Task /\ \E j \in DOMAIN todo : todo[j] = todo'[k]
           /\ It.task # "flush" => \A k \in DOMAIN todo : todo[k].task = "flush" =>
                 \E j \in DOMAIN todo' : todo'[j] = todo[k]
<1>1. /\ \A k \in DOMAIN todo : todo[k] \in Task
      /\ \A k \in DOMAIN todo' : k + 1 \in DOMAIN todo /\ todo'[k] = todo[k + 1]
      /\ \A k \in DOMAIN todo : todo[k] = It \/ \E j \in DOMAIN todo' : todo'[j] = todo[k]
    BY TaskDone
<1>2. QED
    BY <1>1 DEF SameConnect, ToConnect, ToRealize

-----------------------------------------------------------------------------
(* What the tasks preserve.                                                *)

\* The names when a class is added.
LEMMA AddNamed ==
    ASSUME TypeOK, NameOK, NEW c \in Classes, Live(c)
    PROVE  LET T == addNamedClass(c)
               new == [named EXCEPT ![name[c]] = IF @ = NULL THEN c ELSE @]
           IN  /\ TableOK(T) /\ \A x \in DOMAIN Hash : Found(T, x) = new[x]
               /\ new \in [DOMAIN Hash -> Classes \cup {NULL}]
               /\ \A x \in DOMAIN Hash : new[x] # NULL => name[new[x]] = x /\ Live(new[x])
<1>1. name[c] \in DOMAIN Hash /\ named \in [DOMAIN Hash -> Classes \cup {NULL}]
    BY DEF NameOK, TypeOK
<1>2. PICK new : new = [named EXCEPT ![name[c]] = IF @ = NULL THEN c ELSE @]
    OBVIOUS
<1>3. /\ new \in [DOMAIN Hash -> Classes \cup {NULL}]
      /\ \A x \in DOMAIN Hash : new[x] = IF x = name[c] /\ named[x] = NULL THEN c ELSE named[x]
    BY <1>1, <1>2
<1>4. NXMapGet(namedClasses, name[c]) = named[name[c]]
    BY <1>1, GetIs DEF NameOK, TableOK
<1>5. TableOK(addNamedClass(c)) /\ \A x \in DOMAIN Hash : Found(addNamedClass(c), x) = new[x]
  <2>1. CASE named[name[c]] # NULL
    <3>1. addNamedClass(c) = namedClasses
      BY <1>4, <2>1 DEF addNamedClass
    <3>2. QED
      BY <1>3, <2>1, <3>1 DEF NameOK
  <2>2. CASE named[name[c]] = NULL
    <3>1. addNamedClass(c) = NXMapInsert(namedClasses, name[c], c)
      BY <1>4, <2>2 DEF addNamedClass
    <3>2. TableOK(namedClasses)
      BY DEF NameOK
    <3>3. /\ TableOK(addNamedClass(c))
          /\ \A x : Found(addNamedClass(c), x) = IF x = name[c] THEN c ELSE Found(namedClasses, x)
      BY <1>1, <3>1, <3>2, InsertIs
    <3>4. QED
      BY <1>3, <2>2, <3>3 DEF NameOK
  <2>3. QED
    BY <2>1, <2>2
<1>6. \A x \in DOMAIN Hash : new[x] # NULL => name[new[x]] = x /\ Live(new[x])
    BY <1>3 DEF NameOK
<1>7. QED
    BY <1>2, <1>3, <1>5, <1>6

LEMMA DiscoverIsOK ==
    ASSUME IInv, Discover
    PROVE  IInv'
<1> USE DEF IInv
<1>1. /\ todo # <<>> /\ It.task = "discover" /\ It \in Task /\ todo' = Tail(todo)
      /\ todo' \in Seq(Task)
    BY TaskDone DEF Discover, Doing, It
<1>2. PICK c \in StaticClasses : c = It.class
    BY <1>1, TaskIs
<1>3. /\ namedClasses' = addNamedClass(c)
      /\ named' = [named EXCEPT ![name[c]] = IF @ = NULL THEN c ELSE @]
      /\ uninitialized' = [uninitialized EXCEPT ![isa[Class(c)]] = c]
      /\ flags' = [flags EXCEPT ![Class(c)] = @ \cup {RO_FROM_BUNDLE},
                                ![Meta(c)] = @ \cup {RO_FROM_BUNDLE}]
      /\ UNCHANGED <<runtimeLock, op, tree, methods, unattached, realized, mapped,
                     name, arrived, sent, stale>>
    BY <1>2 DEF Discover
<1>4. c \in Classes /\ Live(c) /\ Class(c) \in Nodes /\ Meta(c) \in Nodes
    BY NodesAre DEF Classes, Live
<1>5. isa[Class(c)] = Meta(c)
    BY <1>4 DEF TreeOK
<1>6. \A n \in Nodes : flags'[n] = IF n \in {Class(c), Meta(c)} THEN flags[n] \cup {RO_FROM_BUNDLE}
                                   ELSE flags[n]
    BY <1>3, <1>4, NodesAre DEF TypeOK
<1>7. SameFlags
  <2> SUFFICES ASSUME NEW n \in Nodes
               PROVE  /\ RW_REALIZED \in flags'[n] <=> RW_REALIZED \in flags[n]
                      /\ n[1] \in StaticClasses \/ (flags'[n] = {} <=> flags[n] = {})
    BY DEF SameFlags, isRealized
  <2>1. RW_REALIZED # RO_FROM_BUNDLE
    BY DEF RW_REALIZED, RO_FROM_BUNDLE
  <2>2. n \in {Class(c), Meta(c)} => n[1] \in StaticClasses
    BY NodesAre
  <2>3. QED
    BY <1>6, <2>1, <2>2
<1>8. SameConnect /\ \A n : ToRealize(n) => ToRealize(n)'
    BY <1>1, OthersToDo
<1>9. LET new == [named EXCEPT ![name[c]] = IF @ = NULL THEN c ELSE @]
      IN  /\ TableOK(namedClasses') /\ \A x \in DOMAIN Hash : Found(namedClasses', x) = new[x]
          /\ new \in [DOMAIN Hash -> Classes \cup {NULL}]
          /\ \A x \in DOMAIN Hash : new[x] # NULL => name[new[x]] = x /\ Live(new[x])
    BY <1>3, <1>4, AddNamed
<1>10. /\ TableOK(namedClasses') /\ \A x \in DOMAIN Hash : Found(namedClasses', x) = named'[x]
       /\ named' \in [DOMAIN Hash -> Classes \cup {NULL}]
       /\ \A x \in DOMAIN Hash : named'[x] # NULL => name[named'[x]] = x /\ Live(named'[x])
    BY <1>3, <1>9
<1>11. TypeOK'
  <2>1. flags' \in [Nodes -> SUBSET {RO_META, RO_FROM_BUNDLE, RW_REALIZED, RW_CONSTRUCTING,
                                     RW_CONSTRUCTED}]
    BY <1>3, <1>4 DEF TypeOK
  <2>2. uninitialized' \in [Nodes -> Classes \cup {NULL}]
    BY <1>3, <1>4 DEF TypeOK
  <2>3. QED
    BY <1>1, <1>3, <1>10, <2>1, <2>2 DEF TypeOK, tree
<1>12. TodoOK'
    BY <1>1, <1>3, <1>7, TodoDropped
<1>13. PairOK' /\ TreeOK'
    BY <1>3, <1>7, PairKept, TreeKept DEF tree
<1>14. UseOK'
  <2>1. \A d \in Classes : Live(d)' <=> Live(d)
    BY <1>7, SameLive
  <2>2. \A d \in Classes : uninitialized'[Meta(d)] = d => Live(d)
    BY <1>3, <1>4, <1>5, NodesAre DEF TypeOK, UseOK
  <2>3. QED
    BY <1>3, <2>1, <2>2, OpIs DEF UseOK
<1>15. NameOK'
  <2>1. \A d \in Classes : Live(d)' <=> Live(d)
    BY <1>7, SameLive
  <2>2. \A x \in DOMAIN Hash : named'[x] # NULL => named'[x] \in Classes
    BY <1>10
  <2>3. QED
    BY <1>3, <1>10, <2>1, <2>2 DEF NameOK
<1>16. CategoryOK' /\ LinkOK'
    BY <1>3, <1>7, <1>8, LinkedKept, CategoryKept, LinkKept DEF tree
<1>17. UpOK'
    BY <1>3, <1>7, <1>8, UpKept DEF tree
<1>18. FlushOK'
  <2>1. \A k \in DOMAIN todo' : /\ todo'[k] \in Task
                                /\ \E j \in DOMAIN todo : todo[j] = todo'[k]
    BY <1>1, OthersToDo
  <2>2. \A k \in DOMAIN todo : todo[k].task = "flush" => \E j \in DOMAIN todo' : todo'[j] = todo[k]
    BY <1>1, OthersToDo
  <2>3. \A k \in DOMAIN todo' : todo'[k].task = "flush" => todo'[k].node \in Nodes
    BY <2>1, TaskIs
  <2>4. QED
    BY <1>3, <1>7, <1>8, <2>1, <2>2, <2>3, FlushKept DEF tree
<1>19. QED
    BY <1>11, <1>12, <1>13, <1>14, <1>15, <1>16, <1>17, <1>18

\* Without a flush to do no cache is stale.
LEMMA NothingStale ==
    ASSUME LinkOK, FlushOK, \A k \in DOMAIN todo : todo[k].task # "flush"
    PROVE  stale = {}
BY DEF LinkOK, FlushOK

\* With no cache to flush there is nothing to say.
LEMMA NothingToFlush ==
    ASSUME stale' = {}, \A k \in DOMAIN todo' : todo'[k].task # "flush"
    PROVE  FlushOK'
BY DEF FlushOK

\* A realized pair is never realized again.
LEMMA ToRealizeIsStatic ==
    ASSUME PairOK, NEW n \in Nodes, ~ isRealized(n), Live(n[1])
    PROVE  n[1] \in StaticClasses
BY NodesAre DEF PairOK, Live, Classes, isRealized

\* realizeClass of nil, or of a class that is realized.
LEMMA RealizeClassDrops ==
    ASSUME IInv, RealizeClass, It.node = NULL \/ isRealized(It.node)
    PROVE  IInv'
<1> USE DEF IInv
<1>1. /\ todo # <<>> /\ It.task = "realize" /\ It \in Task /\ todo' = Tail(todo)
      /\ todo' \in Seq(Task)
    BY TaskDone DEF RealizeClass, Doing, It
<1>2. UNCHANGED <<runtimeLock, flags, op, tree, methods, unattached, tables, mapped, history, stale>>
    BY DEF RealizeClass
<1>3. SameFlags
    BY <1>2, SameIfUnchanged
<1>4. /\ SameConnect /\ \A n : ToRealize(n) => ToRealize(n)' \/ n = It.node
      /\ \A k \in DOMAIN todo' : todo'[k] \in Task /\ \E j \in DOMAIN todo : todo[j] = todo'[k]
      /\ \A k \in DOMAIN todo : todo[k].task = "flush" => \E j \in DOMAIN todo' : todo'[j] = todo[k]
    BY <1>1, OthersToDo
<1>5. \A k \in DOMAIN todo' : todo'[k].task = "flush" => todo'[k].node \in Nodes
    BY <1>4, TaskIs
<1>6. \A n \in Nodes : ToRealize(n) => ToRealize(n)' \/ isRealized(n)
    BY <1>4, NodesAre
<1>7. TypeOK'
    BY <1>1, <1>2 DEF TypeOK, tree, tables, history
<1>8. TodoOK'
    BY <1>1, <1>2, <1>3, TodoDropped DEF tables
<1>9. PairOK' /\ TreeOK' /\ UseOK' /\ NameOK'
    BY <1>2, <1>3, PairKept, TreeKept, UseKept, NameKept DEF tree, tables, history
<1>10. UpOK'
    BY <1>2, <1>3, <1>4, <1>6, UpKept DEF tree, tables
<1>11. CategoryOK' /\ LinkOK'
    BY <1>2, <1>3, <1>4, LinkedKept, CategoryKept, LinkKept DEF tree, history
<1>12. FlushOK'
    BY <1>2, <1>3, <1>4, <1>5, FlushKept DEF tree
<1>13. QED
    BY <1>7, <1>8, <1>9, <1>10, <1>11, <1>12

\* realizeClass of a class that is not: its superclass and its metaclass come
\* before it.
LEMMA RealizeClassIsOK ==
    ASSUME IInv, RealizeClass, It.node # NULL, ~ isRealized(It.node)
    PROVE  IInv'
<1> USE DEF IInv
<1>1. /\ todo # <<>> /\ It.task = "realize" /\ It \in Task
      /\ 1 \in DOMAIN todo /\ todo[1] = It
      /\ UNCHANGED <<runtimeLock, op, tree, methods, unattached, tables, mapped, history, stale>>
    BY TaskDone DEF RealizeClass, Doing, It
<1>2. PICK n \in Nodes : n = It.node
    BY <1>1, TaskIs
<1>3. Live(n[1]) /\ ~ isRealized(n)
    BY <1>1, <1>2, NodesAre DEF TodoOK
<1>4. n[1] \in StaticClasses
    BY <1>3, ToRealizeIsStatic
<1>5. PICK a : a = [task |-> "realize", node |-> superclass[n]]
    OBVIOUS
<1>6. PICK b : b = [task |-> "realize", node |-> isa[n]]
    OBVIOUS
<1>7. PICK c : c = [task |-> "connect", node |-> n]
    OBVIOUS
<1>8. todo' = <<a, b, c>> \o Tail(todo) /\ flags' = [flags EXCEPT ![n] = {RW_REALIZED}]
    BY <1>2, <1>3, <1>5, <1>6, <1>7, NodesAre DEF RealizeClass, It
<1>9. a \in Task /\ b \in Task /\ c \in Task
    BY <1>5, <1>6, <1>7 DEF TypeOK, Task
<1> DEFINE Fields == /\ a.task = "realize" /\ a.node = superclass[n]
                     /\ b.task = "realize" /\ b.node = isa[n]
                     /\ c.task = "connect" /\ c.node = n
<1>f. Fields
    BY <1>5, <1>6, <1>7
<1>10. /\ todo' \in Seq(Task)
       /\ \A k \in DOMAIN todo' : k \in Nat /\ todo'[k] \in Task
       /\ 1 \in DOMAIN todo' /\ todo'[1] = a /\ 2 \in DOMAIN todo' /\ todo'[2] = b
       /\ 3 \in DOMAIN todo' /\ todo'[3] = c
       /\ \A k \in DOMAIN todo' : k \in {1, 2, 3} \/ (k > 3 /\ k - 2 \in DOMAIN todo /\ todo'[k] = todo[k - 2])
       /\ \A k \in DOMAIN todo : k \in Nat
       /\ \A k \in DOMAIN todo : k = 1 \/ \E j \in DOMAIN todo' : todo'[j] = todo[k]
  <2>1. PICK u \in Seq(Task) : u = <<a, b, c>>
    <3>1. <<a, b, c>> \in Seq(Task)
      BY <1>9, ThreeInARow
    <3>2. QED
      BY <3>1
  <2>2. Len(u) = 3 /\ u[1] = a /\ u[2] = b /\ u[3] = c
    BY <2>1
  <2>3. PICK m \in Nat : m = 3
    OBVIOUS
  <2>4. /\ todo' \in Seq(Task) /\ \A k \in DOMAIN todo' : k \in Nat /\ todo'[k] \in Task
        /\ \A k \in 1..m : k \in DOMAIN todo' /\ todo'[k] = u[k]
        /\ \A k \in DOMAIN todo' :
              \/ k \in 1..m
              \/ k > m /\ (k - m) + 1 \in DOMAIN todo /\ todo'[k] = todo[(k - m) + 1]
        /\ \A k \in DOMAIN todo : k = 1 \/ \E j \in DOMAIN todo' : todo'[j] = todo[k]
    BY <1>1, <1>8, <2>1, <2>2, <2>3, TasksPut
  <2>5. \A k \in DOMAIN todo' : \/ k \in {1, 2, 3}
                                \/ k > 3 /\ k - 2 \in DOMAIN todo /\ todo'[k] = todo[k - 2]
    <3>1. ASSUME NEW k \in DOMAIN todo', k \notin {1, 2, 3}
          PROVE  k > 3 /\ k - 2 \in DOMAIN todo /\ todo'[k] = todo[k - 2]
      <4>1. k \in Nat /\ k \notin 1..m
        BY <2>3, <2>4, <3>1
      <4>2. k > m /\ (k - m) + 1 \in DOMAIN todo /\ todo'[k] = todo[(k - m) + 1]
        BY <2>4, <4>1
      <4>3. (k - m) + 1 = k - 2
        BY <2>3, <4>1
      <4>4. QED
        BY <2>3, <4>2, <4>3
    <3>2. QED
      BY <3>1
  <2>6. 1 \in 1..m /\ 2 \in 1..m /\ 3 \in 1..m
    BY <2>3
  <2>7. QED
    BY <1>1, <2>2, <2>4, <2>5, <2>6, TaskDone
<1>11. \A m \in Nodes : flags'[m] = IF m = n THEN {RW_REALIZED} ELSE flags[m]
    BY <1>8 DEF TypeOK
<1>12. \A m \in Nodes : isRealized(m)' <=> isRealized(m) \/ m = n
    BY <1>11 DEF isRealized
<1>13. \A d \in Classes : Live(d)' <=> Live(d)
    BY <1>4, <1>11, NodesAre DEF Live
<1>14. ~ ToConnect(n)
    BY <1>3 DEF TodoOK, ToConnect
<1>15. \A m \in Nodes : ToConnect(m)' <=> ToConnect(m) \/ m = n
  <2> TAKE m \in Nodes
  <2>1. ToConnect(m) => ToConnect(m)'
    BY <1>1, <1>10 DEF ToConnect
  <2>2. ToConnect(m)' => ToConnect(m) \/ m = n
    <3> SUFFICES ASSUME NEW k \in DOMAIN todo', todo'[k].task = "connect", todo'[k].node = m, m # n
                 PROVE  ToConnect(m)
      BY DEF ToConnect
    <3>1. k \notin {1, 2, 3}
      BY <1>5, <1>6, <1>7, <1>10
    <3>2. QED
      BY <1>10, <3>1 DEF ToConnect
  <2>3. ToConnect(n)'
    BY <1>7, <1>10 DEF ToConnect
  <2>4. QED
    BY <2>1, <2>2, <2>3
<1>16. SameLinked
    BY <1>3, <1>12, <1>14, <1>15 DEF SameLinked, Linked
<1>17. /\ superclass[n] = NULL \/ (superclass[n] \in Nodes /\ Live(superclass[n][1]))
       /\ isa[n] \in Nodes /\ Live(isa[n][1])
       /\ ~ IsMeta(n) => isa[n] = Meta(n[1])
  <2>1. PICK d \in StaticClasses : d = n[1]
    BY <1>4
  <2>2. d \in Classes /\ Live(d)
    BY DEF Classes, Live
  <2>3. isa[Class(d)] = Meta(d)
    BY <2>2 DEF TreeOK
  <2>4. isa[Meta(d)] \in Nodes /\ Live(isa[Meta(d)][1])
    BY <2>2, NodesAre DEF TreeOK, TypeOK, Live
  <2>5. \/ superclass[Class(d)] = NULL /\ superclass[Meta(d)] = Class(d)
        \/ \E e \in Classes : Live(e) /\ superclass[Class(d)] = Class(e) /\ superclass[Meta(d)] = Meta(e)
    BY <2>2 DEF TreeOK
  <2>6. n = Class(d) \/ n = Meta(d)
    BY <2>1, NodesAre
  <2>7. QED
    BY <2>1, <2>2, <2>3, <2>4, <2>5, <2>6, NodesAre
<1>18. \A k \in DOMAIN todo : todo[k].task # "flush"
    BY <1>1 DEF TodoOK, Late
<1>19. \A k \in DOMAIN todo' : todo'[k].task # "flush"
    BY <1>10, <1>18, <1>f
<1>20. TypeOK'
  <2>1. flags' \in [Nodes -> SUBSET {RO_META, RO_FROM_BUNDLE, RW_REALIZED, RW_CONSTRUCTING,
                                     RW_CONSTRUCTED}]
    BY <1>8 DEF TypeOK
  <2>2. QED
    BY <1>1, <1>10, <2>1 DEF TypeOK, tree, tables, history
<1>21. TodoOK'
  <2>1. ~ Free'
    BY <1>1 DEF TodoOK, Free
  <2>2. \A k \in DOMAIN todo' : todo'[k].task = "realize" =>
            \/ todo'[k].node = NULL
            \/ todo'[k].node[1] \in StaticClasses \/ flags'[Class(todo'[k].node[1])] # {}
    <3> SUFFICES ASSUME NEW k \in DOMAIN todo', todo'[k].task = "realize", todo'[k].node # NULL
                 PROVE  todo'[k].node[1] \in StaticClasses \/ flags'[Class(todo'[k].node[1])] # {}
      OBVIOUS
    <3>1. PICK m \in Nodes : m = todo'[k].node
      BY <1>10, TaskIs
    <3>2. CASE k \in {1, 2, 3}
      <4>1. m = superclass[n] \/ m = isa[n]
        BY <1>5, <1>6, <1>7, <1>10, <3>1, <3>2
      <4>2. Live(m[1])
        BY <1>17, <3>1, <4>1, NodesAre
      <4>3. QED
        BY <1>13, <3>1, <4>2, NodesAre DEF Live
    <3>3. CASE k \notin {1, 2, 3}
      <4>1. Live(m[1])
        BY <1>10, <3>1, <3>3, NodesAre DEF TodoOK
      <4>2. QED
        BY <1>13, <3>1, <4>1, NodesAre DEF Live
    <3>4. QED
      BY <3>2, <3>3
  <2>3. \A k \in DOMAIN todo' : todo'[k].task = "connect" =>
            /\ todo'[k].node[1] \in StaticClasses
            /\ RW_REALIZED \in flags'[todo'[k].node] /\ todo'[k].node \notin realized'
    <3> SUFFICES ASSUME NEW k \in DOMAIN todo', todo'[k].task = "connect"
                 PROVE  /\ todo'[k].node[1] \in StaticClasses
                        /\ RW_REALIZED \in flags'[todo'[k].node] /\ todo'[k].node \notin realized'
      OBVIOUS
    <3>1. PICK m \in Nodes : m = todo'[k].node
      BY <1>10, TaskIs
    <3>2. CASE k \in {1, 2, 3}
      <4>1. m = n
        BY <1>5, <1>6, <1>7, <1>10, <3>1, <3>2
      <4>2. n \notin realized'
        BY <1>1, <1>3 DEF UpOK, Linked, tables
      <4>3. QED
        BY <1>4, <1>11, <3>1, <4>1, <4>2
    <3>3. CASE k \notin {1, 2, 3}
      <4>1. m[1] \in StaticClasses /\ isRealized(m) /\ m \notin realized
        BY <1>10, <3>1, <3>3 DEF TodoOK
      <4>2. QED
        BY <1>1, <1>12, <3>1, <4>1 DEF isRealized, tables
    <3>4. QED
      BY <3>2, <3>3
  <2>4. \A k \in DOMAIN todo' : todo'[k].task \in Late =>
            \A j \in DOMAIN todo' : j > k => todo'[j].task \in Late
    <3> SUFFICES ASSUME NEW k \in DOMAIN todo', todo'[k].task \in Late,
                        NEW j \in DOMAIN todo', j > k
                 PROVE  todo'[j].task \in Late
      OBVIOUS
    <3>1. k \notin {1, 2, 3}
      BY <1>5, <1>6, <1>7, <1>10 DEF Late
    <3>2. j \notin {1, 2, 3} /\ j - 2 > k - 2
      BY <1>10, <3>1
    <3>3. QED
      BY <1>10, <3>1, <3>2 DEF TodoOK
  <2>5. \A j, k \in DOMAIN todo' : todo'[j].task = "connect" /\ todo'[k] = todo'[j] => j = k
    <3> SUFFICES ASSUME NEW j \in DOMAIN todo', NEW k \in DOMAIN todo', todo'[j].task = "connect",
                        todo'[k] = todo'[j]
                 PROVE  j = k
      OBVIOUS
    <3>1. ASSUME NEW i \in DOMAIN todo', todo'[i].task = "connect", i \in {1, 2, 3}
          PROVE  i = 3 /\ todo'[i].node = n
      BY <1>5, <1>6, <1>7, <1>10, <3>1
    <3>2. ASSUME NEW i \in DOMAIN todo', todo'[i].task = "connect", i \notin {1, 2, 3}
          PROVE  todo'[i].node # n
      BY <1>10, <1>14, <3>2 DEF ToConnect
    <3>3. CASE j \in {1, 2, 3} \/ k \in {1, 2, 3}
      BY <3>1, <3>2, <3>3
    <3>4. CASE j \notin {1, 2, 3} /\ k \notin {1, 2, 3}
      <4>1. j - 2 = k - 2
        BY <1>10, <3>4 DEF TodoOK
      <4>2. QED
        BY <1>10, <4>1
    <3>5. QED
      BY <3>3, <3>4
  <2>6. QED
    BY <1>19, <2>1, <2>2, <2>3, <2>4, <2>5 DEF TodoOK, isRealized, Live
<1>22. PairOK'
  <2>1. \A d \in Addresses : /\ Class(d) \in Nodes /\ Meta(d) \in Nodes
                             /\ Class(d) # n /\ Meta(d) # n
    BY <1>4, NodesAre, RegistryAssumption DEF Classes
  <2>2. QED
    BY <1>11, <2>1 DEF PairOK, isRealized
<1>23. TreeOK' /\ UseOK' /\ NameOK'
  <2>1. \A x \in DOMAIN Hash : named[x] # NULL => named[x] \in Classes
    BY DEF TypeOK
  <2>2. TreeOK'
    BY <1>1, <1>13 DEF TreeOK, tree
  <2>3. UseOK'
    BY <1>1, <1>13, OpIs DEF UseOK, tables
  <2>4. NameOK'
    BY <1>1, <1>13, <2>1 DEF NameOK, tables, history
  <2>5. QED
    BY <2>2, <2>3, <2>4
<1>24. UpOK'
  <2>1. \A m \in realized' : Linked(m)'
    BY <1>1, <1>16 DEF UpOK, SameLinked, TypeOK, tables
  <2>2. \A m \in Nodes : ToRealize(m) => ToRealize(m)' \/ m = n
    BY <1>1, <1>2, <1>10 DEF ToRealize
  <2>3. /\ \E k \in DOMAIN todo' : todo'[k].task = "realize" /\ todo'[k].node = superclass[n]
        /\ \E k \in DOMAIN todo' : todo'[k].task = "realize" /\ todo'[k].node = isa[n]
    BY <1>10, <1>f
  <2>4. ASSUME NEW m \in Nodes, isRealized(m)'
        PROVE  \/ superclass'[m] = NULL \/ isRealized(superclass[m])' \/ ToRealize(superclass[m])'
    <3>1. CASE m = n
      BY <1>1, <2>3, <3>1 DEF ToRealize, tree
    <3>2. CASE m # n
      <4>1. superclass[m] \in Nodes \cup {NULL}
        BY DEF TypeOK
      <4>2. \/ superclass[m] = NULL \/ isRealized(superclass[m]) \/ ToRealize(superclass[m])
        BY <1>12, <2>4, <3>2 DEF UpOK
      <4>3. QED
        BY <1>1, <1>12, <2>2, <4>1, <4>2 DEF tree
    <3>3. QED
      BY <3>1, <3>2
  <2>5. ASSUME NEW d \in Classes, isRealized(Class(d))'
        PROVE  isRealized(Meta(d))' \/ ToRealize(Meta(d))'
    <3>1. CASE Class(d) = n
      <4>1. isa[n] = Meta(d)
        BY <1>17, <3>1, NodesAre
      <4>2. QED
        BY <2>3, <4>1 DEF ToRealize
    <3>2. CASE Class(d) # n
      <4>1. isRealized(Meta(d)) \/ ToRealize(Meta(d))
        BY <1>12, <2>5, <3>2, NodesAre DEF UpOK
      <4>2. QED
        BY <1>12, <2>2, <4>1, NodesAre
    <3>3. QED
      BY <3>1, <3>2
  <2>6. UNCHANGED superclass
    BY <1>1 DEF tree
  <2>7. QED
    BY <2>1, <2>4, <2>5, <2>6 DEF UpOK
<1>25. CategoryOK' /\ LinkOK'
    BY <1>1, <1>16, CategoryKept, LinkKept DEF tree, history
<1>26. FlushOK'
    BY <1>1, <1>18, <1>19, NothingStale, NothingToFlush
<1>27. QED
    BY <1>20, <1>21, <1>22, <1>23, <1>24, <1>25, <1>26

\* Without the lock there is nothing to do, and every realized class is in the
\* list of its superclass.
LEMMA WhenFree ==
    ASSUME TypeOK, TodoOK, LinkOK, FlushOK, Free
    PROVE  /\ todo = <<>> /\ stale = {}
           /\ \A n : ~ ToRealize(n) /\ ~ ToConnect(n) /\ (Linked(n) <=> isRealized(n))
<1>1. todo = <<>> /\ DOMAIN todo = {}
    BY DEF TodoOK
<1>2. stale = {}
    BY <1>1, NothingStale
<1>3. QED
    BY <1>1, <1>2 DEF ToRealize, ToConnect, Linked

\* Nothing to do before and after.
LEMMA StillFree ==
    ASSUME TypeOK, TodoOK, LinkOK, FlushOK, Free, UNCHANGED <<runtimeLock, todo, stale>>
    PROVE  TodoOK' /\ SameConnect /\ FlushOK'
<1>1. todo = <<>> /\ DOMAIN todo = {} /\ stale = {}
    BY WhenFree
<1>2. TodoOK'
    BY <1>1 DEF TodoOK
<1>3. SameConnect
    BY DEF SameConnect, ToConnect
<1>4. FlushOK'
    BY <1>1, NothingToFlush
<1>5. QED
    BY <1>2, <1>3, <1>4

\* A step that takes the lock to do something else than to flush caches.
LEMMA NowBusy ==
    ASSUME TypeOK, TodoOK, LinkOK, FlushOK, Free, runtimeLock' # NULL, UNCHANGED stale,
           todo' \in Seq(Task),
           \A k \in DOMAIN todo' :
              /\ todo'[k].task \notin {"connect", "flush"}
              /\ todo'[k].task = "realize" =>
                    todo'[k].node[1] \in StaticClasses \/ flags'[Class(todo'[k].node[1])] # {}
              /\ todo'[k].task \in Late =>
                    \A j \in DOMAIN todo' : j > k => todo'[j].task \in Late
    PROVE  TodoOK' /\ SameConnect /\ FlushOK' /\ \A n : ToRealize(n) => ToRealize(n)'
<1>1. DOMAIN todo = {} /\ stale = {}
    BY WhenFree
<1>2. TodoOK'
  <2>1. ~ Free'
    BY DEF Free
  <2>2. \A k \in DOMAIN todo' : todo'[k].task # "connect" /\ todo'[k].task # "flush"
    OBVIOUS
  <2>3. \A k \in DOMAIN todo' : todo'[k].task = "realize" =>
            todo'[k].node[1] \in StaticClasses \/ flags'[Class(todo'[k].node[1])] # {}
    OBVIOUS
  <2>4. \A k \in DOMAIN todo' : todo'[k].task \in Late =>
            \A j \in DOMAIN todo' : j > k => todo'[j].task \in Late
    OBVIOUS
  <2> HIDE DEF Late
  <2>5. QED
    BY <2>1, <2>2, <2>3, <2>4 DEF TodoOK, Live
<1>3. SameConnect
    BY <1>1 DEF SameConnect, ToConnect
<1>4. FlushOK'
    BY <1>1, NothingToFlush
<1>5. QED
    BY <1>1, <1>2, <1>3, <1>4 DEF ToRealize

LEMMA ReleaseIsOK ==
    ASSUME IInv, Release
    PROVE  IInv'
<1> USE DEF IInv
<1>1. /\ todo = <<>> /\ todo' = <<>> /\ runtimeLock' = NULL /\ DOMAIN todo = {}
      /\ UNCHANGED <<todo, op, flags, tree, methods, unattached, tables, mapped, history, stale>>
    BY DEF Release
<1>2. SameFlags
    BY <1>1, SameIfUnchanged
<1>3. SameConnect /\ \A n : ToRealize(n) => ToRealize(n)'
    BY <1>1 DEF SameConnect, ToConnect, ToRealize
<1>4. TypeOK'
    BY <1>1 DEF TypeOK, tree, tables, history
<1>5. TodoOK'
    BY <1>1 DEF TodoOK
<1>6. PairOK' /\ TreeOK' /\ UseOK' /\ NameOK'
    BY <1>1, <1>2, PairKept, TreeKept, UseKept, NameKept DEF tree, tables, history
<1>7. UpOK'
    BY <1>1, <1>2, <1>3, UpKept DEF tree, tables
<1>8. CategoryOK' /\ LinkOK'
    BY <1>1, <1>2, <1>3, LinkedKept, CategoryKept, LinkKept DEF tree, history
<1>9. FlushOK'
  <2>1. stale = {}
    BY <1>1, NothingStale
  <2>2. QED
    BY <1>1, <2>1, NothingToFlush
<1>10. QED
    BY <1>4, <1>5, <1>6, <1>7, <1>8, <1>9

-----------------------------------------------------------------------------
\* The links when n goes into the list of its superclass.
LEMMA LinksOfOneMore ==
    ASSUME TypeOK, NEW list, SubclassesAre(list), NEW n \in Nodes, ~ Linked(n),
           NEW added, added = addSubclass(Links, superclass[n], n)
    PROVE  \E new : /\ Lists(new, added)
                    /\ added = [first |-> added.first, next |-> added.next]
                    /\ \A x \in Nodes : Range(new[x]) =
                          {m \in Nodes : (Linked(m) \/ m = n) /\ superclass[m] = x}
<1>1. PICK S \in SUBSET Nodes : S = LinkedNodes
    BY DEF LinkedNodes
<1>2. n \notin S /\ Listed(list, Links, S, superclass)
    BY <1>1, ListedIsLinked DEF LinkedNodes
<1>3. PICK new : Listed(new, added, S \cup {n}, superclass)
  <2>1. superclass \in [Nodes -> Nodes \cup {NULL}]
    BY DEF TypeOK
  <2>2. \E new : Listed(new, added, S \cup {n}, superclass)
    BY <1>2, <2>1, ListedMore
  <2>3. QED
    BY <2>2
<1>4. S \cup {n} = {m \in Nodes : Linked(m) \/ m = n}
    BY <1>1 DEF LinkedNodes
<1>5. QED
    BY <1>3, <1>4 DEF Listed

\* The newest category comes first.
LEMMA ReverseIs ==
    ASSUME NEW S, NEW s \in Seq(S)
    PROVE  /\ Reverse(s) \in Seq(S) /\ NewestFirst(s) = Reverse(s)
           /\ \A x \in S : NewestFirst(Append(<<>>, x)) \in Seq(S)
                           /\ Reverse(Append(s, x)) = NewestFirst(Append(<<>>, x)) \o Reverse(s)
<1>1. PICK L \in Nat : L = Len(s)
    OBVIOUS
<1>2. \A i \in 1..L : (L - i) + 1 \in 1..L
    BY <1>1
<1>3. Reverse(s) = [i \in 1..L |-> s[(L - i) + 1]]
    BY <1>1 DEF Reverse
<1>4. Reverse(s) \in [1..L -> S]
    BY <1>1, <1>2, <1>3
<1>5. PICK r \in Seq(S) : r = Reverse(s) /\ Len(r) = L
    BY <1>1, <1>4
<1>6. ASSUME NEW x \in S
      PROVE  /\ NewestFirst(Append(<<>>, x)) \in Seq(S)
             /\ Reverse(Append(s, x)) = NewestFirst(Append(<<>>, x)) \o Reverse(s)
  <2>1. PICK one : one = Append(<<>>, x)
    OBVIOUS
  <2>2. one \in Seq(S) /\ Len(one) = 1 /\ one[1] = x
    <3>1. <<>> \in Seq(S) /\ Len(<<>>) = 0
      OBVIOUS
    <3>2. QED
      BY <2>1, <3>1
  <2>3. Reverse(one) = [i \in 1..1 |-> one[(1 - i) + 1]]
    BY <2>2 DEF Reverse
  <2>4. \A i \in 1..1 : (1 - i) + 1 = 1
    OBVIOUS
  <2>5. Reverse(one) = [i \in 1..1 |-> x]
    BY <2>2, <2>3, <2>4
  <2>6. PICK h \in Seq(S) : h = Reverse(one) /\ Len(h) = 1 /\ h[1] = x
    <3>1. Reverse(one) \in [1..1 -> S]
      BY <2>5
    <3>2. PICK N \in Nat : N = 1
      OBVIOUS
    <3>3. PICK f \in [1..N -> S] : f = Reverse(one)
      BY <3>1, <3>2
    <3>4. f \in Seq(S) /\ Len(f) = N
      OBVIOUS
    <3>5. f[1] = x
      BY <2>5, <3>3
    <3>6. QED
      BY <3>2, <3>3, <3>4, <3>5
  <2>7. PICK t : t = Append(s, x)
    OBVIOUS
  <2>8. t \in Seq(S) /\ Len(t) = L + 1 /\ t[L + 1] = x /\ \A i \in 1..L : t[i] = s[i]
    BY <1>1, <2>7
  <2>9. Reverse(t) = [i \in 1..L + 1 |-> t[((L + 1) - i) + 1]]
    BY <2>8 DEF Reverse
  <2>10. PICK u : u = h \o r
    OBVIOUS
  <2>11. /\ u \in Seq(S) /\ Len(u) = L + 1
         /\ \A i \in 1..L + 1 : u[i] = IF i <= 1 THEN h[i] ELSE r[i - 1]
    <3>1. PICK m \in Nat : m = Len(h)
      OBVIOUS
    <3>2. u \in Seq(S) /\ Len(u) = m + L
      <4>1. h \o r \in Seq(S)
        BY PutBefore
      <4>2. Len(h \o r) = Len(h) + Len(r)
        OBVIOUS
      <4>3. QED
        BY <1>5, <2>10, <3>1, <4>1, <4>2
    <3>3. \A i \in 1..m + L : u[i] = IF i <= m THEN h[i] ELSE r[i - m]
      BY <1>5, <2>10, <3>1
    <3>4. m = 1
      BY <2>6, <3>1
    <3>5. m + L = L + 1
      BY <3>4
    <3>6. QED
      BY <3>2, <3>3, <3>4, <3>5
  <2>12. \A i \in 1..L + 1 : u[i] = t[((L + 1) - i) + 1]
    <3> TAKE i \in 1..L + 1
    <3>1. CASE i = 1
      <4>1. ((L + 1) - i) + 1 = L + 1 /\ u[i] = h[1]
        BY <2>11, <3>1
      <4>2. QED
        BY <2>6, <2>8, <4>1
    <3>2. CASE i # 1
      <4>1. i - 1 \in 1..L /\ ((L + 1) - i) + 1 = (L - (i - 1)) + 1 /\ ~ (i <= 1)
        BY <3>2
      <4>2. u[i] = r[i - 1]
        BY <2>11, <4>1
      <4>3. r[i - 1] = s[(L - (i - 1)) + 1]
        BY <1>3, <1>5, <4>1
      <4>4. (L - (i - 1)) + 1 \in 1..L
        BY <1>2, <4>1
      <4>5. QED
        BY <2>8, <4>1, <4>2, <4>3, <4>4
    <3>3. QED
      BY <3>1, <3>2
  <2>13. u = [i \in 1..L + 1 |-> t[((L + 1) - i) + 1]]
    <3>1. u = [i \in 1..L + 1 |-> u[i]]
      BY <2>11
    <3>2. QED
      BY <2>12, <3>1
  <2>14. Reverse(t) = u
    BY <2>9, <2>13
  <2>15. NewestFirst(one) = h
    BY <2>6 DEF NewestFirst
  <2>16. QED
    BY <1>5, <2>1, <2>7, <2>10, <2>14, <2>15
<1>7. QED
    BY <1>5, <1>6 DEF NewestFirst

\* A class is connected once.
LEMMA ConnectOnce ==
    ASSUME TypeOK, TodoOK, todo # <<>>, todo' = Tail(todo), It.task = "connect"
    PROVE  \A m \in Nodes : ToConnect(m)' <=> ToConnect(m) /\ m # It.node
<1>1. /\ 1 \in DOMAIN todo /\ todo[1] = It
      /\ \A k \in DOMAIN todo : k \in Nat /\ todo[k] \in Task
      /\ \A k \in DOMAIN todo' : k \in Nat /\ k + 1 \in DOMAIN todo /\ todo'[k] = todo[k + 1]
      /\ \A k \in DOMAIN todo : todo[k] = It \/ \E j \in DOMAIN todo' : todo'[j] = todo[k]
    BY TaskDone
<1>2. \A x, y \in Task : x.task = "connect" /\ y.task = "connect" /\ x.node = y.node => x = y
    BY DEF Task
<1> TAKE m \in Nodes
<1>3. ToConnect(m)' => ToConnect(m)
    BY <1>1 DEF ToConnect
<1>4. ToConnect(m)' => m # It.node
  <2> SUFFICES ASSUME NEW k \in DOMAIN todo', todo'[k].task = "connect", todo'[k].node = It.node
               PROVE  FALSE
    BY DEF ToConnect
  <2>1. k + 1 \in DOMAIN todo /\ todo[k + 1] = todo[1] /\ k \in Nat
    BY <1>1, <1>2
  <2>2. k + 1 = 1
    BY <1>1, <2>1 DEF TodoOK
  <2>3. k \in DOMAIN todo' /\ k # 0
    <3>1. todo' \in Seq(Task)
      BY TaskDone
    <3>2. QED
      BY <3>1
  <2>4. QED
    BY <2>1, <2>2, <2>3
<1>5. ToConnect(m) /\ m # It.node => ToConnect(m)'
    BY <1>1 DEF ToConnect
<1>6. QED
    BY <1>3, <1>4, <1>5

LEMMA ConnectIsOK ==
    ASSUME IInv, Connect
    PROVE  IInv'
<1> USE DEF IInv
<1>1. /\ todo # <<>> /\ It.task = "connect" /\ It \in Task /\ todo' = Tail(todo)
      /\ todo' \in Seq(Task) /\ 1 \in DOMAIN todo /\ todo[1] = It
    BY TaskDone DEF Connect, Doing, It
<1>2. PICK n \in Nodes : n = It.node
    BY <1>1, TaskIs
<1>3. PICK added : added = addSubclass(Links, superclass[n], n)
    OBVIOUS
<1>4. /\ firstSubclass' = added.first /\ nextSibling' = added.next
      /\ methods' = [methods EXCEPT ![n] = NewestFirst(unattached[n]) \o <<"base">>]
      /\ unattached' = [unattached EXCEPT ![n] = <<>>]
      /\ realized' = realized \cup {n}
      /\ UNCHANGED <<runtimeLock, op, flags, superclass, isa, namedClasses, uninitialized,
                     mapped, history, stale>>
    BY <1>2, <1>3 DEF Connect
<1>5. n[1] \in StaticClasses /\ isRealized(n) /\ n \notin realized /\ ToConnect(n) /\ ~ Linked(n)
    BY <1>1, <1>2 DEF TodoOK, ToConnect, Linked
<1>6. SameFlags
    BY <1>4, SameIfUnchanged
<1>7. \A m \in Nodes : ToConnect(m)' <=> ToConnect(m) /\ m # n
    BY <1>1, <1>2, ConnectOnce
<1>8. \A m \in Nodes : Linked(m)' <=> Linked(m) \/ m = n
    BY <1>4, <1>5, <1>7 DEF Linked, isRealized
<1>9. \A m : ToRealize(m) => ToRealize(m)'
    BY <1>1, OthersToDo
<1>10. /\ \A k \in DOMAIN todo : todo[k].task # "flush"
       /\ \A k \in DOMAIN todo' : todo'[k].task # "flush"
  <2>1. \A k \in DOMAIN todo : todo[k].task # "flush"
    BY <1>1 DEF TodoOK, Late
  <2>2. QED
    BY <1>1, <2>1, OthersToDo
<1>11. NewestFirst(unattached[n]) = Reverse(unattached[n])
       /\ Reverse(unattached[n]) \in Seq(DOMAIN ClassOf)
    BY ReverseIs DEF TypeOK
<1>12. PICK new : /\ Lists(new, added)
                  /\ added = [first |-> added.first, next |-> added.next]
                  /\ \A x \in Nodes : Range(new[x]) =
                        {m \in Nodes : (Linked(m) \/ m = n) /\ superclass[m] = x}
    BY <1>3, <1>5, LinksOfOneMore DEF LinkOK
<1>13. TypeOK'
  <2>1. methods' \in [Nodes -> Seq(DOMAIN ClassOf \cup {"base"})]
    <3>1. PICK S : S = DOMAIN ClassOf \cup {"base"}
      OBVIOUS
    <3>2. Reverse(unattached[n]) \in Seq(S) /\ <<"base">> \in Seq(S) /\ methods \in [Nodes -> Seq(S)]
      BY <1>11, <3>1 DEF TypeOK
    <3>3. Reverse(unattached[n]) \o <<"base">> \in Seq(S)
      BY <3>2, PutBefore
    <3>4. QED
      BY <1>4, <1>11, <3>1, <3>2, <3>3
  <2>2. unattached' \in [Nodes -> Seq(DOMAIN ClassOf)]
    BY <1>4 DEF TypeOK
  <2>3. /\ firstSubclass' \in [Nodes -> Nodes \cup {NULL}]
        /\ nextSibling' \in [Nodes -> Nodes \cup {NULL}]
    BY <1>4, <1>12 DEF Lists
  <2>4. realized' \subseteq Nodes
    BY <1>4 DEF TypeOK
  <2>5. QED
    BY <1>1, <1>4, <2>1, <2>2, <2>3, <2>4 DEF TypeOK, history
<1>14. TodoOK'
    BY <1>1, <1>2, <1>4, <1>6, TodoDropped
<1>15. PairOK' /\ TreeOK' /\ UseOK' /\ NameOK'
    BY <1>4, <1>6, PairKept, TreeKept, UseKept, NameKept DEF history
<1>16. UpOK'
  <2>1. \A m \in realized' : Linked(m)'
    BY <1>4, <1>8 DEF UpOK, TypeOK
  <2>2. \A m \in Nodes : isRealized(m)' <=> isRealized(m)
    BY <1>6 DEF SameFlags
  <2>3. \A m \in Nodes : superclass[m] \in Nodes \cup {NULL}
    BY DEF TypeOK
  <2>4. \A m \in Nodes : isRealized(m)' =>
            \/ superclass'[m] = NULL
            \/ isRealized(superclass[m])'
            \/ ToRealize(superclass[m])'
    BY <1>4, <1>9, <2>2, <2>3 DEF UpOK
  <2>5. \A c \in Classes : isRealized(Class(c))' => isRealized(Meta(c))' \/ ToRealize(Meta(c))'
    BY <1>9, <2>2, NodesAre DEF UpOK
  <2>6. QED
    BY <2>1, <2>4, <2>5 DEF UpOK
<1>17. CategoryOK'
  <2> SUFFICES ASSUME NEW m \in StaticClasses \X {"class", "meta"}
               PROVE  IF Linked(m)'
                      THEN methods'[m] = Reverse(arrived'[m]) \o <<"base">> /\ unattached'[m] = <<>>
                      ELSE methods'[m] = <<>> /\ unattached'[m] = arrived'[m]
    BY DEF CategoryOK
  <2>1. m \in Nodes
    BY NodesAre
  <2>2. arrived' = arrived
    BY <1>4 DEF history
  <2>3. CASE m = n
    <3>1. unattached[n] = arrived[n]
      BY <1>5, <2>3 DEF CategoryOK
    <3>2. methods'[n] = Reverse(arrived[n]) \o <<"base">> /\ unattached'[n] = <<>>
      BY <1>4, <1>11, <3>1 DEF TypeOK
    <3>3. QED
      BY <1>8, <2>2, <2>3, <3>2
  <2>4. CASE m # n
    <3>1. methods'[m] = methods[m] /\ unattached'[m] = unattached[m]
      BY <1>4, <2>1, <2>4 DEF TypeOK
    <3>2. QED
      BY <1>8, <2>1, <2>2, <2>4, <3>1 DEF CategoryOK
  <2>5. QED
    BY <2>3, <2>4
<1>18. LinkOK'
  <2>1. Links' = added
    BY <1>4, <1>12 DEF Links
  <2>2. \A x \in Nodes : Range(new[x]) = {m \in Nodes : Linked(m)' /\ superclass'[m] = x}
    BY <1>4, <1>8, <1>12
  <2>3. Lists(new, Links)'
    BY <1>12, <2>1 DEF Lists
  <2>4. SubclassesAre(new)'
    BY <2>2, <2>3 DEF SubclassesAre
  <2>5. QED
    BY <2>4 DEF LinkOK
<1>19. FlushOK'
    BY <1>4, <1>10, NothingStale, NothingToFlush
<1>20. QED
    BY <1>13, <1>14, <1>15, <1>16, <1>17, <1>18, <1>19

\* Flushes and categories make no demands on their order.
LEMMA AllLate ==
    ASSUME runtimeLock' # NULL, \A k \in DOMAIN todo' : todo'[k].task \in Late
    PROVE  TodoOK'
BY DEF TodoOK, Late, Free

LEMMA OneInARow ==
    ASSUME NEW S, NEW a \in S
    PROVE  <<a>> \in Seq(S) /\ Len(<<a>>) = 1 /\ <<a>>[1] = a
OBVIOUS

LEMMA Associative ==
    ASSUME NEW S, NEW a \in Seq(S), NEW b \in Seq(S), NEW c \in Seq(S)
    PROVE  (a \o b) \o c = a \o (b \o c)
OBVIOUS

LEMMA SeqOfMore ==
    ASSUME NEW S, NEW T, S \subseteq T, NEW s \in Seq(S)
    PROVE  s \in Seq(T)
OBVIOUS

\* The category waits.
LEMMA AddCategoryWaits ==
    ASSUME IInv, AddCategory, ~ isRealized(It.node)
    PROVE  IInv'
<1> USE DEF IInv
<1>1. /\ todo # <<>> /\ It.task = "category" /\ It \in Task /\ todo' = Tail(todo)
      /\ todo' \in Seq(Task)
    BY TaskDone DEF AddCategory, Doing, It
<1>2. PICK n \in Nodes : n = It.node /\ n[1] \in StaticClasses
    BY <1>1, TaskIs
<1>3. PICK cat \in DOMAIN ClassOf : cat = It.cat
    BY <1>1, TaskIs
<1>4. /\ arrived' = [arrived EXCEPT ![n] = Append(@, cat)]
      /\ unattached' = [unattached EXCEPT ![n] = Append(unattached[n], cat)]
      /\ UNCHANGED <<methods, stale>>
      /\ UNCHANGED <<runtimeLock, op, flags, tree, tables, mapped, name, named, sent>>
    BY <1>2, <1>3 DEF AddCategory, It
<1>5. SameFlags
    BY <1>4, SameIfUnchanged
<1>6. /\ SameConnect /\ \A m : ToRealize(m) => ToRealize(m)'
      /\ \A k \in DOMAIN todo' : todo'[k] \in Task /\ \E j \in DOMAIN todo : todo[j] = todo'[k]
      /\ \A k \in DOMAIN todo : todo[k].task = "flush" => \E j \in DOMAIN todo' : todo'[j] = todo[k]
    BY <1>1, OthersToDo
<1>7. \A k \in DOMAIN todo' : todo'[k].task = "flush" => todo'[k].node \in Nodes
    BY <1>6, TaskIs
<1>8. TypeOK'
  <2>1. /\ arrived' \in [Nodes -> Seq(DOMAIN ClassOf)]
        /\ unattached' \in [Nodes -> Seq(DOMAIN ClassOf)]
    BY <1>4 DEF TypeOK
  <2>2. QED
    BY <1>1, <1>4, <2>1 DEF TypeOK, tree, tables
<1>9. TodoOK'
    BY <1>1, <1>4, <1>5, TodoDropped DEF tables
<1>10. PairOK' /\ TreeOK' /\ UseOK' /\ NameOK'
    BY <1>4, <1>5, PairKept, TreeKept, UseKept, NameKept DEF tree, tables
<1>11. UpOK'
    BY <1>4, <1>5, <1>6, UpKept DEF tree, tables
<1>12. SameLinked
    BY <1>5, <1>6, LinkedKept
<1>13. LinkOK'
    BY <1>4, <1>12, LinkKept DEF tree
<1>14. CategoryOK'
  <2> SUFFICES ASSUME NEW m \in StaticClasses \X {"class", "meta"}
               PROVE  IF Linked(m)'
                      THEN methods'[m] = Reverse(arrived'[m]) \o <<"base">> /\ unattached'[m] = <<>>
                      ELSE methods'[m] = <<>> /\ unattached'[m] = arrived'[m]
    BY DEF CategoryOK
  <2>1. m \in Nodes /\ (Linked(m)' <=> Linked(m))
    BY <1>12, NodesAre DEF SameLinked
  <2>2. CASE m = n
    <3>1. ~ Linked(m)
      BY <1>2, <2>2 DEF Linked
    <3>2. methods[n] = <<>> /\ unattached[n] = arrived[n]
      BY <2>2, <3>1 DEF CategoryOK
    <3>3. unattached'[n] = arrived'[n] /\ methods'[n] = <<>>
      BY <1>4, <3>2 DEF TypeOK
    <3>4. QED
      BY <2>1, <2>2, <3>1, <3>3
  <2>3. CASE m # n
    <3>1. arrived'[m] = arrived[m] /\ unattached'[m] = unattached[m] /\ methods' = methods
      BY <1>4, <2>1, <2>3 DEF TypeOK
    <3>2. QED
      BY <2>1, <3>1 DEF CategoryOK
  <2>4. QED
    BY <2>2, <2>3
<1>15. FlushOK'
    BY <1>4, <1>5, <1>6, <1>7, FlushKept DEF tree
<1>16. QED
    BY <1>8, <1>9, <1>10, <1>11, <1>13, <1>14, <1>15

\* The category is attached, and the caches below are flushed.
LEMMA AddCategoryFlushes ==
    ASSUME IInv, AddCategory, isRealized(It.node)
    PROVE  IInv'
<1> USE DEF IInv
<1>1. /\ todo # <<>> /\ It.task = "category" /\ It \in Task
      /\ 1 \in DOMAIN todo /\ todo[1] = It /\ ~ Free
      /\ \A k \in DOMAIN todo : k \in Nat /\ todo[k] \in Task
    BY TaskDone DEF AddCategory, Doing, It
<1>2. PICK n \in Nodes : n = It.node /\ n[1] \in StaticClasses
    BY <1>1, TaskIs
<1>3. PICK cat \in DOMAIN ClassOf : cat = It.cat
    BY <1>1, TaskIs
<1>4. PICK flush : flush = FlushTask(n)
    OBVIOUS
<1>5. flush \in Task /\ flush.task = "flush" /\ flush.top = n /\ flush.node = n
    BY <1>4 DEF FlushTask, Task
<1>6. /\ arrived' = [arrived EXCEPT ![n] = Append(@, cat)]
      /\ methods' = [methods EXCEPT ![n] = NewestFirst(Append(unattached[n], cat)) \o @]
      /\ unattached' = [unattached EXCEPT ![n] = <<>>]
      /\ stale' = stale \cup Below(superclass, n)
      /\ todo' = <<flush>> \o Tail(todo)
      /\ UNCHANGED <<runtimeLock, op, flags, tree, tables, mapped, name, named, sent>>
    BY <1>2, <1>3, <1>4 DEF AddCategory, It
<1>7. /\ todo' \in Seq(Task) /\ 1 \in DOMAIN todo' /\ todo'[1] = flush
      /\ \A k \in DOMAIN todo' : k \in Nat /\ todo'[k] \in Task
      /\ \A k \in DOMAIN todo' : k = 1 \/ \E j \in DOMAIN todo : todo'[k] = todo[j]
      /\ \A k \in DOMAIN todo : k = 1 \/ \E j \in DOMAIN todo' : todo'[j] = todo[k]
  <2>1. PICK u \in Seq(Task) : u = <<flush>>
    <3>1. <<flush>> \in Seq(Task)
      BY <1>5, OneInARow
    <3>2. QED
      BY <3>1
  <2>2. Len(u) = 1 /\ u[1] = flush
    BY <2>1
  <2>3. PICK m \in Nat : m = 1
    OBVIOUS
  <2>4. /\ todo' \in Seq(Task) /\ \A k \in DOMAIN todo' : k \in Nat /\ todo'[k] \in Task
        /\ \A k \in 1..m : k \in DOMAIN todo' /\ todo'[k] = u[k]
        /\ \A k \in DOMAIN todo' :
              \/ k \in 1..m
              \/ k > m /\ (k - m) + 1 \in DOMAIN todo /\ todo'[k] = todo[(k - m) + 1]
        /\ \A k \in DOMAIN todo : k = 1 \/ \E j \in DOMAIN todo' : todo'[j] = todo[k]
    BY <1>1, <1>6, <2>1, <2>2, <2>3, TasksPut
  <2>5. \A k \in DOMAIN todo' : k = 1 \/ \E j \in DOMAIN todo : todo'[k] = todo[j]
    BY <2>3, <2>4
  <2>6. 1 \in 1..m
    BY <2>3
  <2>7. QED
    BY <2>2, <2>4, <2>5, <2>6
<1>8. /\ \A k \in DOMAIN todo : todo[k].task \in Late
      /\ \A k \in DOMAIN todo' : todo'[k].task \in Late
  <2>1. It.task \in Late /\ flush.task \in Late
    BY <1>1, <1>5 DEF Late
  <2>2. \A k \in DOMAIN todo : k = 1 \/ k > 1
    <3>1. todo \in Seq(Task)
      BY DEF TypeOK
    <3>2. QED
      BY <3>1
  <2>3. \A k \in DOMAIN todo : todo[k].task \in Late
    BY <1>1, <2>1, <2>2 DEF TodoOK
  <2>4. QED
    BY <1>7, <2>1, <2>3
<1>9. SameFlags
    BY <1>6, SameIfUnchanged
<1>10. /\ SameConnect /\ \A m : ~ ToRealize(m)
       /\ \A m : ~ ToConnect(m)
    BY <1>8 DEF SameConnect, ToConnect, ToRealize, Late
<1>11. SameLinked
    BY <1>9, <1>10, LinkedKept
<1>12. Linked(n)
    BY <1>2, <1>10 DEF Linked
<1>13. /\ methods[n] = Reverse(arrived[n]) \o <<"base">> /\ unattached[n] = <<>>
  <2>1. n \in StaticClasses \X {"class", "meta"}
    BY <1>2, NodesAre
  <2>2. QED
    BY <1>12, <2>1 DEF CategoryOK
<1>14. /\ methods' = [methods EXCEPT ![n] = Reverse(arrived'[n]) \o <<"base">>]
       /\ methods' \in [Nodes -> Seq(DOMAIN ClassOf \cup {"base"})]
  <2>1. PICK h : h = NewestFirst(Append(<<>>, cat))
    OBVIOUS
  <2>2. PICK r : r = Reverse(arrived[n])
    OBVIOUS
  <2>3. arrived[n] \in Seq(DOMAIN ClassOf) /\ arrived'[n] = Append(arrived[n], cat)
    BY <1>6 DEF TypeOK
  <2>4. h \in Seq(DOMAIN ClassOf) /\ r \in Seq(DOMAIN ClassOf) /\ Reverse(arrived'[n]) = h \o r
    BY <2>1, <2>2, <2>3, ReverseIs
  <2>5. PICK S : S = DOMAIN ClassOf \cup {"base"}
    OBVIOUS
  <2>6. PICK b : b = <<"base">>
    OBVIOUS
  <2>7. h \in Seq(S) /\ r \in Seq(S) /\ b \in Seq(S)
    BY <2>4, <2>5, <2>6, SeqOfMore
  <2>8. (h \o r) \o b = h \o (r \o b)
    BY <2>7, Associative
  <2>9. (h \o r) \o b \in Seq(S)
    <3>1. h \o r \in Seq(S)
      BY <2>7, PutBefore
    <3>2. QED
      BY <2>7, <3>1, PutBefore
  <2>10. methods' = [methods EXCEPT ![n] = h \o (r \o b)]
    BY <1>6, <1>13, <2>1, <2>2, <2>6 DEF TypeOK
  <2>11. methods \in [Nodes -> Seq(S)]
    BY <2>5 DEF TypeOK
  <2>12. QED
    BY <2>4, <2>5, <2>6, <2>8, <2>9, <2>10, <2>11
<1>15. TypeOK'
  <2>1. arrived' \in [Nodes -> Seq(DOMAIN ClassOf)]
    BY <1>6 DEF TypeOK
  <2>2. unattached' \in [Nodes -> Seq(DOMAIN ClassOf)]
    BY <1>6 DEF TypeOK
  <2>3. stale' \subseteq Nodes
    BY <1>6 DEF TypeOK, Below
  <2>4. QED
    BY <1>6, <1>7, <1>14, <2>1, <2>2, <2>3 DEF TypeOK, tree, tables
<1>16. TodoOK'
    BY <1>1, <1>6, <1>8, AllLate DEF Free
<1>17. PairOK' /\ TreeOK' /\ UseOK' /\ NameOK'
    BY <1>6, <1>9, PairKept, TreeKept, UseKept, NameKept DEF tree, tables
<1>18. UpOK'
    BY <1>6, <1>9, <1>10, UpKept DEF tree, tables
<1>19. CategoryOK'
  <2> SUFFICES ASSUME NEW m \in StaticClasses \X {"class", "meta"}
               PROVE  IF Linked(m)'
                      THEN methods'[m] = Reverse(arrived'[m]) \o <<"base">> /\ unattached'[m] = <<>>
                      ELSE methods'[m] = <<>> /\ unattached'[m] = arrived'[m]
    BY DEF CategoryOK
  <2>1. m \in Nodes /\ (Linked(m)' <=> Linked(m))
    BY <1>11, NodesAre DEF SameLinked
  <2>2. CASE m = n
    <3>1. methods'[n] = Reverse(arrived'[n]) \o <<"base">> /\ unattached'[n] = <<>>
      BY <1>6, <1>14 DEF TypeOK
    <3>2. QED
      BY <1>12, <2>1, <2>2, <3>1
  <2>3. CASE m # n
    <3>1. arrived'[m] = arrived[m] /\ unattached'[m] = unattached[m] /\ methods'[m] = methods[m]
      BY <1>6, <2>1, <2>3 DEF TypeOK
    <3>2. QED
      BY <2>1, <3>1 DEF CategoryOK
  <2>4. QED
    BY <2>2, <2>3
<1>20. LinkOK' /\ \A list : SubclassesAre(list)' <=> SubclassesAre(list)
    BY <1>6, <1>11, LinkKept DEF tree
<1>21. FlushOK'
  <2>1. superclass' = superclass /\ superclass \in [Nodes -> Nodes \cup {NULL}]
    BY <1>6 DEF tree, TypeOK
  <2>2. \A list, top, node : Remaining(list, top, node)' = Remaining(list, top, node)
    BY <2>1 DEF Remaining, Before, UpTo
  <2>3. ASSUME NEW k \in DOMAIN todo', todo'[k].task = "flush"
        PROVE  /\ isRealized(todo'[k].node)
               /\ todo'[k].top \in Above(superclass, todo'[k].node)
    <3>1. CASE k = 1
      BY <1>2, <1>5, <1>7, <2>1, <3>1, AboveIs
    <3>2. CASE k # 1
      BY <1>7, <2>3, <3>2 DEF FlushOK
    <3>3. QED
      BY <3>1, <3>2
  <2>4. ASSUME NEW list, SubclassesAre(list), NEW m \in stale'
        PROVE  /\ isRealized(m)
               /\ \E k \in DOMAIN todo' : /\ todo'[k].task = "flush"
                                          /\ m \in Remaining(list, todo'[k].top, todo'[k].node)
    <3>1. CASE m \in stale
      <4>1. PICK k \in DOMAIN todo : /\ todo[k].task = "flush"
                                     /\ m \in Remaining(list, todo[k].top, todo[k].node)
        BY <2>4, <3>1 DEF FlushOK
      <4>2. k # 1
        BY <1>1, <4>1
      <4>3. PICK j \in DOMAIN todo' : todo'[j] = todo[k]
        BY <1>7, <4>2
      <4>4. isRealized(m)
        BY <2>4, <3>1 DEF FlushOK
      <4>5. QED
        BY <4>1, <4>3, <4>4
    <3>2. CASE m \in Below(superclass, n)
      <4>1. m \in Nodes /\ isRealized(m) /\ n \in Above(superclass, m)
        BY <3>2 DEF Below
      <4>2. m \in Remaining(list, n, n)
        BY <4>1 DEF Remaining
      <4>3. QED
        BY <1>5, <1>7, <4>1, <4>2
    <3>3. QED
      BY <1>6, <3>1, <3>2
  <2>5. \A m \in Nodes : isRealized(m)' <=> isRealized(m)
    BY <1>9 DEF SameFlags
  <2>6. \A m : flags'[m] = flags[m]
    BY <1>6
  <2>7. QED
    BY <1>20, <2>1, <2>2, <2>3, <2>4, <2>6 DEF FlushOK, isRealized
<1>22. QED
    BY <1>15, <1>16, <1>17, <1>18, <1>19, <1>20, <1>21

-----------------------------------------------------------------------------
(* Flush: the walk over the subclasses of a class.                          *)

\* Without a class left to realize, all that is above a realized class is.
LEMMA RealizedUp ==
    ASSUME TypeOK, UpOK, \A n : ~ ToRealize(n), NEW m \in Nodes, isRealized(m)
    PROVE  \A a \in Above(superclass, m) : a \in Nodes /\ isRealized(a)
<1>1. superclass \in [Nodes -> Nodes \cup {NULL}]
    BY DEF TypeOK
<1>2. PICK S \in SUBSET Nodes : S = {a \in Nodes : isRealized(a)}
    OBVIOUS
<1>3. m \in S
    BY <1>2
<1>4. \A a \in S \cap Above(superclass, m) : superclass[a] # NULL => superclass[a] \in S
    BY <1>1, <1>2 DEF UpOK
<1>5. Above(superclass, m) \subseteq S
    BY <1>1, <1>3, <1>4, AboveIs
<1>6. QED
    BY <1>2, <1>5

\* Going up as far as top.
LEMMA UpToIs ==
    ASSUME TypeOK, NEW top \in Nodes
    PROVE  /\ UpTo(top) \in [Nodes -> Nodes \cup {NULL}] /\ UpTo(top)[top] = NULL
           /\ \A n \in Nodes : n # top => UpTo(top)[n] = superclass[n]
           /\ Above(UpTo(top), top) = {top}
<1>1. PICK up : up = UpTo(top)
    OBVIOUS
<1>2. /\ up \in [Nodes -> Nodes \cup {NULL}] /\ up[top] = NULL
      /\ \A n \in Nodes : n # top => up[n] = superclass[n]
    BY <1>1 DEF UpTo, TypeOK
<1>3. \A a \in Above(up, top) : a = top
    BY <1>2, AboveSteps
<1>4. top \in Above(up, top)
    BY <1>2, AboveIs
<1>5. QED
    BY <1>1, <1>2, <1>3, <1>4

\* On the way up to top, top is above.
LEMMA TopIsAbove ==
    ASSUME TypeOK, NEW top \in Nodes, NEW node \in Nodes, top \in Above(superclass, node),
           NEW y \in Above(UpTo(top), node)
    PROVE  /\ y \in Nodes /\ top \in Above(superclass, y)
           /\ y # top => superclass[y] \in Nodes /\ top \in Above(superclass, superclass[y])
<1>1. superclass \in [Nodes -> Nodes \cup {NULL}]
    BY DEF TypeOK
<1>2. PICK up : up = UpTo(top)
    OBVIOUS
<1>3. /\ up \in [Nodes -> Nodes \cup {NULL}] /\ up[top] = NULL
      /\ \A n \in Nodes : n # top => up[n] = superclass[n]
    BY <1>2, UpToIs
<1>4. PICK S \in SUBSET Nodes : S = {a \in Nodes : top \in Above(superclass, a)}
    OBVIOUS
<1>5. \A a \in S : a # top => superclass[a] # NULL /\ top \in Above(superclass, superclass[a])
    BY <1>1, <1>4, AboveSteps
<1>6. \A a \in S \cap Above(up, node) : up[a] # NULL => up[a] \in S
    BY <1>1, <1>3, <1>4, <1>5
<1>7. Above(up, node) \subseteq S
    BY <1>3, <1>4, <1>6, AboveIs
<1>8. y \in S
    BY <1>2, <1>7
<1>9. QED
    BY <1>1, <1>4, <1>5, <1>8

\* Where the walk over the realized subclasses of top climbs to from node.
LEMMA ClimbIs ==
    ASSUME TypeOK, NEW top \in Nodes, NEW node \in Nodes, top \in Above(superclass, node),
           NEW last, last = Climb(top, node)
    PROVE  /\ last \in Nodes /\ last \in Above(superclass, node) /\ top \in Above(superclass, last)
           /\ last = top \/ nextSibling[last] # NULL
           /\ \A y : Before(top, node, y) => \/ y \in Nodes /\ nextSibling[y] = NULL
                                             \/ last # top /\ Before(top, last, y)
<1>1. superclass \in [Nodes -> Nodes \cup {NULL}]
    BY DEF TypeOK
<1>2. PICK N \in Nat : N = Cardinality(Nodes)
    BY NodesAre
<1>3. PICK walk : walk = Walk(node, superclass)
    OBVIOUS
<1>4. /\ walk \in [0..N -> Nodes \cup {NULL}] /\ walk[0] = node
      /\ \A d \in 0..N - 1 : walk[d + 1] = IF walk[d] = NULL THEN NULL ELSE superclass[walk[d]]
    BY <1>1, <1>2, <1>3, WalkIs
<1>5. Above(superclass, node) = Range(walk) \ {NULL}
    BY <1>3 DEF Above
<1> DEFINE stops(d) == walk[d] = top \/ nextSibling[walk[d]] # NULL
           least(d) == stops(d) /\ \A e \in 0..d - 1 : ~ stops(e)
<1>6. PICK D \in 0..N : least(D) /\ last = walk[D]
  <2>1. PICK d \in 0..N : walk[d] = top
    BY <1>4, <1>5 DEF Range
  <2>2. PICK S \in SUBSET Nat : S = {e \in 0..N : stops(e)}
    <3>1. {e \in 0..N : stops(e)} \subseteq Nat
      <4> HIDE DEF stops
      <4>1. QED
        OBVIOUS
    <3>2. QED
      BY <3>1
  <2>3. d \in S
    BY <2>1, <2>2
  <2>4. PICK e \in S : \A i \in S : e <= i
    BY <2>3, LeastNumber
  <2>5. e \in 0..N /\ least(e)
    <3>1. \A i \in 0..e - 1 : i \in 0..N /\ ~ (e <= i)
      BY <2>2, <2>4
    <3>2. QED
      BY <2>2, <2>4, <3>1
  <2>6. last = walk[CHOOSE i \in 0..N : least(i)]
    BY <1>2, <1>3 DEF Climb
  <2>7. QED
    BY <2>5, <2>6
<1>7. \A d \in 0..D - 1 : walk[d] # top /\ nextSibling[walk[d]] = NULL
    BY <1>6
<1>8. PICK passed : passed = {walk[d] : d \in 0..D - 1}
    OBVIOUS
<1>9. walk[D] # NULL
  <2> SUFFICES ASSUME walk[D] = NULL
               PROVE  FALSE
    OBVIOUS
  <2>1. PICK S \in SUBSET Nodes : S = {a \in passed : a # NULL}
    <3>1. {a \in passed : a # NULL} \subseteq Nodes
      BY <1>4, <1>6, <1>8
    <3>2. QED
      BY <3>1
  <2>2. D # 0 /\ 0 \in 0..D - 1
    BY <1>4, <1>6, NodesAre
  <2>3. node \in S
    BY <1>4, <1>8, <2>1, <2>2, NodesAre
  <2>4. \A a \in S : superclass[a] # NULL => superclass[a] \in S
    <3> SUFFICES ASSUME NEW d \in 0..D - 1, walk[d] # NULL, superclass[walk[d]] # NULL
                 PROVE  superclass[walk[d]] \in S
      BY <1>8, <2>1
    <3>1. d \in 0..N - 1 /\ walk[d + 1] = superclass[walk[d]]
      BY <1>4, <1>6
    <3>2. d + 1 # D
      BY <3>1
    <3>3. d + 1 \in 0..D - 1
      BY <1>6, <3>2
    <3>4. QED
      BY <1>8, <2>1, <3>1, <3>3
  <2>5. top \in S
    BY <1>1, <2>3, <2>4, AboveIs
  <2>6. QED
    BY <1>7, <1>8, <2>1, <2>5
<1>10. last \in Nodes /\ last \in Above(superclass, node)
    BY <1>4, <1>5, <1>6, <1>9 DEF Range
<1>11. last = top \/ nextSibling[last] # NULL
    BY <1>6
<1>12. ASSUME NEW d \in 0..D - 1, NEW T, last \in T, \A e \in 0..D - 1 : walk[e] \in T,
              superclass[walk[d]] # NULL
       PROVE  superclass[walk[d]] \in T
  <2>1. d \in 0..N - 1 /\ walk[d] # NULL
    <3>1. d \in 0..N - 1
      BY <1>6
    <3>2. ASSUME walk[d] = NULL
          PROVE  FALSE
      <4>1. PICK Q \in SUBSET (0..D) : Q = {e \in 0..D : e < d \/ walk[e] = NULL}
        OBVIOUS
      <4>2. 0 \in Q
        <5>1. d # 0
          BY <1>4, <3>2, NodesAre
        <5>2. QED
          BY <1>6, <4>1, <5>1
      <4>3. \A e \in 0..D : e \in Q /\ e < D => e + 1 \in Q
        BY <1>4, <1>6, <3>2, <4>1
      <4>4. Q = 0..D
        BY <1>6, <4>2, <4>3, PrefixInduction
      <4>5. D \in Q
        BY <1>6, <4>4
      <4>6. QED
        BY <1>9, <4>1, <4>5
    <3>3. QED
      BY <3>1, <3>2
  <2>2. walk[d + 1] = superclass[walk[d]]
    BY <1>4, <2>1
  <2>3. CASE d + 1 = D
    BY <1>6, <1>12, <2>2, <2>3
  <2>4. CASE d + 1 # D
    <3>1. d + 1 \in 0..D - 1
      BY <1>6, <2>4
    <3>2. QED
      BY <1>12, <2>2, <3>1
  <2>5. QED
    BY <2>3, <2>4
<1>13. node \in passed \/ node = last
  <2>1. CASE D = 0
    BY <1>4, <1>6, <2>1
  <2>2. CASE D # 0
    <3>1. 0 \in 0..D - 1
      BY <1>6, <2>2
    <3>2. QED
      BY <1>4, <1>8, <3>1
  <2>3. QED
    BY <2>1, <2>2
<1>14. top \in Above(superclass, last)
  <2>1. PICK T : T = passed \cup Above(superclass, last)
    OBVIOUS
  <2>2. last \in Above(superclass, last) /\ last \in T /\ \A e \in 0..D - 1 : walk[e] \in T
    BY <1>1, <1>8, <1>10, <2>1, AboveIs
  <2>3. node \in T
    BY <1>13, <2>1, <2>2
  <2>4. \A a \in T : superclass[a] # NULL => superclass[a] \in T
    <3> SUFFICES ASSUME NEW a \in T, superclass[a] # NULL
                 PROVE  superclass[a] \in T
      OBVIOUS
    <3>1. CASE a \in passed
      <4>1. PICK d \in 0..D - 1 : a = walk[d]
        BY <1>8, <3>1
      <4>2. QED
        BY <1>12, <2>2, <4>1
    <3>2. CASE a \in Above(superclass, last)
      BY <1>1, <1>10, <2>1, <3>2, AboveIs
    <3>3. QED
      BY <2>1, <3>1, <3>2
  <2>5. top \in T
    BY <1>1, <2>3, <2>4, AboveIs
  <2>6. top \notin passed
    BY <1>7, <1>8
  <2>7. QED
    BY <2>1, <2>5, <2>6
<1>15. ASSUME NEW y, Before(top, node, y)
       PROVE  (y \in Nodes /\ nextSibling[y] = NULL) \/ (last # top /\ Before(top, last, y))
  <2>1. PICK up : up = UpTo(top)
    OBVIOUS
  <2>2. /\ up \in [Nodes -> Nodes \cup {NULL}] /\ up[top] = NULL /\ Above(up, top) = {top}
        /\ \A n \in Nodes : n # top => up[n] = superclass[n]
    BY <2>1, UpToIs
  <2>3. y # top /\ y \in Above(up, node)
    BY <1>15, <2>1 DEF Before
  <2>4. PICK T : T = passed \cup Above(up, last)
    OBVIOUS
  <2>5. last \in Above(up, last) /\ last \in T /\ \A e \in 0..D - 1 : walk[e] \in T
    BY <1>8, <1>10, <2>2, <2>4, AboveIs
  <2>6. node \in T
    BY <1>13, <2>4, <2>5
  <2>7. \A a \in T \cap Above(up, node) : up[a] # NULL => up[a] \in T
    <3> SUFFICES ASSUME NEW a \in T, a \in Above(up, node), up[a] # NULL
                 PROVE  up[a] \in T
      OBVIOUS
    <3>1. a \in Nodes
      BY <2>2, AboveIs
    <3>2. CASE a \in passed
      <4>1. PICK d \in 0..D - 1 : a = walk[d]
        BY <1>8, <3>2
      <4>2. up[a] = superclass[a]
        BY <1>7, <2>2, <3>1, <4>1
      <4>3. QED
        BY <1>12, <2>5, <4>1, <4>2
    <3>3. CASE a \in Above(up, last)
      BY <1>10, <2>2, <2>4, <3>3, AboveIs
    <3>4. QED
      BY <2>4, <3>2, <3>3
  <2>8. y \in T /\ y \in Nodes
    BY <2>2, <2>3, <2>6, <2>7, AboveIs
  <2>9. CASE y \in passed
    BY <1>7, <1>8, <2>8, <2>9
  <2>10. CASE y \in Above(up, last)
    BY <2>1, <2>2, <2>3, <2>10 DEF Before
  <2>11. QED
    BY <2>4, <2>8, <2>9, <2>10
<1>16. QED
    BY <1>10, <1>11, <1>14, <1>15

\* The lists once every class that is realized is connected.
AllLinked == TypeOK /\ UpOK /\ \A n : ~ ToRealize(n) /\ ~ ToConnect(n)

\* A realized subclass has its place in the list.
LEMMA SubclassIsListed ==
    ASSUME AllLinked, NEW list, SubclassesAre(list), NEW x \in Nodes, NEW m \in Nodes,
           isRealized(m), superclass[m] = x
    PROVE  \E k \in 1..Len(list[x]) : list[x][k] = m
<1>1. m \in Range(list[x])
    BY DEF AllLinked, SubclassesAre, Linked
<1>2. DOMAIN list[x] = 1..Len(list[x])
    BY ListIs DEF SubclassesAre
<1>3. QED
    BY <1>1, <1>2 DEF Range

\* What is in a list is a realized subclass, and its sibling comes next.
LEMMA ListedIs ==
    ASSUME AllLinked, NEW list, SubclassesAre(list), NEW x \in Nodes, NEW k \in DOMAIN list[x]
    PROVE  /\ list[x][k] \in Nodes /\ isRealized(list[x][k]) /\ superclass[list[x][k]] = x
           /\ k \in 1..Len(list[x]) /\ Len(list[x]) \in Nat
           /\ nextSibling[list[x][k]] = IF k = Len(list[x]) THEN NULL ELSE list[x][k + 1]
<1>1. /\ DOMAIN list[x] = 1..Len(list[x]) /\ Len(list[x]) \in Nat
      /\ Links.next[list[x][k]] = IF k = Len(list[x]) THEN NULL ELSE list[x][k + 1]
  <2>1. PICK links : links = Links
    OBVIOUS
  <2>2. Lists(list, links)
    BY <2>1 DEF SubclassesAre
  <2>3. DOMAIN list[x] = 1..Len(list[x]) /\ Len(list[x]) \in Nat
    BY <2>2, ListIs
  <2>4. k \in 1..Len(list[x])
    BY <2>3
  <2>5. links.next[list[x][k]] = IF k = Len(list[x]) THEN NULL ELSE list[x][k + 1]
    BY <2>2, <2>4, ListIs
  <2>6. QED
    BY <2>1, <2>3, <2>5
<1>2. list[x][k] \in Range(list[x])
    BY DEF Range
<1>3. QED
    BY <1>1, <1>2 DEF SubclassesAre, Links, Linked

\* What is yet to come is below top.
LEMMA SiblingsAreBelow ==
    ASSUME AllLinked, NEW list, SubclassesAre(list), NEW top \in Nodes, NEW node \in Nodes,
           top \in Above(superclass, node), NEW x \in Nodes, NEW j \in DOMAIN list[x],
           NEW k \in DOMAIN list[x], Before(top, node, list[x][j]),
           NEW m \in Nodes, list[x][k] \in Above(superclass, m)
    PROVE  top \in Above(superclass, m)
<1>1. superclass \in [Nodes -> Nodes \cup {NULL}] /\ TypeOK
    BY DEF AllLinked, TypeOK
<1>2. superclass[list[x][j]] = x /\ superclass[list[x][k]] = x
    BY ListedIs
<1>3. top \in Above(superclass, x)
    BY <1>1, <1>2, TopIsAbove DEF Before
<1>4. x \in Above(superclass, m)
    BY <1>1, <1>2, AboveIs, NodesAre
<1>5. QED
    BY <1>1, <1>3, <1>4, AboveSteps

\* Who is on the way up from n is on the way up from what is below n.
LEMMA BeforeBelow ==
    ASSUME TypeOK, NEW top \in Nodes, NEW c \in Nodes, c # top, superclass[c] # NULL,
           NEW y, Before(top, superclass[c], y)
    PROVE  Before(top, c, y)
<1>1. PICK up : up = UpTo(top)
    OBVIOUS
<1>2. up \in [Nodes -> Nodes \cup {NULL}] /\ up[c] = superclass[c]
    BY <1>1, UpToIs
<1>3. PICK x \in Nodes : x = superclass[c]
    BY DEF TypeOK
<1>4. x \in Above(up, c)
    BY <1>2, <1>3, AboveIs
<1>5. Above(up, x) \subseteq Above(up, c)
    BY <1>2, <1>4, AboveSteps
<1>6. y # top /\ y \in Above(up, x)
    BY <1>1, <1>3 DEF Before
<1>7. QED
    BY <1>1, <1>5, <1>6 DEF Before

\* A class other than top is on its own way up.
LEMMA BeforeItself ==
    ASSUME TypeOK, NEW top \in Nodes, NEW c \in Nodes, c # top
    PROVE  Before(top, c, c)
BY UpToIs, AboveIs DEF Before

\* From a class to its first subclass.
LEMMA DownIs ==
    ASSUME AllLinked, NEW list, SubclassesAre(list), NEW top \in Nodes, NEW node \in Nodes,
           isRealized(node), top \in Above(superclass, node), firstSubclass[node] # NULL,
           NEW c, c = firstSubclass[node]
    PROVE  /\ c \in Nodes /\ isRealized(c) /\ top \in Above(superclass, c)
           /\ \A m \in Remaining(list, top, node) : isRealized(m) /\ m # node =>
                 m \in Remaining(list, top, c)
<1>1. TypeOK /\ superclass \in [Nodes -> Nodes \cup {NULL}]
    BY DEF AllLinked, TypeOK
<1>2. 1 \in DOMAIN list[node] /\ list[node][1] = c
  <2>1. Links.first[node] = IF Len(list[node]) = 0 THEN NULL ELSE list[node][1]
    BY ListIs DEF SubclassesAre
  <2>2. Len(list[node]) \in Nat /\ DOMAIN list[node] = 1..Len(list[node])
    BY ListIs DEF SubclassesAre
  <2>3. QED
    BY <2>1, <2>2 DEF Links
<1>3. c \in Nodes /\ isRealized(c) /\ superclass[c] = node
    BY <1>2, ListedIs
<1>4. node \in Above(superclass, c)
    BY <1>1, <1>3, AboveIs, NodesAre
<1>5. top \in Above(superclass, c)
    BY <1>1, <1>3, <1>4, AboveSteps
<1>6. ASSUME NEW m \in Remaining(list, top, node), isRealized(m), m # node
      PROVE  m \in Remaining(list, top, c)
  <2>1. m \in Nodes
    BY DEF Remaining
  <2>2. CASE top \in Above(superclass, m) /\ c = top
    BY <2>1, <2>2 DEF Remaining
  <2>3. CASE node \in Above(superclass, m)
    <3>1. PICK b \in Above(superclass, m) : superclass[b] = node
      BY <1>1, <1>6, <2>1, <2>3, AboveSteps
    <3>2. b \in Nodes /\ isRealized(b)
      BY <1>6, <2>1, RealizedUp DEF AllLinked
    <3>3. PICK k \in 1..Len(list[node]) : list[node][k] = b
      BY <3>1, <3>2, SubclassIsListed
    <3>4. CASE k = 1
      BY <1>2, <2>1, <3>1, <3>3, <3>4 DEF Remaining
    <3>5. CASE k # 1
      <4>1. k \in DOMAIN list[node] /\ 1 < k
        BY <3>3, <3>5, ListIs DEF SubclassesAre
      <4>2. CASE c = top
        <5>1. top \in Above(superclass, m)
          BY <1>1, <2>1, <2>3, AboveSteps
        <5>2. QED
          BY <2>2, <4>2, <5>1
      <4>3. CASE c # top
        <5>1. Before(top, c, list[node][1])
          BY <1>1, <1>2, <1>3, <4>3, BeforeItself
        <5>2. QED
          BY <1>2, <2>1, <3>1, <3>3, <4>1, <5>1 DEF Remaining
      <4>4. QED
        BY <4>2, <4>3
    <3>6. QED
      BY <3>4, <3>5
  <2>4. CASE node \notin Above(superclass, m)
    <3>1. PICK x \in Nodes : \E j, k \in DOMAIN list[x] :
              j < k /\ Before(top, node, list[x][j]) /\ list[x][k] \in Above(superclass, m)
      BY <2>4 DEF Remaining
    <3>2. PICK j \in DOMAIN list[x], k \in DOMAIN list[x] :
              j < k /\ Before(top, node, list[x][j]) /\ list[x][k] \in Above(superclass, m)
      BY <3>1
    <3>3. CASE c = top
      <4>1. top \in Above(superclass, m)
        BY <2>1, <3>2, SiblingsAreBelow
      <4>2. QED
        BY <2>2, <3>3, <4>1
    <3>4. CASE c # top
      <4>1. Before(top, c, list[x][j])
        BY <1>1, <1>3, <3>2, <3>4, BeforeBelow, NodesAre
      <4>2. QED
        BY <2>1, <3>2, <4>1 DEF Remaining
    <3>5. QED
      BY <3>3, <3>4
  <2>5. QED
    BY <2>3, <2>4
<1>7. QED
    BY <1>3, <1>5, <1>6

\* What is left after a class without subclasses.
LEMMA LeftIs ==
    ASSUME AllLinked, NEW list, SubclassesAre(list), NEW top \in Nodes, NEW node \in Nodes,
           isRealized(node), top \in Above(superclass, node), firstSubclass[node] = NULL,
           NEW last, last = Climb(top, node),
           NEW m \in Remaining(list, top, node), isRealized(m), m # node
    PROVE  \E x \in Nodes : \E j, k \in DOMAIN list[x] :
              /\ j < k /\ Before(top, last, list[x][j]) /\ list[x][k] \in Above(superclass, m)
              /\ last # top /\ top \in Above(superclass, m)
<1>1. TypeOK /\ superclass \in [Nodes -> Nodes \cup {NULL}]
    BY DEF AllLinked, TypeOK
<1>2. m \in Nodes
    BY DEF Remaining
<1>3. node \notin Above(superclass, m)
  <2> SUFFICES ASSUME node \in Above(superclass, m)
               PROVE  FALSE
    OBVIOUS
  <2>1. PICK b \in Above(superclass, m) : superclass[b] = node
    BY <1>1, <1>2, AboveSteps
  <2>2. b \in Nodes /\ isRealized(b)
    BY <1>2, RealizedUp DEF AllLinked
  <2>3. PICK k \in 1..Len(list[node]) : list[node][k] = b
    BY <2>1, <2>2, SubclassIsListed
  <2>4. Links.first[node] = IF Len(list[node]) = 0 THEN NULL ELSE list[node][1]
    BY ListIs DEF SubclassesAre
  <2>5. /\ Len(list[node]) \in Nat
        /\ \A i \in 1..Len(list[node]) : list[node][i] \in Nodes
    BY ListIs DEF SubclassesAre
  <2>6. QED
    BY <2>3, <2>4, <2>5, NodesAre DEF Links
<1>4. PICK x \in Nodes : \E j, k \in DOMAIN list[x] :
          j < k /\ Before(top, node, list[x][j]) /\ list[x][k] \in Above(superclass, m)
    BY <1>3 DEF Remaining
<1>5. PICK j \in DOMAIN list[x], k \in DOMAIN list[x] :
          j < k /\ Before(top, node, list[x][j]) /\ list[x][k] \in Above(superclass, m)
    BY <1>4
<1>6. top \in Above(superclass, m)
    BY <1>2, <1>5, SiblingsAreBelow
<1>7. PICK y : y = list[x][j]
    OBVIOUS
<1>8. nextSibling[y] # NULL
  <2>1. /\ k \in 1..Len(list[x]) /\ j \in 1..Len(list[x]) /\ Len(list[x]) \in Nat
        /\ nextSibling[y] = IF j = Len(list[x]) THEN NULL ELSE list[x][j + 1]
    BY <1>7, ListedIs
  <2>2. j # Len(list[x]) /\ j + 1 \in 1..Len(list[x])
    BY <1>5, <2>1
  <2>3. list[x][j + 1] \in Nodes
    BY <2>2, ListIs DEF SubclassesAre
  <2>4. QED
    BY <2>1, <2>2, <2>3, NodesAre
<1>9. last # top /\ Before(top, last, y)
    BY <1>1, <1>5, <1>7, <1>8, ClimbIs
<1>10. QED
    BY <1>5, <1>6, <1>7, <1>9

\* From a class without subclasses to the next sibling on the way up.
LEMMA AcrossIs ==
    ASSUME AllLinked, NEW list, SubclassesAre(list), NEW top \in Nodes, NEW node \in Nodes,
           isRealized(node), top \in Above(superclass, node), firstSubclass[node] = NULL,
           NEW last, last = Climb(top, node), last # top, NEW c, c = nextSibling[last]
    PROVE  /\ c \in Nodes /\ isRealized(c) /\ top \in Above(superclass, c)
           /\ \A m \in Remaining(list, top, node) : isRealized(m) /\ m # node =>
                 m \in Remaining(list, top, c)
<1>1. TypeOK /\ superclass \in [Nodes -> Nodes \cup {NULL}]
    BY DEF AllLinked, TypeOK
<1>2. /\ last \in Nodes /\ last \in Above(superclass, node) /\ top \in Above(superclass, last)
      /\ nextSibling[last] # NULL
    BY <1>1, ClimbIs
<1>3. isRealized(last)
    BY <1>2, RealizedUp DEF AllLinked
<1>4. PICK x0 \in Nodes : x0 = superclass[last] /\ top \in Above(superclass, x0)
    BY <1>1, <1>2, AboveSteps
<1>5. PICK j0 \in 1..Len(list[x0]) : list[x0][j0] = last
    BY <1>2, <1>3, <1>4, SubclassIsListed
<1>6. /\ j0 \in DOMAIN list[x0] /\ j0 + 1 \in DOMAIN list[x0] /\ c = list[x0][j0 + 1]
      /\ DOMAIN list[x0] = 1..Len(list[x0]) /\ Len(list[x0]) \in Nat
  <2>1. DOMAIN list[x0] = 1..Len(list[x0]) /\ Len(list[x0]) \in Nat
    BY ListIs DEF SubclassesAre
  <2>2. nextSibling[last] = IF j0 = Len(list[x0]) THEN NULL ELSE list[x0][j0 + 1]
    BY <1>5, <2>1, ListedIs
  <2>3. QED
    BY <1>2, <1>5, <2>1, <2>2
<1>7. c \in Nodes /\ isRealized(c) /\ superclass[c] = x0
    BY <1>6, ListedIs
<1>8. x0 \in Above(superclass, c)
    BY <1>1, <1>7, AboveIs, NodesAre
<1>9. top \in Above(superclass, c)
    BY <1>1, <1>4, <1>7, <1>8, AboveSteps
<1>10. ASSUME NEW m \in Remaining(list, top, node), isRealized(m), m # node
       PROVE  m \in Remaining(list, top, c)
  <2>1. m \in Nodes
    BY DEF Remaining
  <2>2. PICK x \in Nodes : \E j, k \in DOMAIN list[x] :
            /\ j < k /\ Before(top, last, list[x][j]) /\ list[x][k] \in Above(superclass, m)
            /\ top \in Above(superclass, m)
    BY <1>10, LeftIs
  <2>3. PICK j \in DOMAIN list[x], k \in DOMAIN list[x] :
            /\ j < k /\ Before(top, last, list[x][j]) /\ list[x][k] \in Above(superclass, m)
            /\ top \in Above(superclass, m)
    BY <2>2
  <2>4. CASE c = top
    BY <2>1, <2>3, <2>4 DEF Remaining
  <2>5. CASE c # top /\ list[x][j] = last
    <3>1. x = x0 /\ j = j0
      BY <1>5, <1>6, <2>5 DEF SubclassesAre, Lists
    <3>2. k \in 1..Len(list[x0])
      BY <1>6, <3>1
    <3>3. CASE k = j0 + 1
      BY <1>6, <2>1, <2>3, <3>1, <3>3 DEF Remaining
    <3>4. CASE k # j0 + 1
      <4>1. j0 + 1 < k
        BY <2>3, <3>1, <3>2, <3>4
      <4>2. Before(top, c, list[x0][j0 + 1])
        BY <1>1, <1>6, <1>7, <2>5, BeforeItself
      <4>3. QED
        BY <1>6, <2>1, <2>3, <3>1, <4>1, <4>2 DEF Remaining
    <3>5. QED
      BY <3>3, <3>4
  <2>6. CASE c # top /\ list[x][j] # last
    <3>1. PICK y : y = list[x][j]
      OBVIOUS
    <3>2. PICK up : up = UpTo(top)
      OBVIOUS
    <3>3. up \in [Nodes -> Nodes \cup {NULL}] /\ up[last] = x0 /\ up[c] = x0
      BY <1>1, <1>2, <1>4, <1>7, <2>6, <3>2, UpToIs
    <3>4. y # top /\ y \in Above(up, x0)
      BY <1>2, <2>3, <2>6, <3>1, <3>2, <3>3, AboveSteps DEF Before
    <3>5. Before(top, x0, y)
      BY <3>2, <3>4 DEF Before
    <3>6. Before(top, c, y)
      BY <1>1, <1>7, <2>6, <3>5, BeforeBelow, NodesAre
    <3>7. QED
      BY <2>1, <2>3, <3>1, <3>6 DEF Remaining
  <2>7. QED
    BY <2>4, <2>5, <2>6
<1>11. QED
    BY <1>7, <1>9, <1>10

\* While caches are flushed every class is connected that is realized.
LEMMA FlushingIs ==
    ASSUME IInv, todo # <<>>, It.task = "flush"
    PROVE  /\ AllLinked /\ ~ Free /\ 1 \in DOMAIN todo /\ todo[1] = It
           /\ \A k \in DOMAIN todo : k \in Nat /\ todo[k] \in Task /\ todo[k].task \in Late
           /\ It.top \in Nodes /\ It.node \in Nodes /\ isRealized(It.node)
           /\ It.top \in Above(superclass, It.node)
<1> USE DEF IInv
<1>1. /\ ~ Free /\ 1 \in DOMAIN todo /\ todo[1] = It /\ It \in Task
      /\ \A k \in DOMAIN todo : k \in Nat /\ todo[k] \in Task
    BY TaskDone
<1>2. \A k \in DOMAIN todo : todo[k].task \in Late
    BY <1>1 DEF TodoOK
<1>3. AllLinked
    BY <1>2 DEF AllLinked, ToRealize, ToConnect, Late
<1>4. It.top \in Nodes /\ It.node \in Nodes
    BY <1>1, TaskIs
<1>5. isRealized(It.node) /\ It.top \in Above(superclass, It.node)
    BY <1>1 DEF FlushOK
<1>6. QED
    BY <1>1, <1>2, <1>3, <1>4, <1>5

\* One cache less to flush.
LEMMA OneFlushed ==
    ASSUME IInv, todo # <<>>, It.task = "flush", stale' = stale \ {It.node},
           UNCHANGED <<runtimeLock, op, flags, tree, methods, unattached, tables, mapped, history>>,
           todo' \in Seq(Task), \A k \in DOMAIN todo' : todo'[k].task \in Late,
           \A k \in DOMAIN todo' : todo'[k].task = "flush" =>
              isRealized(todo'[k].node) /\ todo'[k].top \in Above(superclass, todo'[k].node),
           \A k \in DOMAIN todo : k = 1 \/ \E j \in DOMAIN todo' : todo'[j] = todo[k],
           \A list : SubclassesAre(list) =>
              \A m \in Remaining(list, It.top, It.node) : isRealized(m) /\ m # It.node =>
                 \E k \in DOMAIN todo' : /\ todo'[k].task = "flush"
                                         /\ m \in Remaining(list, todo'[k].top, todo'[k].node)
    PROVE  IInv'
<1> USE DEF IInv
<1>1. /\ AllLinked /\ ~ Free /\ todo[1] = It
      /\ \A k \in DOMAIN todo : todo[k].task \in Late
    BY FlushingIs
<1>2. SameFlags
    BY SameIfUnchanged
<1>3. SameConnect /\ \A m : ~ ToRealize(m)
    BY <1>1 DEF SameConnect, ToConnect, ToRealize, Late
<1>4. SameLinked
    BY <1>2, <1>3, LinkedKept
<1>5. TypeOK'
    BY DEF TypeOK, tree, tables, history
<1>6. TodoOK'
    BY <1>1, AllLate DEF Free
<1>7. PairOK' /\ TreeOK' /\ UseOK' /\ NameOK'
    BY <1>2, PairKept, TreeKept, UseKept, NameKept DEF tree, tables, history
<1>8. UpOK'
    BY <1>2, <1>3, UpKept DEF tree, tables
<1>9. CategoryOK' /\ LinkOK' /\ \A list : SubclassesAre(list)' <=> SubclassesAre(list)
    BY <1>4, CategoryKept, LinkKept DEF tree, history
<1>10. FlushOK'
  <2>1. superclass' = superclass /\ flags' = flags
    BY DEF tree
  <2>2. \A list, top, node : Remaining(list, top, node)' = Remaining(list, top, node)
    BY <2>1 DEF Remaining, Before, UpTo
  <2>3. ASSUME NEW list, SubclassesAre(list), NEW m \in stale'
        PROVE  /\ isRealized(m)
               /\ \E k \in DOMAIN todo' : /\ todo'[k].task = "flush"
                                          /\ m \in Remaining(list, todo'[k].top, todo'[k].node)
    <3>1. m \in stale /\ m # It.node
      OBVIOUS
    <3>2. isRealized(m)
      BY <2>3, <3>1 DEF FlushOK
    <3>3. PICK k \in DOMAIN todo : /\ todo[k].task = "flush"
                                   /\ m \in Remaining(list, todo[k].top, todo[k].node)
      BY <2>3, <3>1 DEF FlushOK
    <3>4. CASE k = 1
      BY <1>1, <2>3, <3>1, <3>2, <3>3, <3>4
    <3>5. CASE k # 1
      <4>1. PICK j \in DOMAIN todo' : todo'[j] = todo[k]
        BY <3>5
      <4>2. QED
        BY <3>2, <3>3, <4>1
    <3>6. QED
      BY <3>4, <3>5
  <2>4. QED
    BY <1>9, <2>1, <2>2, <2>3 DEF FlushOK, isRealized
<1>11. QED
    BY <1>5, <1>6, <1>7, <1>8, <1>9, <1>10

\* The walk goes on to c.
LEMMA FlushMoves ==
    ASSUME IInv, todo # <<>>, It.task = "flush", stale' = stale \ {It.node},
           UNCHANGED <<runtimeLock, op, flags, tree, methods, unattached, tables, mapped, history>>,
           NEW c \in Nodes, todo' = [todo EXCEPT ![1].node = c],
           isRealized(c), It.top \in Above(superclass, c),
           \A list : SubclassesAre(list) =>
              \A m \in Remaining(list, It.top, It.node) : isRealized(m) /\ m # It.node =>
                 m \in Remaining(list, It.top, c)
    PROVE  IInv'
<1>1. /\ 1 \in DOMAIN todo /\ todo[1] = It /\ It.top \in Nodes /\ todo \in Seq(Task)
      /\ \A k \in DOMAIN todo : k \in Nat /\ todo[k] \in Task /\ todo[k].task \in Late
    BY FlushingIs DEF IInv, TypeOK
<1>2. PICK new : new = [It EXCEPT !.node = c]
    OBVIOUS
<1>3. /\ new \in Task /\ new.task = "flush" /\ new.node = c /\ new.top = It.top
  <2>1. It \in Task
    BY <1>1
  <2>2. It \in [task : {"flush"}, top : Nodes, node : Nodes]
    BY <2>1 DEF Task
  <2>3. QED
    BY <1>2, <2>2 DEF Task
<1>4. todo' = [todo EXCEPT ![1] = new]
    BY <1>1, <1>2
<1>5. /\ todo' \in Seq(Task) /\ DOMAIN todo' = DOMAIN todo /\ todo'[1] = new
      /\ \A k \in DOMAIN todo : k # 1 => todo'[k] = todo[k]
    BY <1>1, <1>3, <1>4
<1>6. \A k \in DOMAIN todo' : todo'[k].task \in Late
    BY <1>1, <1>3, <1>5 DEF Late
<1>7. \A k \in DOMAIN todo' : todo'[k].task = "flush" =>
          isRealized(todo'[k].node) /\ todo'[k].top \in Above(superclass, todo'[k].node)
    BY <1>1, <1>3, <1>5 DEF IInv, FlushOK
<1>8. \A k \in DOMAIN todo : k = 1 \/ \E j \in DOMAIN todo' : todo'[j] = todo[k]
    BY <1>5
<1>9. \A list : SubclassesAre(list) =>
          \A m \in Remaining(list, It.top, It.node) : isRealized(m) /\ m # It.node =>
             \E k \in DOMAIN todo' : /\ todo'[k].task = "flush"
                                     /\ m \in Remaining(list, todo'[k].top, todo'[k].node)
    BY <1>1, <1>3, <1>5
<1>10. QED
    BY <1>5, <1>6, <1>7, <1>8, <1>9, OneFlushed

\* The walk ends.
LEMMA FlushEnds ==
    ASSUME IInv, todo # <<>>, It.task = "flush", stale' = stale \ {It.node},
           UNCHANGED <<runtimeLock, op, flags, tree, methods, unattached, tables, mapped, history>>,
           todo' = Tail(todo),
           \A list : SubclassesAre(list) =>
              \A m \in Remaining(list, It.top, It.node) : isRealized(m) => m = It.node
    PROVE  IInv'
<1> USE DEF IInv
<1>1. /\ todo[1] = It /\ todo \in Seq(Task)
      /\ \A k \in DOMAIN todo : todo[k].task \in Late
    BY FlushingIs DEF TypeOK
<1>2. /\ Tail(todo) \in Seq(Task)
      /\ \A k \in DOMAIN todo' : k \in Nat /\ k + 1 \in DOMAIN todo /\ todo'[k] = todo[k + 1]
    BY TaskDone
<1>3. \A k \in DOMAIN todo : k = 1 \/ \E j \in DOMAIN todo' : todo'[j] = todo[k]
    BY <1>1, TailIs
<1>4. \A k \in DOMAIN todo' : todo'[k].task = "flush" =>
          isRealized(todo'[k].node) /\ todo'[k].top \in Above(superclass, todo'[k].node)
    BY <1>2 DEF FlushOK
<1>5. \A k \in DOMAIN todo' : todo'[k].task \in Late
    BY <1>1, <1>2
<1>6. QED
    BY <1>2, <1>3, <1>4, <1>5, OneFlushed

LEMMA FlushIsOK ==
    ASSUME IInv, Flush
    PROVE  IInv'
<1>1. todo # <<>> /\ It.task = "flush"
    BY DEF Flush, Doing, It
<1>2. /\ AllLinked /\ It.top \in Nodes /\ It.node \in Nodes /\ isRealized(It.node)
      /\ It.top \in Above(superclass, It.node)
    BY <1>1, FlushingIs
<1>3. /\ stale' = stale \ {It.node}
      /\ UNCHANGED <<runtimeLock, op, flags, tree, methods, unattached, tables, mapped, history>>
    BY DEF Flush
<1>4. PICK list : SubclassesAre(list)
    BY DEF IInv, LinkOK
<1>5. CASE firstSubclass[It.node] # NULL
  <2>1. PICK c : c = firstSubclass[It.node]
    OBVIOUS
  <2>2. /\ c \in Nodes /\ isRealized(c) /\ It.top \in Above(superclass, c)
    BY <1>2, <1>4, <1>5, <2>1, DownIs
  <2>3. \A l : SubclassesAre(l) =>
            \A m \in Remaining(l, It.top, It.node) : isRealized(m) /\ m # It.node =>
               m \in Remaining(l, It.top, c)
    BY <1>2, <1>5, <2>1, DownIs
  <2>4. todo' = [todo EXCEPT ![1].node = c]
    BY <1>5, <2>1 DEF Flush
  <2>5. QED
    BY <1>1, <1>3, <2>2, <2>3, <2>4, FlushMoves
<1>6. CASE firstSubclass[It.node] = NULL
  <2>1. PICK last : last = Climb(It.top, It.node)
    OBVIOUS
  <2>2. CASE last = It.top
    <3>1. \A l : SubclassesAre(l) =>
              \A m \in Remaining(l, It.top, It.node) : isRealized(m) => m = It.node
      BY <1>2, <1>6, <2>1, <2>2, LeftIs
    <3>2. todo' = Tail(todo)
      BY <1>6, <2>1, <2>2 DEF Flush
    <3>3. QED
      BY <1>1, <1>3, <3>1, <3>2, FlushEnds
  <2>3. CASE last # It.top
    <3>1. PICK c : c = nextSibling[last]
      OBVIOUS
    <3>2. /\ c \in Nodes /\ isRealized(c) /\ It.top \in Above(superclass, c)
      BY <1>2, <1>4, <1>6, <2>1, <2>3, <3>1, AcrossIs
    <3>3. \A l : SubclassesAre(l) =>
              \A m \in Remaining(l, It.top, It.node) : isRealized(m) /\ m # It.node =>
                 m \in Remaining(l, It.top, c)
      BY <1>2, <1>6, <2>1, <2>3, <3>1, AcrossIs
    <3>4. todo' = [todo EXCEPT ![1].node = c]
      BY <1>6, <2>1, <2>3, <3>1 DEF Flush
    <3>5. QED
      BY <1>1, <1>3, <3>2, <3>3, <3>4, FlushMoves
  <2>4. QED
    BY <2>2, <2>3
<1>7. QED
    BY <1>5, <1>6

-----------------------------------------------------------------------------
(* What the operations of the threads preserve.                             *)

\* What t does next, when all of it is there.
OpGiven(t, u) ==
    /\ u \in Seq(Step) /\ \A k \in DOMAIN u : Live(u[k].node[1])
    /\ op' = [op EXCEPT ![t] = u]

\* Threads are still about to do what they can.
LEMMA OpGivenIs ==
    ASSUME TypeOK, UseOK, NEW t \in Threads, NEW u, OpGiven(t, u)
    PROVE  /\ op' \in [Threads -> Seq(Step)]
           /\ \A s \in Threads : \A k \in DOMAIN op'[s] : Live(op'[s][k].node[1])
<1>1. /\ u \in Seq(Step) /\ \A k \in DOMAIN u : Live(u[k].node[1])
      /\ op \in [Threads -> Seq(Step)] /\ op' = [op EXCEPT ![t] = u]
    BY DEF OpGiven, TypeOK
<1>2. \A s \in Threads : op'[s] = IF s = t THEN u ELSE op[s]
    BY <1>1
<1>3. ASSUME NEW s \in Threads, NEW k \in DOMAIN op'[s]
      PROVE  Live(op'[s][k].node[1])
  <2>1. CASE s = t
    BY <1>1, <1>2, <1>3, <2>1
  <2>2. CASE s # t
    BY <1>2, <1>3, <2>2 DEF UseOK
  <2>3. QED
    BY <2>1, <2>2
<1>4. QED
    BY <1>1, <1>3

\* A step of a thread that changes what it is about to do, and flags.
LEMMA OnlyOp ==
    ASSUME IInv, SameFlags, sent' \subseteq Classes,
           flags' \in [Nodes -> SUBSET {RO_META, RO_FROM_BUNDLE, RW_REALIZED, RW_CONSTRUCTING,
                                        RW_CONSTRUCTED}],
           NEW t \in Threads, NEW u, OpGiven(t, u),
           UNCHANGED <<runtimeLock, todo, tree, methods, unattached, tables, mapped,
                       name, named, arrived, stale>>
    PROVE  IInv'
<1> USE DEF IInv
<1>1. /\ op' \in [Threads -> Seq(Step)]
      /\ \A s \in Threads : \A k \in DOMAIN op'[s] : Live(op'[s][k].node[1])
    BY OpGivenIs
<1>2. \A c \in Classes : Live(c)' <=> Live(c)
    BY SameLive
<1>3. SameConnect /\ \A m : ToRealize(m) => ToRealize(m)'
    BY DEF SameConnect, ToConnect, ToRealize
<1>4. SameLinked
    BY <1>3, LinkedKept
<1>5. \A k \in DOMAIN todo : todo[k] \in Task
    BY DEF TypeOK
<1>6. TypeOK'
    BY <1>1 DEF TypeOK, tree, tables
<1>7. TodoOK'
  <2>1. /\ Free' => todo' = <<>> 
        /\ \A j, k \in DOMAIN todo' : todo'[j].task = "connect" /\ todo'[k] = todo'[j] => j = k
    BY DEF TodoOK, Free
  <2>2. ASSUME NEW k \in DOMAIN todo
        PROVE  /\ todo[k].task = "realize" => todo[k].node = NULL \/ Live(todo[k].node[1])'
               /\ todo[k].task = "connect" =>
                    /\ todo[k].node[1] \in StaticClasses
                    /\ isRealized(todo[k].node)' /\ todo[k].node \notin realized
    <3>1. /\ todo[k].task = "realize" => todo[k].node \in Nodes \cup {NULL}
          /\ todo[k].task = "connect" => todo[k].node \in Nodes
      BY <1>5, TaskIs
    <3>2. /\ todo[k].task = "realize" => todo[k].node = NULL \/ Live(todo[k].node[1])
          /\ todo[k].task = "connect" =>
               /\ todo[k].node[1] \in StaticClasses
               /\ isRealized(todo[k].node) /\ todo[k].node \notin realized
      BY DEF TodoOK
    <3>3. todo[k].task = "realize" => todo[k].node = NULL \/ Live(todo[k].node[1])'
      BY <1>2, <3>1, <3>2, NodesAre
    <3>4. todo[k].task = "connect" => isRealized(todo[k].node)'
      BY <3>1, <3>2 DEF SameFlags
    <3>5. QED
      BY <3>2, <3>3, <3>4
  <2>3. \A k \in DOMAIN todo : /\ todo[k].task \in Late =>
                                    \A j \in DOMAIN todo : j > k => todo[j].task \in Late
                               /\ todo[k].task = "flush" =>
                                    \A j \in DOMAIN todo : todo[j].task \in Late
    BY DEF TodoOK
  <2>4. QED
    BY <2>1, <2>2, <2>3 DEF TodoOK, tables, isRealized, Live
<1>8. PairOK' /\ TreeOK' /\ NameOK'
    BY PairKept, TreeKept, NameKept DEF tree, tables
<1>9. UseOK'
  <2>1. \A s \in Threads : \A k \in DOMAIN op'[s] : op'[s][k].node[1] \in Classes
    <3> TAKE s \in Threads
    <3> TAKE k \in DOMAIN op'[s]
    <3>1. op'[s][k] \in Step
      BY <1>1
    <3>2. op'[s][k].node \in Nodes
      BY <3>1 DEF Step
    <3>3. QED
      BY <3>2, NodesAre
  <2>2. \A c \in Classes : uninitialized[Meta(c)] = c => Live(c)'
    BY <1>2 DEF UseOK
  <2>3. QED
    BY <1>1, <1>2, <2>1, <2>2 DEF UseOK, tables
<1>10. UpOK'
    BY <1>3, UpKept DEF tree, tables
<1>11. CategoryOK' /\ LinkOK'
    BY <1>4, CategoryKept, LinkKept DEF tree
<1>12. FlushOK'
  <2>1. \A k \in DOMAIN todo' : todo'[k].task = "flush" =>
            todo'[k].node \in Nodes /\ \E j \in DOMAIN todo : todo[j] = todo'[k]
    BY <1>5, TaskIs
  <2>2. \A k \in DOMAIN todo : todo[k].task = "flush" => \E j \in DOMAIN todo' : todo'[j] = todo[k]
    OBVIOUS
  <2>3. QED
    BY <1>3, <2>1, <2>2, FlushKept DEF tree
<1>13. QED
    BY <1>6, <1>7, <1>8, <1>9, <1>10, <1>11, <1>12

\* Who finds a class by its name finds one that is there.
LEMMA FoundIsLive ==
    ASSUME TypeOK, NameOK, NEW x \in DOMAIN Hash, NEW c, c = NXMapGet(namedClasses, x), c # NULL
    PROVE  c \in Classes /\ Live(c)
<1>1. c = named[x]
  <2>1. PICK T : T = namedClasses
    OBVIOUS
  <2>2. NXMapGet(T, x) = Found(T, x)
    BY <2>1, GetIs DEF NameOK, TableOK
  <2>3. QED
    BY <2>1, <2>2 DEF NameOK
<1>2. QED
    BY <1>1 DEF NameOK, TypeOK

LEMMA OneStep ==
    ASSUME NEW x \in Step, Live(x.node[1])
    PROVE  <<x>> \in Seq(Step) /\ \A k \in DOMAIN <<x>> : Live(<<x>>[k].node[1])
<1>1. <<x>> \in Seq(Step) /\ Len(<<x>>) = 1 /\ <<x>>[1] = x
    BY OneInARow
<1>2. PICK s \in Seq(Step) : s = <<x>>
    BY <1>1
<1>3. \A k \in DOMAIN s : s[k] = x
    BY <1>1, <1>2
<1>4. QED
    BY <1>1, <1>2, <1>3

LEMMA StepIs ==
    ASSUME NEW n \in Nodes, NEW s \in {"realize", "initialize"}
    PROVE  [step |-> s, node |-> n] \in Step /\ [step |-> s, node |-> n].node = n
BY DEF Step

LEMMA LookUpIsOK ==
    ASSUME IInv, NEW t \in Threads, NEW x \in DOMAIN Hash, look_up_class(t, x)
    PROVE  IInv'
<1> USE DEF IInv
<1>1. PICK c : c = NXMapGet(namedClasses, x)
    OBVIOUS
<1>2. c \in Classes /\ Live(c)
    BY <1>1, FoundIsLive DEF look_up_class
<1>3. PICK one : one = [step |-> "realize", node |-> Class(c)]
    OBVIOUS
<1>4. one \in Step /\ one.node[1] = c
    BY <1>2, <1>3, StepIs, NodesAre
<1>5. OpGiven(t, <<one>>)
    BY <1>1, <1>2, <1>3, <1>4, OneStep DEF OpGiven, look_up_class
<1>6. SameFlags
    BY SameIfUnchanged DEF look_up_class
<1>7. QED
    BY <1>5, <1>6, OnlyOp DEF look_up_class, history, TypeOK

LEMMA MessageIsOK ==
    ASSUME IInv, NEW t \in Threads, NEW c \in Classes, Message(t, c)
    PROVE  IInv'
<1> USE DEF IInv
<1>1. Class(c) \in Nodes /\ Meta(c) \in Nodes /\ Class(c)[1] = c /\ Meta(c)[1] = c
    BY NodesAre
<1>2. Live(c)
  <2>1. Class(c) \in Above(superclass, Class(c))
    BY <1>1, AboveIs DEF TypeOK
  <2>2. uninitialized[Meta(c)] = c
    BY <1>1, <2>1 DEF Message
  <2>3. QED
    BY <2>2 DEF UseOK
<1>3. PICK a : a = [step |-> "realize", node |-> Meta(c)]
    OBVIOUS
<1>4. PICK b : b = [step |-> "initialize", node |-> Class(c)]
    OBVIOUS
<1>5. a \in Step /\ b \in Step /\ Live(a.node[1]) /\ Live(b.node[1])
    BY <1>1, <1>2, <1>3, <1>4, StepIs
<1>6. PICK u : u = <<a, b>>
    OBVIOUS
<1>7. u \in Seq(Step) /\ DOMAIN u = {1, 2} /\ u[1] = a /\ u[2] = b
    BY <1>5, <1>6
<1>8. op' = [op EXCEPT ![t] = u]
    BY <1>3, <1>4, <1>6 DEF Message
<1>9. OpGiven(t, u)
    BY <1>5, <1>7, <1>8 DEF OpGiven
<1>10. SameFlags
    BY SameIfUnchanged DEF Message
<1>11. QED
    BY <1>9, <1>10, OnlyOp DEF Message, history, TypeOK

LEMMA StepPut ==
    ASSUME TypeOK, UseOK, NEW t \in Threads, NEW x \in Step, Live(x.node[1])
    PROVE  <<x>> \o op[t] \in Seq(Step) /\ \A k \in DOMAIN (<<x>> \o op[t]) : Live((<<x>> \o op[t])[k].node[1])
<1>1. op[t] \in Seq(Step) /\ \A k \in DOMAIN op[t] : Live(op[t][k].node[1])
    BY DEF TypeOK, UseOK
<1>2. PICK one \in Seq(Step) : one = <<x>>
    BY OneInARow
<1>3. Len(one) = 1 /\ one[1] = x
    BY <1>2
<1>4. PICK u : u = one \o op[t]
    OBVIOUS
<1>5. /\ u \in Seq(Step)
      /\ \A k \in 1..Len(one) : u[k] = one[k]
      /\ \A k \in DOMAIN u :
            k \in 1..Len(one) \/ (k - Len(one) \in DOMAIN op[t] /\ u[k] = op[t][k - Len(one)])
    BY <1>1, <1>4, PutBefore
<1>6. \A k \in 1..Len(one) : one[k] = x
    BY <1>3
<1>7. \A k \in DOMAIN u : Live(u[k].node[1])
    BY <1>1, <1>5, <1>6
<1>8. QED
    BY <1>2, <1>4, <1>5, <1>7

LEMMA StepDone ==
    ASSUME TypeOK, UseOK, NEW t \in Threads, op[t] # <<>>
    PROVE  /\ Tail(op[t]) \in Seq(Step) /\ \A k \in DOMAIN Tail(op[t]) : Live(Tail(op[t])[k].node[1])
           /\ Head(op[t]) \in Step /\ Head(op[t]).node \in Nodes /\ Live(Head(op[t]).node[1])
<1>1. op[t] \in Seq(Step) /\ \A k \in DOMAIN op[t] : Live(op[t][k].node[1])
    BY DEF TypeOK, UseOK
<1>2. /\ Tail(op[t]) \in Seq(Step) /\ Head(op[t]) \in Step
      /\ 1 \in DOMAIN op[t] /\ op[t][1] = Head(op[t])
      /\ \A k \in DOMAIN Tail(op[t]) : k + 1 \in DOMAIN op[t] /\ Tail(op[t])[k] = op[t][k + 1]
    BY <1>1, TailIs
<1>3. Head(op[t]).node \in Nodes
    BY <1>2 DEF Step
<1>4. \A k \in DOMAIN Tail(op[t]) : Live(Tail(op[t])[k].node[1])
    BY <1>1, <1>2
<1>5. QED
    BY <1>1, <1>2, <1>3, <1>4

\* The superclass of a class that is there is there.
LEMMA SuperIsLive ==
    ASSUME TypeOK, TreeOK, NEW n \in Nodes, Live(n[1]), superclass[n] # NULL
    PROVE  superclass[n] \in Nodes /\ Live(superclass[n][1])
<1>1. PICK c \in Classes : c = n[1]
    BY NodesAre
<1>2. n = Class(c) \/ n = Meta(c)
    BY <1>1, NodesAre
<1>3. \/ superclass[Class(c)] = NULL /\ superclass[Meta(c)] = Class(c)
      \/ \E d \in Classes : /\ Live(d)
                            /\ superclass[Class(c)] = Class(d)
                            /\ superclass[Meta(c)] = Meta(d)
    BY <1>1 DEF TreeOK
<1>4. superclass[n] \in Nodes
    BY DEF TypeOK
<1>5. QED
    BY <1>1, <1>2, <1>3, <1>4, NodesAre

LEMMA InitializeIsOK ==
    ASSUME IInv, NEW t \in Threads, InitializeClass(t)
    PROVE  IInv'
<1> USE DEF IInv
<1>1. PICK n : n = Head(op[t]).node
    OBVIOUS
<1>2. op[t] # <<>>
    BY DEF InitializeClass
<1>3. n \in Nodes /\ Live(n[1]) /\ n[1] \in Classes
    BY <1>1, <1>2, StepDone, NodesAre
<1>4. UNCHANGED <<runtimeLock, todo, tree, methods, unattached, tables, mapped,
                  name, named, arrived, stale>>
    BY DEF InitializeClass
<1>5. CASE ~ isRealized(n)
  <2>1. PICK x : x = [step |-> "realize", node |-> n]
    OBVIOUS
  <2>2. op' = [op EXCEPT ![t] = <<x>> \o op[t]] /\ UNCHANGED <<flags, sent>>
    BY <1>1, <1>5, <2>1 DEF InitializeClass, TypeOK
  <2>3. x \in Step /\ Live(x.node[1])
    BY <1>3, <2>1, StepIs
  <2>4. OpGiven(t, <<x>> \o op[t])
    BY <2>2, <2>3, StepPut DEF OpGiven
  <2>5. SameFlags
    BY <2>2, SameIfUnchanged
  <2>6. QED
    BY <1>4, <2>2, <2>4, <2>5, OnlyOp DEF TypeOK
<1>6. CASE isRealized(n) /\ superclass[n] # NULL /\ ~ _class_isInitialized(superclass[n][1])
  <2>1. PICK x : x = [step |-> "initialize", node |-> superclass[n]]
    OBVIOUS
  <2>2. op' = [op EXCEPT ![t] = <<x>> \o op[t]] /\ UNCHANGED <<flags, sent>>
    BY <1>1, <1>6, <2>1 DEF InitializeClass, TypeOK
  <2>3. superclass[n] \in Nodes /\ Live(superclass[n][1])
    BY <1>3, <1>6, SuperIsLive
  <2>4. x \in Step /\ Live(x.node[1])
    BY <2>1, <2>3, StepIs
  <2>5. OpGiven(t, <<x>> \o op[t])
    BY <2>2, <2>4, StepPut DEF OpGiven
  <2>6. SameFlags
    BY <2>2, SameIfUnchanged
  <2>7. QED
    BY <1>4, <2>2, <2>5, <2>6, OnlyOp DEF TypeOK
<1>7. CASE isRealized(n) /\ ~ (superclass[n] # NULL /\ ~ _class_isInitialized(superclass[n][1]))
  <2>1. PICK c \in Classes : c = n[1]
    BY <1>3
  <2>2. /\ op' = [op EXCEPT ![t] = Tail(op[t])]
        /\ flags' = [flags EXCEPT ![Meta(c)] = @ \cup {RW_INITIALIZED}]
        /\ sent' = IF _class_isInitialized(c) THEN sent ELSE sent \cup {c}
    BY <1>1, <1>7, <2>1 DEF InitializeClass, TypeOK
  <2>3. OpGiven(t, Tail(op[t]))
    BY <1>2, <2>2, StepDone DEF OpGiven
  <2>4. Meta(c) \in Nodes
    BY NodesAre
  <2>5. \A m \in Nodes : flags'[m] = IF m = Meta(c) THEN flags[m] \cup {RW_INITIALIZED} ELSE flags[m]
    BY <2>2, <2>4 DEF TypeOK
  <2>6. SameFlags
    <3> SUFFICES ASSUME NEW m \in Nodes
                 PROVE  /\ RW_REALIZED \in flags'[m] <=> RW_REALIZED \in flags[m]
                        /\ m[1] \in StaticClasses \/ (flags'[m] = {} <=> flags[m] = {})
      BY DEF SameFlags, isRealized
    <3>1. RW_REALIZED # RW_INITIALIZED
      BY DEF RW_REALIZED, RW_INITIALIZED
    <3>2. ASSUME m = Meta(c), m[1] \notin StaticClasses
          PROVE  flags[m] # {}
      <4>1. c \notin StaticClasses /\ c \in Addresses /\ Live(c)
        BY <1>3, <2>1, <3>2, NodesAre DEF Classes
      <4>2. flags[Class(c)] # {}
        BY <4>1 DEF Live
      <4>3. isRealized(Meta(c))
        BY <4>1, <4>2 DEF PairOK
      <4>4. QED
        BY <3>2, <4>3 DEF isRealized
    <3>3. QED
      BY <2>5, <3>1, <3>2
  <2>7. flags' \in [Nodes -> SUBSET {RO_META, RO_FROM_BUNDLE, RW_REALIZED, RW_CONSTRUCTING,
                                     RW_CONSTRUCTED}]
    <3>1. RW_INITIALIZED = RO_FROM_BUNDLE
      BY DEF RW_INITIALIZED, RO_FROM_BUNDLE
    <3>2. QED
      BY <2>2, <2>4, <3>1 DEF TypeOK
  <2>8. sent' \subseteq Classes
    BY <2>2 DEF TypeOK
  <2>9. QED
    BY <1>4, <2>3, <2>6, <2>7, <2>8, OnlyOp
<1>8. QED
    BY <1>5, <1>6, <1>7

\* A thread takes the lock, with classes to read, to realize and categories
\* to attach.
LEMMA LockTaken ==
    ASSUME IInv, Free, runtimeLock' \in Threads, todo' \in Seq(Task),
           \A k \in DOMAIN todo' :
              /\ todo'[k].task \notin {"connect", "flush"}
              /\ todo'[k].task = "realize" => Live(todo'[k].node[1])
              /\ todo'[k].task \in Late =>
                    \A j \in DOMAIN todo' : j > k => todo'[j].task \in Late,
           NEW t \in Threads, NEW u, OpGiven(t, u), mapped' \subseteq Images,
           UNCHANGED <<flags, tree, methods, unattached, tables, history, stale>>
    PROVE  IInv'
<1> USE DEF IInv
<1>1. /\ op' \in [Threads -> Seq(Step)]
      /\ \A s \in Threads : \A k \in DOMAIN op'[s] : Live(op'[s][k].node[1])
    BY OpGivenIs
<1>2. SameFlags
    BY SameIfUnchanged
<1>3. \A x : Live(x)' <=> Live(x)
    BY DEF Live
<1>4. TodoOK' /\ SameConnect /\ FlushOK' /\ \A m : ToRealize(m) => ToRealize(m)'
  <2>1. \A k \in DOMAIN todo' :
           /\ todo'[k].task \notin {"connect", "flush"}
           /\ todo'[k].task = "realize" =>
                 todo'[k].node[1] \in StaticClasses \/ flags'[Class(todo'[k].node[1])] # {}
           /\ todo'[k].task \in Late =>
                 \A j \in DOMAIN todo' : j > k => todo'[j].task \in Late
    BY DEF Live
  <2>2. runtimeLock' # NULL
    BY NodesAre
  <2>3. QED
    BY <2>1, <2>2, NowBusy
<1>5. SameLinked
    BY <1>2, <1>4, LinkedKept
<1>6. TypeOK'
    BY <1>1 DEF TypeOK, tree, tables, history
<1>7. PairOK' /\ TreeOK' /\ NameOK'
    BY <1>2, PairKept, TreeKept, NameKept DEF tree, tables, history
<1>8. UseOK'
    BY <1>1, <1>3 DEF UseOK, tables
<1>9. UpOK'
    BY <1>2, <1>4, UpKept DEF tree, tables
<1>10. CategoryOK' /\ LinkOK'
    BY <1>5, CategoryKept, LinkKept DEF tree, history
<1>11. QED
    BY <1>4, <1>6, <1>7, <1>8, <1>9, <1>10

LEMMA RealizeIsOK ==
    ASSUME IInv, NEW t \in Threads, Realize(t)
    PROVE  IInv'
<1> USE DEF IInv
<1>1. PICK n : n = Head(op[t]).node
    OBVIOUS
<1>2. op[t] # <<>> /\ Free /\ runtimeLock' = t
    BY DEF Realize, Acquire
<1>3. n \in Nodes /\ Live(n[1])
    BY <1>1, <1>2, StepDone
<1>4. PICK x : x = [task |-> "realize", node |-> n]
    OBVIOUS
<1>5. x \in Task /\ x.task = "realize" /\ x.node = n
    BY <1>3, <1>4 DEF Task
<1>6. todo' = <<x>> /\ op' = [op EXCEPT ![t] = Tail(op[t])]
    BY <1>1, <1>4 DEF Realize, Acquire, TypeOK
<1>7. /\ todo' \in Seq(Task) /\ \A k \in DOMAIN todo' : todo'[k] = x
    BY <1>5, <1>6
<1>8. OpGiven(t, Tail(op[t]))
    BY <1>2, <1>6, StepDone DEF OpGiven
<1>9. \A k \in DOMAIN todo' :
          /\ todo'[k].task \notin {"connect", "flush"}
          /\ todo'[k].task = "realize" => Live(todo'[k].node[1])
          /\ todo'[k].task \in Late =>
                \A j \in DOMAIN todo' : j > k => todo'[j].task \in Late
    BY <1>3, <1>5, <1>7 DEF Late
<1>10. QED
    BY <1>2, <1>7, <1>8, <1>9, LockTaken DEF Realize, TypeOK

\* FlattenSeq of sequences of S is a sequence of S.
LEMMA FlattenIs ==
    ASSUME NEW S, NEW seqs \in Seq(Seq(S))
    PROVE  FlattenSeq(seqs) \in Seq(S)
<1>1. PICK N : N = Len(seqs) /\ N \in Nat
    OBVIOUS
<1>2. CASE N = 0
  <2>1. FlattenSeq(seqs) = seqs
    BY <1>1, <1>2 DEF FlattenSeq
  <2>2. seqs \in Seq(S)
    <3>1. PICK V : V = Seq(S)
      OBVIOUS
    <3>2. seqs \in Seq(V) /\ Len(seqs) = 0
      BY <1>1, <1>2, <3>1
    <3>3. seqs = <<>>
      BY <3>2
    <3>4. QED
      BY <3>3
  <2>3. QED
    BY <2>1, <2>2
<1>3. CASE N # 0
  <2>1. \A i \in 1..N : seqs[i] \in Seq(S)
    BY <1>1
  <2>2. PICK V : V = Seq(S)
    OBVIOUS
  <2>3. PICK base : base = <<>> /\ base \in V
    <3>1. <<>> \in Seq(S)
      OBVIOUS
    <3>2. QED
      BY <2>2, <3>1
  <2>4. PICK step : step = [i \in 1..N |-> [v \in V |-> IF i = 1 THEN seqs[i] ELSE v \o seqs[i]]]
    OBVIOUS
  <2>5. step \in [1..N -> [V -> V]]
    <3>1. \A i \in 1..N : \A v \in V : (IF i = 1 THEN seqs[i] ELSE v \o seqs[i]) \in V
      BY <2>1, <2>2
    <3>2. \A i \in 1..N : step[i] \in [V -> V]
      BY <2>4, <3>1
    <3>3. QED
      BY <2>4, <3>2
  <2>6. PICK g \in [0..N -> V] : \A i \in 0..N : g[i] = IF i = 0 THEN base ELSE step[i][g[i - 1]]
    <3>1. Iteration(N, V, base, step)
      BY <1>1, <2>3, <2>5 DEF Iteration
    <3>2. QED
      BY <3>1, PrefixRecursion
  <2>7. ASSUME NEW i \in 1..N
        PROVE  g[i] = IF i = 1 THEN seqs[i] ELSE g[i - 1] \o seqs[i]
    <3>1. i \in 0..N /\ i # 0 /\ g[i - 1] \in V
      <4>1. i \in 0..N /\ i # 0 /\ i - 1 \in 0..N
        BY <1>1
      <4>2. QED
        BY <2>6, <4>1
    <3>2. g[i] = step[i][g[i - 1]]
      BY <2>6, <3>1
    <3>3. step[i] = [v \in V |-> IF i = 1 THEN seqs[i] ELSE v \o seqs[i]]
      BY <2>4
    <3>4. QED
      BY <3>1, <3>2, <3>3
  <2> DEFINE flatten[i \in 1..N] == IF i = 1 THEN seqs[i] ELSE flatten[i-1] \o seqs[i]
  <2>8. PICK f : f = [i \in 1..N |-> g[i]]
    OBVIOUS
  <2>9. f = [i \in 1..N |-> IF i = 1 THEN seqs[i] ELSE f[i-1] \o seqs[i]]
    <3>1. ASSUME NEW i \in 1..N
          PROVE  f[i] = IF i = 1 THEN seqs[i] ELSE f[i-1] \o seqs[i]
      <4>1. f[i] = g[i] /\ (i # 1 => f[i-1] = g[i-1])
        BY <1>1, <2>8
      <4>2. QED
        BY <2>7, <4>1
    <3>2. QED
      BY <2>8, <3>1
  <2>10. flatten = [i \in 1..N |-> IF i = 1 THEN seqs[i] ELSE flatten[i-1] \o seqs[i]]
    BY <2>9
  <2>11. FlattenSeq(seqs) = flatten[N]
    BY <1>1, <1>3 DEF FlattenSeq
  <2> HIDE DEF flatten
  <2>12. PICK h : h = flatten
    OBVIOUS
  <2>13. ASSUME NEW i \in 1..N
         PROVE  h[i] = IF i = 1 THEN seqs[i] ELSE h[i-1] \o seqs[i]
    BY <2>10, <2>12
  <2>14. PICK G \in SUBSET (0..N) : G = {i \in 0..N : i = 0 \/ h[i] \in V}
    OBVIOUS
  <2>15. ASSUME NEW i \in 0..N, i \in G, i < N
         PROVE  i + 1 \in G
    <3>1. i + 1 \in 1..N
      BY <1>1, <2>15
    <3>2. h[i + 1] = IF i + 1 = 1 THEN seqs[i + 1] ELSE h[(i + 1)-1] \o seqs[i + 1]
      BY <2>13, <3>1
    <3>3. (i + 1) - 1 = i /\ seqs[i + 1] \in V
      BY <2>1, <2>2, <3>1
    <3>4. h[i + 1] \in V
      <4>1. CASE i = 0
        BY <3>2, <3>3, <4>1
      <4>2. CASE i # 0
        <5>1. h[i] \in V
          BY <2>14, <2>15, <4>2
        <5>2. QED
          BY <2>2, <3>2, <3>3, <4>2, <5>1
      <4>3. QED
        BY <4>1, <4>2
    <3>5. QED
      BY <2>14, <3>1, <3>4
  <2>16. G = 0..N
    <3>1. 0 \in G
      BY <1>1, <2>14
    <3>2. QED
      BY <1>1, <2>15, <3>1, PrefixInduction
  <2>17. h[N] \in V
    BY <1>1, <1>3, <2>14, <2>16
  <2>18. QED
    BY <2>2, <2>11, <2>12, <2>17
<1>4. QED
    BY <1>2, <1>3

CategoryTask == [task : {"category"}, cat : DOMAIN ClassOf, node : StaticClasses \X {"class", "meta"}]

LEMMA CategoryTasksAre ==
    ASSUME NEW cat \in DOMAIN ClassOf
    PROVE  CategoryTasks(cat) \in Seq(CategoryTask)
<1>1. PICK a : a = [task |-> "category", cat |-> cat, node |-> Class(ClassOf[cat])]
    OBVIOUS
<1>2. PICK b : b = [task |-> "category", cat |-> cat, node |-> Meta(ClassOf[cat])]
    OBVIOUS
<1>3. ClassOf[cat] \in StaticClasses
    BY RegistryAssumption
<1>4. a \in CategoryTask /\ b \in CategoryTask
    BY <1>1, <1>2, <1>3 DEF CategoryTask, Class, Meta
<1>5. <<a>> \in Seq(CategoryTask) /\ <<b>> \in Seq(CategoryTask) /\ <<>> \in Seq(CategoryTask)
    BY <1>4, OneInARow
<1>6. PICK u \in Seq(CategoryTask) : u = IF cat \in HasInstance THEN <<a>> ELSE <<>>
    BY <1>5
<1>7. PICK v \in Seq(CategoryTask) : v = IF cat \in HasClass THEN <<b>> ELSE <<>>
    BY <1>5
<1>8. CategoryTasks(cat) = u \o v
    BY <1>1, <1>2, <1>6, <1>7 DEF CategoryTasks
<1>9. QED
    BY <1>8, PutBefore

\* What reading an image leaves to do.
LEMMA ReadImageIs ==
    ASSUME NEW i \in Images
    PROVE  /\ ReadImage(i) \in Seq(Task)
           /\ \A k \in DOMAIN ReadImage(i) :
                 /\ ReadImage(i)[k].task \notin {"connect", "flush"}
                 /\ ReadImage(i)[k].task = "realize" => ReadImage(i)[k].node[1] \in StaticClasses
                 /\ ReadImage(i)[k].task \in Late =>
                       \A j \in DOMAIN ReadImage(i) : j > k => ReadImage(i)[j].task \in Late
<1>1. PICK first : first = [k \in DOMAIN ClassList[i] |->
                                [task |-> "discover", class |-> ClassList[i][k]]]
    OBVIOUS
<1>2. PICK then : then = [k \in DOMAIN NonlazyClassList[i] |->
                              [task |-> "realize", node |-> Class(NonlazyClassList[i][k])]]
    OBVIOUS
<1>3. PICK lists : lists = [k \in DOMAIN CategoryList[i] |-> CategoryTasks(CategoryList[i][k])]
    OBVIOUS
<1>4. PICK last : last = FlattenSeq(lists)
    OBVIOUS
<1>5. PICK D : D = [task : {"discover"}, class : StaticClasses]
    OBVIOUS
<1>6. PICK R : R = [task : {"realize"}, node : StaticClasses \X {"class"}]
    OBVIOUS
<1>7. first \in Seq(D)
  <2>1. PICK s \in Seq(StaticClasses) : s = ClassList[i]
    BY RegistryAssumption
  <2>2. \A k \in 1..Len(s) : [task |-> "discover", class |-> s[k]] \in D
    BY <1>5
  <2>3. first = [k \in 1..Len(s) |-> [task |-> "discover", class |-> s[k]]]
    BY <1>1, <2>1
  <2>4. first \in [1..Len(s) -> D]
    BY <2>2, <2>3
  <2>5. QED
    BY <2>4
<1>8. then \in Seq(R)
  <2>1. PICK s \in Seq(StaticClasses) : s = NonlazyClassList[i]
    BY RegistryAssumption
  <2>2. \A k \in 1..Len(s) : [task |-> "realize", node |-> Class(s[k])] \in R
    BY <1>6 DEF Class
  <2>3. then = [k \in 1..Len(s) |-> [task |-> "realize", node |-> Class(s[k])]]
    BY <1>2, <2>1
  <2>4. then \in [1..Len(s) -> R]
    BY <2>2, <2>3
  <2>5. QED
    BY <2>4
<1>9. last \in Seq(CategoryTask)
  <2>1. PICK s \in Seq(DOMAIN ClassOf) : s = CategoryList[i]
    BY RegistryAssumption
  <2>2. \A k \in 1..Len(s) : CategoryTasks(s[k]) \in Seq(CategoryTask)
    BY CategoryTasksAre
  <2>3. lists = [k \in 1..Len(s) |-> CategoryTasks(s[k])]
    BY <1>3, <2>1
  <2>4. PICK V : V = Seq(CategoryTask)
    OBVIOUS
  <2>5. lists \in [1..Len(s) -> V]
    BY <2>2, <2>3, <2>4
  <2>6. lists \in Seq(V)
    BY <2>5
  <2>7. QED
    BY <1>4, <2>4, <2>6, FlattenIs
<1>10. PICK E : E = D \cup R
    OBVIOUS
<1>11. PICK early : early = first \o then
    OBVIOUS
<1>12. early \in Seq(E)
  <2>1. first \in Seq(E) /\ then \in Seq(E)
    BY <1>7, <1>8, <1>10, SeqOfMore
  <2>2. QED
    BY <1>11, <2>1, PutBefore
<1>13. PICK tasks : tasks = ReadImage(i)
    OBVIOUS
<1>14. tasks = early \o last
    BY <1>1, <1>2, <1>3, <1>4, <1>11, <1>13 DEF ReadImage
<1>15. \A x \in E : /\ x \in Task /\ x.task \notin Late /\ x.task \notin {"connect", "flush"}
                    /\ x.task = "realize" => x.node[1] \in StaticClasses
  <2>1. ASSUME NEW x \in D
        PROVE  x \in Task /\ x.task = "discover"
    BY <1>5 DEF Task
  <2>2. ASSUME NEW x \in R
        PROVE  x \in Task /\ x.task = "realize" /\ x.node[1] \in StaticClasses
    <3>1. x \in [task : {"realize"}, node : Nodes \cup {NULL}]
      BY <1>6 DEF Nodes, Classes
    <3>2. x.task = "realize" /\ x.node \in StaticClasses \X {"class"}
      BY <1>6
    <3>3. QED
      BY <3>1, <3>2 DEF Task
  <2>3. QED
    BY <1>10, <2>1, <2>2 DEF Late
<1>16. \A x \in CategoryTask : x \in Task /\ x.task = "category"
    BY DEF Task, CategoryTask
<1>17. E \subseteq Task /\ CategoryTask \subseteq Task
    BY <1>15, <1>16
<1>18. /\ tasks \in Seq(Task)
       /\ \A k \in DOMAIN tasks : k \in Nat
       /\ \A k \in 1..Len(early) : k \in DOMAIN tasks /\ tasks[k] = early[k]
       /\ \A k \in DOMAIN tasks : \/ k \in 1..Len(early)
                                  \/ k > Len(early) /\ k - Len(early) \in DOMAIN last
                                     /\ tasks[k] = last[k - Len(early)]
  <2>1. early \in Seq(Task) /\ last \in Seq(Task)
    BY <1>9, <1>12, <1>17, SeqOfMore
  <2>2. QED
    BY <1>14, <2>1, PutBefore
<1>19. PICK L \in Nat : L = Len(early)
    BY <1>12
<1>20. \A k \in DOMAIN tasks : \/ k \in 1..L /\ tasks[k] \in E
                               \/ k > L /\ tasks[k] \in CategoryTask
    BY <1>9, <1>12, <1>18, <1>19
<1>21. \A k \in DOMAIN tasks :
          /\ tasks[k].task \notin {"connect", "flush"}
          /\ tasks[k].task = "realize" => tasks[k].node[1] \in StaticClasses
    BY <1>15, <1>16, <1>20
<1>22. \A k \in DOMAIN tasks : tasks[k].task \in Late =>
          \A j \in DOMAIN tasks : j > k => tasks[j].task \in Late
  <2> SUFFICES ASSUME NEW k \in DOMAIN tasks, tasks[k].task \in Late, NEW j \in DOMAIN tasks, j > k
               PROVE  tasks[j].task \in Late
    OBVIOUS
  <2>1. k > L
    BY <1>15, <1>20
  <2>2. j > L /\ j \in Nat
    BY <1>18, <1>19, <2>1
  <2>3. tasks[j] \in CategoryTask
    BY <1>20, <2>2
  <2>4. QED
    BY <1>16, <2>3 DEF Late
<1>23. QED
    BY <1>13, <1>18, <1>21, <1>22

LEMMA MapImagesIsOK ==
    ASSUME IInv, NEW t \in Threads, NEW i \in Images, MapImages(t, i)
    PROVE  IInv'
<1> USE DEF IInv
<1>1. /\ Free /\ runtimeLock' = t /\ todo' = ReadImage(i) /\ mapped' = mapped \cup {i}
      /\ UNCHANGED <<op, flags, tree, methods, unattached, tables, history, stale>>
    BY DEF MapImages, Acquire
<1>2. PICK tasks : tasks = ReadImage(i)
    OBVIOUS
<1>3. /\ tasks \in Seq(Task)
      /\ \A k \in DOMAIN tasks :
            /\ tasks[k].task \notin {"connect", "flush"}
            /\ tasks[k].task = "realize" => tasks[k].node[1] \in StaticClasses
            /\ tasks[k].task \in Late => \A j \in DOMAIN tasks : j > k => tasks[j].task \in Late
    BY <1>2, ReadImageIs
<1>4. OpGiven(t, op[t])
    BY <1>1 DEF OpGiven, TypeOK, UseOK
<1>5. /\ todo' \in Seq(Task)
      /\ \A k \in DOMAIN todo' :
            /\ todo'[k].task \notin {"connect", "flush"}
            /\ todo'[k].task = "realize" => Live(todo'[k].node[1])
            /\ todo'[k].task \in Late => \A j \in DOMAIN todo' : j > k => todo'[j].task \in Late
    BY <1>1, <1>2, <1>3 DEF Live
<1>6. mapped' \subseteq Images
    BY <1>1 DEF TypeOK
<1>7. QED
    BY <1>1, <1>4, <1>5, <1>6, LockTaken

\* Nothing is left to do and every realized class is connected.
LEMMA FreeIs ==
    ASSUME IInv, Free
    PROVE  /\ todo = <<>> /\ stale = {} /\ LinkedNodes = {m \in Nodes : isRealized(m)}
           /\ \A n : ~ ToRealize(n) /\ ~ ToConnect(n) /\ (Linked(n) <=> isRealized(n))
           /\ \A n \in Nodes : isRealized(n) => superclass[n] = NULL \/ isRealized(superclass[n])
           /\ \A c \in Classes : isRealized(Class(c)) => isRealized(Meta(c))
           /\ \E list : Listed(list, Links, LinkedNodes, superclass)
<1> USE DEF IInv
<1>1. /\ todo = <<>> /\ stale = {}
      /\ \A n : ~ ToRealize(n) /\ ~ ToConnect(n) /\ (Linked(n) <=> isRealized(n))
    BY WhenFree
<1>2. \E list : Listed(list, Links, LinkedNodes, superclass)
    BY ListedIsLinked DEF LinkOK
<1>3. \A n \in Nodes : isRealized(n) => superclass[n] = NULL \/ isRealized(superclass[n])
    BY <1>1 DEF UpOK
<1>4. \A c \in Classes : isRealized(Class(c)) => isRealized(Meta(c))
    BY <1>1 DEF UpOK
<1>5. LinkedNodes = {m \in Nodes : isRealized(m)}
    BY <1>1 DEF LinkedNodes
<1>6. QED
    BY <1>1, <1>2, <1>3, <1>4, <1>5

\* The flags when those of a pair are set.
LEMMA FlagsTyped ==
    ASSUME TypeOK, NEW c \in Classes, NEW f, NEW g,
           f \subseteq {RO_META, RO_FROM_BUNDLE, RW_REALIZED, RW_CONSTRUCTING, RW_CONSTRUCTED},
           g \subseteq {RO_META, RO_FROM_BUNDLE, RW_REALIZED, RW_CONSTRUCTING, RW_CONSTRUCTED},
           flags' = [flags EXCEPT ![Class(c)] = f, ![Meta(c)] = g]
    PROVE  /\ flags' \in [Nodes -> SUBSET {RO_META, RO_FROM_BUNDLE, RW_REALIZED, RW_CONSTRUCTING,
                                           RW_CONSTRUCTED}]
           /\ flags'[Class(c)] = f /\ flags'[Meta(c)] = g
           /\ \A n \in Nodes : n \notin {Class(c), Meta(c)} => flags'[n] = flags[n]
<1>1. Class(c) \in Nodes /\ Meta(c) \in Nodes /\ Class(c) # Meta(c)
    BY NodesAre
<1>2. QED
    BY <1>1 DEF TypeOK

LEMMA RegisterIsOK ==
    ASSUME IInv, NEW t \in Threads, NEW c \in Addresses, objc_registerClassPair(t, c)
    PROVE  IInv'
<1> USE DEF IInv
<1>1. /\ Free /\ RW_CONSTRUCTING \in flags[Class(c)]
      /\ flags' = [flags EXCEPT ![Class(c)] = (@ \ {RW_CONSTRUCTING}) \cup {RW_CONSTRUCTED},
                                ![Meta(c)] = (@ \ {RW_CONSTRUCTING}) \cup {RW_CONSTRUCTED}]
      /\ namedClasses' = addNamedClass(c)
      /\ named' = [named EXCEPT ![name[c]] = IF @ = NULL THEN c ELSE @]
      /\ realized' = realized \cup {Class(c), Meta(c)}
      /\ uninitialized' = [uninitialized EXCEPT ![Meta(c)] = c]
      /\ UNCHANGED <<runtimeLock, todo, op, tree, methods, unattached, mapped,
                     name, arrived, sent, stale>>
    BY DEF objc_registerClassPair
<1>2. /\ c \in Classes /\ c \notin StaticClasses /\ Class(c) \in Nodes /\ Meta(c) \in Nodes
      /\ Class(c) # Meta(c)
    BY NodesAre, RegistryAssumption DEF Classes
<1>3. Live(c) /\ isRealized(Class(c)) /\ isRealized(Meta(c))
    BY <1>1 DEF Live, PairOK
<1>4. PICK f : f = (flags[Class(c)] \ {RW_CONSTRUCTING}) \cup {RW_CONSTRUCTED}
    OBVIOUS
<1>5. PICK g : g = (flags[Meta(c)] \ {RW_CONSTRUCTING}) \cup {RW_CONSTRUCTED}
    OBVIOUS
<1>6. flags' = [flags EXCEPT ![Class(c)] = f, ![Meta(c)] = g]
    BY <1>1, <1>2, <1>4, <1>5 DEF TypeOK
<1>7. /\ flags' \in [Nodes -> SUBSET {RO_META, RO_FROM_BUNDLE, RW_REALIZED, RW_CONSTRUCTING,
                                      RW_CONSTRUCTED}]
      /\ flags'[Class(c)] = f /\ flags'[Meta(c)] = g
      /\ \A n \in Nodes : n \notin {Class(c), Meta(c)} => flags'[n] = flags[n]
  <2>1. /\ f \subseteq {RO_META, RO_FROM_BUNDLE, RW_REALIZED, RW_CONSTRUCTING, RW_CONSTRUCTED}
        /\ g \subseteq {RO_META, RO_FROM_BUNDLE, RW_REALIZED, RW_CONSTRUCTING, RW_CONSTRUCTED}
    BY <1>2, <1>4, <1>5 DEF TypeOK
  <2>2. QED
    BY <1>2, <1>6, <2>1, FlagsTyped
<1>8. SameFlags
  <2> SUFFICES ASSUME NEW m \in Nodes
               PROVE  /\ RW_REALIZED \in flags'[m] <=> RW_REALIZED \in flags[m]
                      /\ m[1] \in StaticClasses \/ (flags'[m] = {} <=> flags[m] = {})
    BY DEF SameFlags, isRealized
  <2>1. RW_REALIZED \in flags[Class(c)] /\ RW_REALIZED \in flags[Meta(c)]
    BY <1>3 DEF isRealized
  <2>2. RW_REALIZED \in f /\ RW_REALIZED \in g
    BY <1>4, <1>5, <2>1 DEF RW_REALIZED, RW_CONSTRUCTING
  <2>3. QED
    BY <1>7, <2>1, <2>2
<1>9. LET new == [named EXCEPT ![name[c]] = IF @ = NULL THEN c ELSE @]
      IN  /\ TableOK(namedClasses') /\ \A x \in DOMAIN Hash : Found(namedClasses', x) = new[x]
          /\ new \in [DOMAIN Hash -> Classes \cup {NULL}]
          /\ \A x \in DOMAIN Hash : new[x] # NULL => name[new[x]] = x /\ Live(new[x])
    BY <1>1, <1>2, <1>3, AddNamed
<1>10. /\ TableOK(namedClasses') /\ \A x \in DOMAIN Hash : Found(namedClasses', x) = named'[x]
       /\ named' \in [DOMAIN Hash -> Classes \cup {NULL}]
       /\ \A x \in DOMAIN Hash : named'[x] # NULL => name[named'[x]] = x /\ Live(named'[x])
    BY <1>1, <1>9
<1>11. \A d \in Classes : Live(d)' <=> Live(d)
    BY <1>8, SameLive
<1>12. TodoOK' /\ SameConnect /\ FlushOK' /\ \A m : ToRealize(m) => ToRealize(m)'
    BY <1>1, StillFree DEF ToRealize
<1>13. SameLinked
    BY <1>8, <1>12, LinkedKept
<1>14. TypeOK'
  <2>1. uninitialized' \in [Nodes -> Classes \cup {NULL}]
    BY <1>1, <1>2 DEF TypeOK
  <2>2. realized' \subseteq Nodes
    BY <1>1, <1>2 DEF TypeOK
  <2>3. QED
    BY <1>1, <1>7, <1>10, <2>1, <2>2 DEF TypeOK, tree
<1>15. PairOK' /\ TreeOK'
    BY <1>1, <1>8, PairKept, TreeKept DEF tree
<1>16. UseOK'
  <2>1. \A d \in Classes : uninitialized'[Meta(d)] = d => Live(d)
    BY <1>1, <1>2, <1>3, NodesAre DEF TypeOK, UseOK
  <2>2. QED
    BY <1>1, <1>11, <2>1, OpIs DEF UseOK
<1>17. NameOK'
  <2>1. \A x \in DOMAIN Hash : named'[x] # NULL => named'[x] \in Classes
    BY <1>10
  <2>2. QED
    BY <1>1, <1>10, <1>11, <2>1 DEF NameOK
<1>18. UpOK'
  <2>1. \A m \in realized' : Linked(m)'
    <3> SUFFICES ASSUME NEW m \in realized'
                 PROVE  Linked(m)'
      OBVIOUS
    <3>1. \A n : Linked(n) <=> isRealized(n)
      BY <1>1, FreeIs
    <3>2. m \in realized \/ m = Class(c) \/ m = Meta(c)
      BY <1>1
    <3>3. m \in Nodes /\ Linked(m)
      BY <1>2, <1>3, <3>1, <3>2 DEF UpOK, TypeOK
    <3>4. QED
      BY <1>13, <3>3 DEF SameLinked
  <2>2. \A m \in Nodes : isRealized(m)' <=> isRealized(m)
    BY <1>8 DEF SameFlags
  <2>3. \A m \in Nodes : superclass[m] \in Nodes \cup {NULL}
    BY DEF TypeOK
  <2>4. \A m \in Nodes : isRealized(m)' =>
            \/ superclass'[m] = NULL
            \/ isRealized(superclass[m])'
    BY <1>1, <2>2, <2>3, FreeIs DEF tree
  <2>5. \A d \in Classes : isRealized(Class(d))' => isRealized(Meta(d))'
    BY <1>1, <2>2, NodesAre, FreeIs
  <2>6. superclass' = superclass
    BY <1>1 DEF tree
  <2>7. QED
    BY <2>1, <2>4, <2>5, <2>6 DEF UpOK
<1>19. CategoryOK' /\ LinkOK'
    BY <1>1, <1>13, CategoryKept, LinkKept DEF tree
<1>20. QED
    BY <1>12, <1>14, <1>15, <1>16, <1>17, <1>18, <1>19

\* A field of a class and of its metaclass is set.
PairIsSet(V, old, c, f, g, new) ==
    /\ new \in [Nodes -> V] /\ new[Class(c)] = f /\ new[Meta(c)] = g
    /\ \A n \in Nodes : n[1] # c => new[n] = old[n]

\* A function whose values for a pair are set.
LEMMA PairSet ==
    ASSUME NEW V, NEW old \in [Nodes -> V], NEW c \in Classes, NEW f \in V, NEW g \in V
    PROVE  PairIsSet(V, old, c, f, g, [old EXCEPT ![Class(c)] = f, ![Meta(c)] = g])
BY NodesAre DEF PairIsSet

LEMMA RealizedIsLive ==
    ASSUME NEW c \in Classes, isRealized(Class(c))
    PROVE  Live(c)
BY DEF isRealized, Live

\* What objc_allocateClassPair is given.
LEMMA PairToMake ==
    ASSUME IInv, NEW t \in Threads, NEW c \in Addresses, NEW super \in Classes \cup {NULL},
           NEW x \in Names, objc_allocateClassPair(t, c, super, x)
    PROVE  /\ Free /\ ~ Live(c) /\ flags[Class(c)] = {} /\ flags[Meta(c)] = {}
           /\ super # NULL => /\ super \in Classes /\ super # c /\ Live(super)
                              /\ isRealized(Class(super)) /\ isRealized(Meta(super))
                              /\ isa[Class(super)] = Meta(super)
<1> USE DEF IInv
<1>1. Free /\ flags[Class(c)] = {}
    BY DEF objc_allocateClassPair
<1>2. c \in Classes /\ ~ Live(c)
    BY <1>1, RegistryAssumption DEF Live, Classes
<1>3. flags[Meta(c)] = {}
    BY <1>1 DEF PairOK, isRealized
<1>4. ASSUME super # NULL
      PROVE  /\ super \in Classes /\ super # c /\ Live(super)
             /\ isRealized(Class(super)) /\ isRealized(Meta(super))
             /\ isa[Class(super)] = Meta(super)
  <2>1. super \in Classes
    BY <1>4
  <2>2. Class(super) # NULL
    BY <2>1, NodesAre
  <2>3. isRealized(Class(super))
    BY <1>4, <2>2 DEF objc_allocateClassPair
  <2>4. Live(super) /\ super # c
    BY <1>2, <2>1, <2>3, RealizedIsLive
  <2>5. isRealized(Meta(super))
    BY <1>1, <2>1, <2>3, FreeIs
  <2>6. QED
    BY <2>1, <2>3, <2>4, <2>5 DEF TreeOK
<1>5. QED
    BY <1>1, <1>2, <1>3, <1>4

LEMMA AllocateIsOK ==
    ASSUME IInv, NEW t \in Threads, NEW c \in Addresses, NEW super \in Classes \cup {NULL},
           NEW x \in Names, objc_allocateClassPair(t, c, super, x)
    PROVE  IInv'
<1> USE DEF IInv
<1>1. /\ c \in Classes /\ c \notin StaticClasses /\ Class(c) \in Nodes /\ Meta(c) \in Nodes
      /\ Class(c) # Meta(c)
    BY NodesAre, RegistryAssumption DEF Classes
<1>2. /\ Free /\ ~ Live(c) /\ flags[Class(c)] = {} /\ flags[Meta(c)] = {}
      /\ super # NULL => /\ super \in Classes /\ super # c /\ Live(super)
                         /\ isRealized(Class(super)) /\ isRealized(Meta(super))
                         /\ isa[Class(super)] = Meta(super)
    BY PairToMake
<1>3. PICK up : up = IF super = NULL THEN NULL ELSE Class(super)
    OBVIOUS
<1>4. PICK metaUp : metaUp = IF super = NULL THEN Class(c) ELSE Meta(super)
    OBVIOUS
<1>5. PICK f : f = {RW_REALIZED, RW_CONSTRUCTING}
    OBVIOUS
<1>6. PICK metaIsa : metaIsa = IF super = NULL THEN Meta(c) ELSE isa[isa[Class(super)]]
    OBVIOUS
<1>7. PICK one : one = addSubclass(Links, up, Class(c))
    OBVIOUS
<1>8. PICK both : both = addSubclass(one, metaUp, Meta(c))
    OBVIOUS
<1>9. /\ name' = [name EXCEPT ![c] = x]
      /\ flags' = [flags EXCEPT ![Class(c)] = f, ![Meta(c)] = f]
      /\ superclass' = [superclass EXCEPT ![Class(c)] = up, ![Meta(c)] = metaUp]
      /\ isa' = [isa EXCEPT ![Class(c)] = Meta(c), ![Meta(c)] = metaIsa]
      /\ firstSubclass' = both.first /\ nextSibling' = both.next
      /\ UNCHANGED <<runtimeLock, todo, op, methods, unattached, tables, mapped,
                     named, arrived, sent, stale>>
    BY <1>2, <1>3, <1>4, <1>5, <1>6, <1>7, <1>8 DEF objc_allocateClassPair
<1>10. /\ flags' \in [Nodes -> SUBSET {RO_META, RO_FROM_BUNDLE, RW_REALIZED, RW_CONSTRUCTING,
                                       RW_CONSTRUCTED}]
       /\ flags'[Class(c)] = f /\ flags'[Meta(c)] = f
       /\ \A n \in Nodes : n \notin {Class(c), Meta(c)} => flags'[n] = flags[n]
  <2>1. f \subseteq {RO_META, RO_FROM_BUNDLE, RW_REALIZED, RW_CONSTRUCTING, RW_CONSTRUCTED}
    BY <1>5
  <2>2. QED
    BY <1>1, <1>9, <2>1, FlagsTyped
<1>11. PICK V : V = Nodes \cup {NULL}
    OBVIOUS
<1>12. up \in V /\ metaUp \in V /\ metaUp # NULL
    BY <1>1, <1>2, <1>3, <1>4, <1>11, NodesAre
<1>13. /\ superclass' \in [Nodes -> V] /\ superclass'[Class(c)] = up /\ superclass'[Meta(c)] = metaUp
       /\ \A n \in Nodes : n[1] # c => superclass'[n] = superclass[n]
  <2>1. superclass \in [Nodes -> V]
    BY <1>11 DEF TypeOK
  <2>2. PairIsSet(V, superclass, c, up, metaUp,
                  [superclass EXCEPT ![Class(c)] = up, ![Meta(c)] = metaUp])
    BY <1>1, <1>12, <2>1, PairSet
  <2>3. QED
    BY <1>9, <2>2 DEF PairIsSet
<1>14. /\ isa' \in [Nodes -> V] /\ isa'[Class(c)] = Meta(c)
       /\ \A n \in Nodes : n[1] # c => isa'[n] = isa[n]
  <2>1. isa \in [Nodes -> V]
    BY <1>11 DEF TypeOK
  <2>2. metaIsa \in V
    <3>1. CASE super = NULL
      BY <1>1, <1>6, <1>11, <3>1
    <3>2. CASE super # NULL
      <4>1. Meta(super) \in Nodes /\ metaIsa = isa[Meta(super)]
        BY <1>2, <1>6, <3>2, NodesAre
      <4>2. QED
        BY <2>1, <4>1
    <3>3. QED
      BY <3>1, <3>2
  <2>3. Meta(c) \in V
    BY <1>1, <1>11
  <2>4. PairIsSet(V, isa, c, Meta(c), metaIsa,
                  [isa EXCEPT ![Class(c)] = Meta(c), ![Meta(c)] = metaIsa])
    BY <1>1, <2>1, <2>2, <2>3, PairSet
  <2>5. QED
    BY <1>9, <2>4 DEF PairIsSet
<1>15. \A n \in Nodes : n[1] # c => flags'[n] = flags[n]
    BY <1>10, NodesAre
<1>16. /\ RW_REALIZED \in flags'[Class(c)] /\ RW_REALIZED \in flags'[Meta(c)]
       /\ RW_REALIZED \notin flags[Class(c)] /\ RW_REALIZED \notin flags[Meta(c)]
    BY <1>2, <1>5, <1>10
<1>17. \A n \in Nodes : isRealized(n)' <=> isRealized(n) \/ n \in {Class(c), Meta(c)}
    BY <1>10, <1>16 DEF isRealized
<1>18. \A d \in Classes : Live(d)' <=> Live(d) \/ d = c
  <2> TAKE d \in Classes
  <2>1. CASE d = c
    BY <1>10, <1>16, <2>1 DEF Live
  <2>2. CASE d # c
    <3>1. flags'[Class(d)] = flags[Class(d)]
      BY <1>15, <2>2, NodesAre
    <3>2. QED
      BY <2>2, <3>1 DEF Live
  <2>3. QED
    BY <2>1, <2>2
<1>19. TodoOK' /\ SameConnect /\ FlushOK'
    BY <1>2, <1>9, StillFree
<1>20. /\ todo = <<>> /\ LinkedNodes = {m \in Nodes : isRealized(m)}
       /\ \A n : ~ ToRealize(n) /\ ~ ToConnect(n) /\ (Linked(n) <=> isRealized(n))
       /\ \A n \in Nodes : isRealized(n) => superclass[n] = NULL \/ isRealized(superclass[n])
       /\ \A d \in Classes : isRealized(Class(d)) => isRealized(Meta(d))
       /\ \E list : Listed(list, Links, LinkedNodes, superclass)
    BY <1>2, FreeIs
<1>21. \A n \in Nodes : Linked(n)' <=> isRealized(n)'
    BY <1>19, <1>20 DEF Linked, SameConnect
<1>22. \E list : Listed(list, Links', LinkedNodes', superclass')
  <2>1. PICK old : Listed(old, Links, LinkedNodes, superclass)
    BY <1>20
  <2>2. PICK S \in SUBSET Nodes : S = LinkedNodes
    BY DEF LinkedNodes
  <2>3. Class(c) \notin S /\ Meta(c) \notin S
    BY <1>16, <1>20, <2>2 DEF isRealized
  <2>4. \A m \in S : superclass'[m] = superclass[m]
    <3>1. \A m \in S : m \in Nodes /\ m[1] # c
      BY <2>3, NodesAre
    <3>2. QED
      BY <1>13, <3>1
  <2>5. Listed(old, Links, S, superclass')
    BY <2>1, <2>2, <2>4, ListedSame
  <2>6. PICK list1 : Listed(list1, one, S \cup {Class(c)}, superclass')
    <3>1. one = addSubclass(Links, superclass'[Class(c)], Class(c))
      BY <1>7, <1>13
    <3>2. QED
      BY <1>1, <1>11, <1>13, <2>3, <2>5, <3>1, ListedMore
  <2>7. PICK list2 : Listed(list2, both, (S \cup {Class(c)}) \cup {Meta(c)}, superclass')
    <3>1. both = addSubclass(one, superclass'[Meta(c)], Meta(c))
      BY <1>8, <1>13
    <3>2. PICK S1 : S1 = S \cup {Class(c)}
      OBVIOUS
    <3>3. S1 \in SUBSET Nodes /\ Meta(c) \notin S1
      BY <1>1, <2>3, <3>2
    <3>4. Listed(list1, one, S1, superclass')
      BY <2>6, <3>2
    <3>5. superclass' \in [Nodes -> Nodes \cup {NULL}]
      BY <1>11, <1>13
    <3>6. \E list2 : Listed(list2, both, S1 \cup {Meta(c)}, superclass')
      BY <1>1, <3>1, <3>3, <3>4, <3>5, ListedMore
    <3>7. QED
      BY <3>2, <3>6
  <2>8. both = Links'
    <3>1. both = [first |-> both.first, next |-> both.next]
      BY <2>7 DEF Listed
    <3>2. QED
      BY <1>9, <3>1 DEF Links
  <2>9. LinkedNodes' = (S \cup {Class(c)}) \cup {Meta(c)}
    <3>1. LinkedNodes' = {m \in Nodes : isRealized(m)'}
      BY <1>21 DEF LinkedNodes
    <3>2. S = {m \in Nodes : isRealized(m)}
      BY <1>20, <2>2
    <3>3. QED
      BY <1>1, <1>17, <3>1, <3>2
  <2>10. QED
    BY <2>7, <2>8, <2>9
<1>23. /\ firstSubclass' \in [Nodes -> Nodes \cup {NULL}]
       /\ nextSibling' \in [Nodes -> Nodes \cup {NULL}]
    BY <1>22 DEF Listed, Lists, Links
<1>24. TypeOK'
  <2>1. name' \in [Classes -> DOMAIN Hash \cup {NULL}]
    <3>1. x \in DOMAIN Hash
      BY RegistryAssumption
    <3>2. QED
      BY <1>1, <1>9, <3>1 DEF TypeOK
  <2>2. superclass' \in [Nodes -> Nodes \cup {NULL}] /\ isa' \in [Nodes -> Nodes \cup {NULL}]
    BY <1>11, <1>13, <1>14
  <2>3. QED
    BY <1>9, <1>10, <1>23, <2>1, <2>2 DEF TypeOK, tables
<1>25. PairOK'
  <2> SUFFICES ASSUME NEW d \in Addresses
               PROVE  \/ flags'[Class(d)] = {} /\ flags'[Meta(d)] = {}
                      \/ RW_REALIZED \in flags'[Class(d)] /\ RW_REALIZED \in flags'[Meta(d)]
    BY DEF PairOK, isRealized
  <2>1. CASE d = c
    BY <1>16, <2>1
  <2>2. CASE d # c
    <3>1. flags'[Class(d)] = flags[Class(d)] /\ flags'[Meta(d)] = flags[Meta(d)]
      BY <1>15, <2>2, NodesAre DEF Classes
    <3>2. QED
      BY <3>1 DEF PairOK, isRealized
  <2>3. QED
    BY <2>1, <2>2
<1>26. TreeOK'
  <2>1. ASSUME NEW d \in Classes, Live(d)'
        PROVE  /\ isa'[Class(d)] = Meta(d)
               /\ \/ superclass'[Class(d)] = NULL /\ superclass'[Meta(d)] = Class(d)
                  \/ \E e \in Classes : /\ Live(e)'
                                        /\ superclass'[Class(d)] = Class(e)
                                        /\ superclass'[Meta(d)] = Meta(e)
    <3>1. CASE d = c /\ super = NULL
      BY <1>3, <1>4, <1>13, <1>14, <3>1
    <3>2. CASE d = c /\ super # NULL
      <4>1. super \in Classes /\ Live(super)' /\ up = Class(super) /\ metaUp = Meta(super)
        BY <1>2, <1>3, <1>4, <1>18, <3>2
      <4>2. QED
        BY <1>13, <1>14, <3>2, <4>1
    <3>3. CASE d # c
      <4>1. Live(d)
        BY <1>18, <2>1, <3>3
      <4>2. /\ superclass'[Class(d)] = superclass[Class(d)]
            /\ superclass'[Meta(d)] = superclass[Meta(d)] /\ isa'[Class(d)] = isa[Class(d)]
        BY <1>13, <1>14, <3>3, NodesAre
      <4>3. /\ isa[Class(d)] = Meta(d)
            /\ \/ superclass[Class(d)] = NULL /\ superclass[Meta(d)] = Class(d)
               \/ \E e \in Classes : /\ Live(e)
                                     /\ superclass[Class(d)] = Class(e)
                                     /\ superclass[Meta(d)] = Meta(e)
        BY <4>1 DEF TreeOK
      <4>4. QED
        BY <1>18, <4>2, <4>3
    <3>4. QED
      BY <3>1, <3>2, <3>3
  <2>2. ASSUME NEW d \in Classes, ~ Live(d)'
        PROVE  superclass'[Class(d)] = NULL /\ superclass'[Meta(d)] = NULL
    <3>1. ~ Live(d) /\ d # c
      BY <1>18, <2>2
    <3>2. superclass[Class(d)] = NULL /\ superclass[Meta(d)] = NULL
      BY <3>1 DEF TreeOK
    <3>3. QED
      BY <1>13, <3>1, <3>2, NodesAre
  <2>3. ASSUME NEW d \in StaticClasses
        PROVE  isa'[Meta(d)] # NULL /\ isa'[Meta(d)][1] \in StaticClasses
    <3>1. isa'[Meta(d)] = isa[Meta(d)]
      BY <1>1, <1>14, NodesAre DEF Classes
    <3>2. QED
      BY <3>1 DEF TreeOK
  <2>4. QED
    BY <2>1, <2>2, <2>3 DEF TreeOK
<1>27. UseOK'
    BY <1>9, <1>18, OpIs DEF UseOK, tables
<1>28. NameOK'
  <2>1. ASSUME NEW y \in DOMAIN Hash, named[y] # NULL
        PROVE  name'[named[y]] = y /\ Live(named[y])'
    <3>1. named[y] \in Classes /\ name[named[y]] = y /\ Live(named[y])
      BY <2>1 DEF NameOK, TypeOK
    <3>2. named[y] # c
      BY <1>2, <3>1
    <3>3. QED
      BY <1>9, <1>18, <3>1, <3>2 DEF TypeOK
  <2>2. ASSUME NEW d \in Classes, Live(d)'
        PROVE  name'[d] \in DOMAIN Hash
    <3>1. CASE d = c
      BY <1>1, <1>9, <3>1, RegistryAssumption DEF TypeOK
    <3>2. CASE d # c
      BY <1>1, <1>9, <1>18, <2>2, <3>2 DEF TypeOK, NameOK
    <3>3. QED
      BY <3>1, <3>2
  <2>3. named' = named /\ namedClasses' = namedClasses
    BY <1>9 DEF tables
  <2>4. QED
    BY <2>1, <2>2, <2>3 DEF NameOK
<1>29. UpOK'
  <2>1. \A m \in realized' : Linked(m)'
    BY <1>9, <1>17, <1>20, <1>21 DEF UpOK, TypeOK, tables
  <2>2. \A m \in Nodes : isRealized(m)' =>
            superclass'[m] = NULL \/ isRealized(superclass[m])'
    <3> SUFFICES ASSUME NEW m \in Nodes, RW_REALIZED \in flags'[m], superclass'[m] # NULL
                 PROVE  RW_REALIZED \in flags'[superclass'[m]]
      BY DEF isRealized
    <3>1. CASE m = Class(c)
      <4>1. super # NULL /\ superclass'[m] = Class(super)
        BY <1>3, <1>13, <3>1
      <4>2. isRealized(Class(super)) /\ Class(super) \in Nodes
        BY <1>2, <4>1, NodesAre
      <4>3. QED
        BY <1>17, <4>1, <4>2 DEF isRealized
    <3>2. CASE m = Meta(c) /\ super = NULL
      <4>1. superclass'[m] = Class(c)
        BY <1>4, <1>13, <3>2
      <4>2. QED
        BY <1>16, <4>1
    <3>3. CASE m = Meta(c) /\ super # NULL
      <4>1. superclass'[m] = Meta(super)
        BY <1>4, <1>13, <3>3
      <4>2. isRealized(Meta(super)) /\ Meta(super) \in Nodes
        BY <1>2, <3>3, NodesAre
      <4>3. QED
        BY <1>17, <4>1, <4>2 DEF isRealized
    <3>4. CASE m # Class(c) /\ m # Meta(c)
      <4>1. m[1] # c
        BY <3>4, NodesAre
      <4>2. superclass'[m] = superclass[m] /\ superclass[m] \in Nodes /\ isRealized(m)
        BY <1>13, <1>15, <4>1 DEF TypeOK, isRealized
      <4>3. isRealized(superclass[m])
        BY <1>20, <4>2, NodesAre
      <4>4. QED
        BY <1>17, <4>2, <4>3 DEF isRealized
    <3>5. QED
      BY <3>1, <3>2, <3>3, <3>4
  <2>3. \A d \in Classes : isRealized(Class(d))' => isRealized(Meta(d))'
    <3> TAKE d \in Classes
    <3>1. CASE d = c
      BY <1>1, <1>17, <3>1
    <3>2. CASE d # c
      BY <1>17, <1>20, <3>2, NodesAre
    <3>3. QED
      BY <3>1, <3>2
  <2>4. QED
    BY <2>1, <2>2, <2>3 DEF UpOK
<1>30. CategoryOK'
  <2> SUFFICES ASSUME NEW m \in StaticClasses \X {"class", "meta"}
               PROVE  IF Linked(m)'
                      THEN methods'[m] = Reverse(arrived'[m]) \o <<"base">> /\ unattached'[m] = <<>>
                      ELSE methods'[m] = <<>> /\ unattached'[m] = arrived'[m]
    BY DEF CategoryOK
  <2>1. m \in Nodes /\ m # Class(c) /\ m # Meta(c)
    BY <1>1, NodesAre
  <2>2. Linked(m)' <=> Linked(m)
    BY <1>17, <1>20, <1>21, <2>1
  <2>3. QED
    BY <1>9, <2>2 DEF CategoryOK
<1>31. LinkOK'
  <2>1. PICK list : Listed(list, Links', LinkedNodes', superclass')
    BY <1>22
  <2>2. /\ Lists(list, Links')
        /\ \A y \in Nodes : Range(list[y]) = {m \in Nodes : Linked(m)' /\ superclass'[m] = y}
    BY <2>1 DEF Listed, LinkedNodes
  <2>3. Lists(list, Links)'
    BY <2>2 DEF Lists
  <2>4. SubclassesAre(list)'
    BY <2>2, <2>3 DEF SubclassesAre
  <2>5. QED
    BY <2>4 DEF LinkOK
<1>32. QED
    BY <1>19, <1>24, <1>25, <1>26, <1>27, <1>28, <1>29, <1>30, <1>31

\* What objc_disposeClassPair is given: a pair that nobody is below.
LEMMA PairToDispose ==
    ASSUME IInv, NEW t \in Threads, NEW c \in Addresses, objc_disposeClassPair(t, c)
    PROVE  /\ Free /\ Live(c) /\ isRealized(Class(c)) /\ isRealized(Meta(c))
           /\ superclass[Meta(c)] # NULL
           /\ \A n \in Nodes : n[1] # c => superclass[n] = NULL \/ superclass[n][1] # c
           /\ \A s \in Threads : \A k \in DOMAIN op[s] : op[s][k].node[1] # c
<1> USE DEF IInv
<1>1. /\ Free /\ flags[Class(c)] # {} /\ MayDispose(c)
    BY DEF objc_disposeClassPair
<1>2. c \in Classes /\ Live(c)
    BY <1>1 DEF Live, Classes
<1>3. isRealized(Class(c)) /\ isRealized(Meta(c))
    BY <1>1 DEF PairOK
<1>4. superclass[Meta(c)] # NULL
  <2>1. \A d \in Classes : Class(d) # NULL /\ Meta(d) # NULL
    BY NodesAre
  <2>2. QED
    BY <1>2, <2>1 DEF TreeOK
<1>5. ASSUME NEW n \in Nodes, n[1] # c, superclass[n] # NULL
      PROVE  superclass[n][1] # c
  <2>1. superclass[n] # Class(c)
    BY <1>1, <1>5, NodesAre DEF MayDispose
  <2>2. PICK d \in Classes : d = n[1]
    BY NodesAre
  <2>3. superclass[Class(d)] # Class(c)
    BY <1>1, NodesAre DEF MayDispose
  <2>4. n = Class(d) \/ n = Meta(d)
    BY <2>2, NodesAre
  <2>5. Live(d)
    BY <1>5, <2>2, <2>4 DEF TreeOK
  <2>6. \/ superclass[Class(d)] = NULL /\ superclass[Meta(d)] = Class(d)
        \/ \E e \in Classes : superclass[Class(d)] = Class(e) /\ superclass[Meta(d)] = Meta(e)
    BY <2>5 DEF TreeOK
  <2>7. CASE superclass[Class(d)] = NULL /\ superclass[Meta(d)] = Class(d)
    BY <1>5, <2>2, <2>4, <2>7, NodesAre
  <2>8. CASE \E e \in Classes : superclass[Class(d)] = Class(e) /\ superclass[Meta(d)] = Meta(e)
    <3>1. PICK e \in Classes : superclass[Class(d)] = Class(e) /\ superclass[Meta(d)] = Meta(e)
      BY <2>8
    <3>2. e # c
      BY <2>3, <3>1
    <3>3. QED
      BY <2>4, <3>1, <3>2, NodesAre
  <2>9. QED
    BY <2>6, <2>7, <2>8
<1>6. \A s \in Threads : \A k \in DOMAIN op[s] : op[s][k].node[1] # c
    BY <1>1 DEF MayDispose
<1>7. QED
    BY <1>1, <1>2, <1>3, <1>4, <1>5, <1>6

\* The names when a class goes.
LEMMA RemoveNamed ==
    ASSUME TypeOK, NameOK, NEW c \in Classes, Live(c)
    PROVE  LET T == removeNamedClass(c)
               new == [x \in DOMAIN named |-> IF named[x] = c THEN NULL ELSE named[x]]
           IN  /\ TableOK(T) /\ \A x \in DOMAIN Hash : Found(T, x) = new[x]
               /\ new \in [DOMAIN Hash -> Classes \cup {NULL}]
               /\ \A x \in DOMAIN Hash : new[x] # NULL =>
                     new[x] # c /\ name[new[x]] = x /\ Live(new[x])
<1>1. PICK T : T = namedClasses
    OBVIOUS
<1>2. PICK key \in DOMAIN Hash : key = name[c]
    BY DEF NameOK
<1>3. TableOK(T) /\ Shaped(T) /\ \A x \in DOMAIN Hash : Found(T, x) = named[x]
    BY <1>1 DEF NameOK, TableOK
<1>4. /\ \A x \in DOMAIN Hash : named[x] # NULL => name[named[x]] = x /\ Live(named[x])
      /\ named \in [DOMAIN Hash -> Classes \cup {NULL}] /\ c # NULL
    BY NodesAre DEF NameOK, TypeOK
<1>5. PICK new : new = [x \in DOMAIN Hash |-> IF named[x] = c THEN NULL ELSE named[x]]
    OBVIOUS
<1>6. \A x \in DOMAIN Hash : named[x] = c => x = key
    BY <1>2, <1>4
<1>7. NXMapGet(T, key) = named[key]
    BY <1>3, GetIs
<1>8. PICK gone : gone = removeNamedClass(c)
    OBVIOUS
<1>9. TableOK(gone) /\ \A x \in DOMAIN Hash : Found(gone, x) = new[x]
  <2>1. CASE named[key] = c
    <3>1. gone = NXMapRemove(T, key)
      BY <1>1, <1>2, <1>7, <1>8, <2>1 DEF removeNamedClass
    <3>2. /\ TableOK(gone)
          /\ \A x : Found(gone, x) = IF x = key THEN NULL ELSE Found(T, x)
      BY <1>3, <3>1, RemoveIs
    <3>3. ASSUME NEW x \in DOMAIN Hash
          PROVE  Found(gone, x) = new[x]
      BY <1>3, <1>5, <1>6, <2>1, <3>2
    <3>4. QED
      BY <3>2, <3>3
  <2>2. CASE named[key] # c
    <3>1. gone = T
      BY <1>1, <1>2, <1>7, <1>8, <2>2 DEF removeNamedClass
    <3>2. \A x \in DOMAIN Hash : named[x] # c
      BY <1>6, <2>2
    <3>3. QED
      BY <1>3, <1>5, <3>1, <3>2
  <2>3. QED
    BY <2>1, <2>2
<1>10. new \in [DOMAIN Hash -> Classes \cup {NULL}]
    BY <1>4, <1>5
<1>11. \A x \in DOMAIN Hash : new[x] # NULL => new[x] # c /\ name[new[x]] = x /\ Live(new[x])
    BY <1>4, <1>5
<1>12. new = [x \in DOMAIN named |-> IF named[x] = c THEN NULL ELSE named[x]]
    BY <1>4, <1>5
<1>13. QED
    BY <1>8, <1>9, <1>10, <1>11, <1>12

\* The links when c and its metaclass are taken out and freed.
LEMMA LinksFreed ==
    ASSUME NEW S \in SUBSET Nodes, NEW sup \in [Nodes -> Nodes \cup {NULL}], NEW c \in Classes,
           Class(c) \in S, Meta(c) \in S,
           \A n \in Nodes : n[1] # c => sup[n] = NULL \/ sup[n][1] # c,
           NEW list, NEW links, Listed(list, links, S, sup),
           NEW one, one = IF sup[Meta(c)] = NULL THEN links
                          ELSE removeSubclass(links, sup[Meta(c)], Meta(c)),
           NEW both, both = IF sup[Class(c)] = NULL THEN one
                            ELSE removeSubclass(one, sup[Class(c)], Class(c)),
           NEW freed,
           freed = [first |-> [both.first EXCEPT ![Class(c)] = NULL, ![Meta(c)] = NULL],
                    next |-> [both.next EXCEPT ![Class(c)] = NULL, ![Meta(c)] = NULL]]
    PROVE  \E new : Listed(new, freed, {n \in S : n[1] # c}, sup)
<1>1. PICK list1 : Listed(list1, one, S \ {Meta(c)}, sup)
    BY ListedLess
<1>2. PICK S1 : S1 = S \ {Meta(c)} /\ Class(c) \in S1 /\ S1 \in SUBSET Nodes
  <2>1. Class(c) # Meta(c)
    BY NodesAre
  <2>2. QED
    BY <2>1
<1>3. PICK list2 : Listed(list2, both, S1 \ {Class(c)}, sup)
  <2>1. Listed(list1, one, S1, sup)
    BY <1>1, <1>2
  <2>2. S1 \in SUBSET Nodes /\ Class(c) \in S1
    BY <1>2
  <2>3. \E new : Listed(new, both, S1 \ {Class(c)}, sup)
    BY <2>1, <2>2, ListedLess
  <2>4. QED
    BY <2>3
<1>4. PICK rest \in SUBSET Nodes : rest = {n \in S : n[1] # c}
    OBVIOUS
<1>5. rest = S1 \ {Class(c)}
    BY <1>2, <1>4, NodesAre
<1>6. /\ Lists(list2, both) /\ both = [first |-> both.first, next |-> both.next]
      /\ \A x \in Nodes : Range(list2[x]) = {m \in rest : sup[m] = x}
    BY <1>3, <1>5 DEF Listed
<1>7. /\ list2 \in [Nodes -> Seq(Nodes)]
      /\ both.first \in [Nodes -> Nodes \cup {NULL}] /\ both.next \in [Nodes -> Nodes \cup {NULL}]
      /\ \A n \in Nodes : both.first[n] = IF list2[n] = <<>> THEN NULL ELSE list2[n][1]
      /\ \A n \in Nodes : \A k \in DOMAIN list2[n] :
            both.next[list2[n][k]] = IF k = Len(list2[n]) THEN NULL ELSE list2[n][k + 1]
      /\ \A m, n \in Nodes : \A j \in DOMAIN list2[m], k \in DOMAIN list2[n] :
            list2[m][j] = list2[n][k] => m = n /\ j = k
    BY <1>6 DEF Lists
<1>8. Class(c) \in Nodes /\ Meta(c) \in Nodes
    BY NodesAre
<1>9. \A x \in {Class(c), Meta(c)} : list2[x] = <<>>
  <2> SUFFICES ASSUME NEW x \in {Class(c), Meta(c)}
               PROVE  list2[x] = <<>>
    OBVIOUS
  <2>1. x \in Nodes /\ x[1] = c
    BY <1>8, NodesAre
  <2>2. \A m \in rest : sup[m] # x
    BY <1>4, <2>1, NodesAre
  <2>3. Range(list2[x]) = {}
    BY <1>6, <2>1, <2>2
  <2>4. list2[x] \in Seq(Nodes)
    BY <1>7, <2>1
  <2>5. PICK s \in Seq(Nodes) : s = list2[x]
    BY <2>4
  <2>6. Len(s) = 0
    <3>1. DOMAIN s = {}
      BY <2>3, <2>5 DEF Range
    <3>2. DOMAIN s = 1..Len(s) /\ Len(s) \in Nat
      OBVIOUS
    <3>3. QED
      BY <3>1, <3>2
  <2>7. QED
    BY <2>5, <2>6
<1>10. freed.first = both.first
  <2>1. both.first[Class(c)] = NULL /\ both.first[Meta(c)] = NULL
    BY <1>7, <1>8, <1>9
  <2>2. [both.first EXCEPT ![Class(c)] = NULL, ![Meta(c)] = NULL] = both.first
    BY <1>7, <2>1
  <2>3. QED
    BY <2>2
<1>11. /\ freed.next \in [Nodes -> Nodes \cup {NULL}]
       /\ \A n \in rest : freed.next[n] = both.next[n]
  <2>1. PICK next : next = both.next
    OBVIOUS
  <2>2. PICK new : new = [next EXCEPT ![Class(c)] = NULL, ![Meta(c)] = NULL]
    OBVIOUS
  <2>3. new \in [Nodes -> Nodes \cup {NULL}] /\ \A n \in Nodes : n[1] # c => new[n] = next[n]
    <3>1. PICK V : V = Nodes \cup {NULL}
      OBVIOUS
    <3>2. next \in [Nodes -> V] /\ NULL \in V
      BY <1>7, <2>1, <3>1
    <3>3. PairIsSet(V, next, c, NULL, NULL, [next EXCEPT ![Class(c)] = NULL, ![Meta(c)] = NULL])
      BY <3>2, PairSet
    <3>4. QED
      BY <2>2, <3>1, <3>3 DEF PairIsSet
  <2>4. freed.next = new
    BY <2>1, <2>2
  <2>5. QED
    BY <1>4, <2>1, <2>3, <2>4
<1>12. \A n \in Nodes : \A k \in DOMAIN list2[n] : list2[n][k] \in rest
    BY <1>6 DEF Range
<1>13. Lists(list2, freed)
  <2>1. \A n \in Nodes : \A k \in DOMAIN list2[n] :
            freed.next[list2[n][k]] = IF k = Len(list2[n]) THEN NULL ELSE list2[n][k + 1]
    <3> TAKE n \in Nodes
    <3> TAKE k \in DOMAIN list2[n]
    <3>1. list2[n][k] \in rest
      BY <1>12
    <3>2. freed.next[list2[n][k]] = both.next[list2[n][k]]
      BY <1>11, <3>1
    <3>3. both.next[list2[n][k]] = IF k = Len(list2[n]) THEN NULL ELSE list2[n][k + 1]
      BY <1>7
    <3>4. QED
      BY <3>2, <3>3
  <2>2. PICK first : first = freed.first
    OBVIOUS
  <2>3. PICK next : next = freed.next
    OBVIOUS
  <2>4. /\ first \in [Nodes -> Nodes \cup {NULL}] /\ next \in [Nodes -> Nodes \cup {NULL}]
        /\ \A n \in Nodes : first[n] = IF list2[n] = <<>> THEN NULL ELSE list2[n][1]
    <3>1. PICK old : old = both.first
      OBVIOUS
    <3>2. /\ old \in [Nodes -> Nodes \cup {NULL}]
          /\ \A n \in Nodes : old[n] = IF list2[n] = <<>> THEN NULL ELSE list2[n][1]
      BY <1>7, <3>1
    <3>3. first = old /\ next \in [Nodes -> Nodes \cup {NULL}]
      BY <1>10, <1>11, <2>2, <2>3, <3>1
    <3>4. QED
      BY <3>2, <3>3
  <2>5. QED
    BY <1>7, <2>1, <2>2, <2>3, <2>4 DEF Lists
<1>14. freed = [first |-> freed.first, next |-> freed.next]
    OBVIOUS
<1>15. QED
    BY <1>4, <1>6, <1>13, <1>14 DEF Listed

\* The links that objc_disposeClassPair leaves.
LEMMA DisposedLinks ==
    ASSUME IInv, NEW t \in Threads, NEW c \in Addresses, objc_disposeClassPair(t, c)
    PROVE  \E new : Listed(new, Links', {n \in LinkedNodes : n[1] # c}, superclass)
<1>1. /\ Free /\ isRealized(Class(c)) /\ isRealized(Meta(c)) /\ superclass[Meta(c)] # NULL
      /\ \A n \in Nodes : n[1] # c => superclass[n] = NULL \/ superclass[n][1] # c
    BY PairToDispose
<1>2. c \in Classes /\ Class(c) \in Nodes /\ Meta(c) \in Nodes
    BY NodesAre DEF Classes
<1>3. PICK list : Listed(list, Links, LinkedNodes, superclass)
    BY <1>1, FreeIs
<1>4. PICK S \in SUBSET Nodes : S = LinkedNodes /\ Class(c) \in S /\ Meta(c) \in S
  <2>1. LinkedNodes = {m \in Nodes : isRealized(m)}
    BY <1>1, FreeIs
  <2>2. LinkedNodes \in SUBSET Nodes /\ Class(c) \in LinkedNodes /\ Meta(c) \in LinkedNodes
    BY <1>1, <1>2, <2>1
  <2>3. QED
    BY <2>2
<1>5. PICK sup \in [Nodes -> Nodes \cup {NULL}] : sup = superclass
    BY DEF IInv, TypeOK
<1>6. PICK links : links = Links
    OBVIOUS
<1>7. PICK one : one = removeSubclass(links, sup[Meta(c)], Meta(c))
    OBVIOUS
<1>8. PICK both : both = IF sup[Class(c)] = NULL THEN one
                         ELSE removeSubclass(one, sup[Class(c)], Class(c))
    OBVIOUS
<1>9. PICK freed : freed = [first |-> [both.first EXCEPT ![Class(c)] = NULL, ![Meta(c)] = NULL],
                            next |-> [both.next EXCEPT ![Class(c)] = NULL, ![Meta(c)] = NULL]]
    OBVIOUS
<1>10. /\ firstSubclass' = [both.first EXCEPT ![Class(c)] = NULL, ![Meta(c)] = NULL]
       /\ nextSibling' = [both.next EXCEPT ![Class(c)] = NULL, ![Meta(c)] = NULL]
    BY <1>5, <1>6, <1>7, <1>8 DEF objc_disposeClassPair
<1>11. Links' = freed
    BY <1>9, <1>10 DEF Links
<1>12. one = IF sup[Meta(c)] = NULL THEN links ELSE removeSubclass(links, sup[Meta(c)], Meta(c))
    BY <1>1, <1>5, <1>7
<1>13. Listed(list, links, S, sup)
    BY <1>3, <1>4, <1>5, <1>6
<1>14. \A n \in Nodes : n[1] # c => sup[n] = NULL \/ sup[n][1] # c
    BY <1>1, <1>5
<1>15. \E new : Listed(new, freed, {n \in S : n[1] # c}, sup)
    BY <1>2, <1>4, <1>8, <1>9, <1>12, <1>13, <1>14, LinksFreed
<1>16. QED
    BY <1>4, <1>5, <1>11, <1>15

LEMMA DisposeIsOK ==
    ASSUME IInv, NEW t \in Threads, NEW c \in Addresses, objc_disposeClassPair(t, c)
    PROVE  IInv'
<1> USE DEF IInv
<1>1. /\ c \in Classes /\ c \notin StaticClasses /\ c # NULL /\ Class(c) \in Nodes /\ Meta(c) \in Nodes
      /\ Class(c) # Meta(c)
    BY NodesAre, RegistryAssumption DEF Classes
<1>2. /\ Free /\ Live(c) /\ isRealized(Class(c)) /\ isRealized(Meta(c))
      /\ \A n \in Nodes : n[1] # c => superclass[n] = NULL \/ superclass[n][1] # c
      /\ \A s \in Threads : \A k \in DOMAIN op[s] : op[s][k].node[1] # c
    BY PairToDispose
<1>3. /\ namedClasses' = removeNamedClass(c)
      /\ named' = [x \in DOMAIN named |-> IF named[x] = c THEN NULL ELSE named[x]]
      /\ name' = [name EXCEPT ![c] = NULL]
      /\ realized' = realized \ {Class(c), Meta(c)}
      /\ uninitialized' = [uninitialized EXCEPT ![Meta(c)] = NULL]
      /\ unattached' = [unattached EXCEPT ![Class(c)] = <<>>, ![Meta(c)] = <<>>]
      /\ flags' = [flags EXCEPT ![Class(c)] = {}, ![Meta(c)] = {}]
      /\ superclass' = [superclass EXCEPT ![Class(c)] = NULL, ![Meta(c)] = NULL]
      /\ isa' = [isa EXCEPT ![Class(c)] = NULL, ![Meta(c)] = NULL]
      /\ methods' = [methods EXCEPT ![Class(c)] = <<>>, ![Meta(c)] = <<>>]
      /\ sent' = sent \ {c}
      /\ UNCHANGED <<runtimeLock, todo, op, mapped, arrived, stale>>
    BY DEF objc_disposeClassPair
<1>4. PICK new : Listed(new, Links', {n \in LinkedNodes : n[1] # c}, superclass)
    BY DisposedLinks
<1>5. /\ flags' \in [Nodes -> SUBSET {RO_META, RO_FROM_BUNDLE, RW_REALIZED, RW_CONSTRUCTING,
                                      RW_CONSTRUCTED}]
      /\ flags'[Class(c)] = {} /\ flags'[Meta(c)] = {}
      /\ \A n \in Nodes : n \notin {Class(c), Meta(c)} => flags'[n] = flags[n]
    BY <1>1, <1>3, FlagsTyped
<1>6. PICK V : V = Nodes \cup {NULL}
    OBVIOUS
<1>7. superclass \in [Nodes -> V] /\ isa \in [Nodes -> V] /\ NULL \in V
    BY <1>6 DEF TypeOK
<1>8. /\ superclass' \in [Nodes -> V] /\ superclass'[Class(c)] = NULL /\ superclass'[Meta(c)] = NULL
      /\ \A n \in Nodes : n[1] # c => superclass'[n] = superclass[n]
  <2>1. PairIsSet(V, superclass, c, NULL, NULL,
                  [superclass EXCEPT ![Class(c)] = NULL, ![Meta(c)] = NULL])
    BY <1>1, <1>7, PairSet
  <2>2. QED
    BY <1>3, <2>1 DEF PairIsSet
<1>9. isa' \in [Nodes -> V] /\ \A n \in Nodes : n[1] # c => isa'[n] = isa[n]
  <2>1. PairIsSet(V, isa, c, NULL, NULL, [isa EXCEPT ![Class(c)] = NULL, ![Meta(c)] = NULL])
    BY <1>1, <1>7, PairSet
  <2>2. QED
    BY <1>3, <2>1 DEF PairIsSet
<1>10. /\ methods' \in [Nodes -> Seq(DOMAIN ClassOf \cup {"base"})]
       /\ \A n \in Nodes : n[1] # c => methods'[n] = methods[n]
  <2>1. PICK W : W = Seq(DOMAIN ClassOf \cup {"base"})
    OBVIOUS
  <2>2. methods \in [Nodes -> W] /\ <<>> \in W
    BY <2>1 DEF TypeOK
  <2>3. PairIsSet(W, methods, c, <<>>, <<>>, [methods EXCEPT ![Class(c)] = <<>>, ![Meta(c)] = <<>>])
    BY <1>1, <2>2, PairSet
  <2>4. QED
    BY <1>3, <2>1, <2>3 DEF PairIsSet
<1>11. /\ unattached' \in [Nodes -> Seq(DOMAIN ClassOf)]
       /\ \A n \in Nodes : n[1] # c => unattached'[n] = unattached[n]
  <2>1. PICK W : W = Seq(DOMAIN ClassOf)
    OBVIOUS
  <2>2. unattached \in [Nodes -> W] /\ <<>> \in W
    BY <2>1 DEF TypeOK
  <2>3. PairIsSet(W, unattached, c, <<>>, <<>>,
                  [unattached EXCEPT ![Class(c)] = <<>>, ![Meta(c)] = <<>>])
    BY <1>1, <2>2, PairSet
  <2>4. QED
    BY <1>3, <2>1, <2>3 DEF PairIsSet
<1>12. \A n \in Nodes : n[1] # c => flags'[n] = flags[n]
    BY <1>5, NodesAre
<1>13. \A n \in Nodes : isRealized(n)' <=> isRealized(n) /\ n[1] # c
  <2> TAKE n \in Nodes
  <2>1. CASE n[1] = c
    <3>1. n = Class(c) \/ n = Meta(c)
      BY <2>1, NodesAre
    <3>2. QED
      BY <1>5, <2>1, <3>1 DEF isRealized
  <2>2. CASE n[1] # c
    BY <1>12, <2>2 DEF isRealized
  <2>3. QED
    BY <2>1, <2>2
<1>14. \A d \in Classes : Live(d)' <=> Live(d) /\ d # c
  <2> TAKE d \in Classes
  <2>1. CASE d = c
    BY <1>1, <1>5, <2>1 DEF Live
  <2>2. CASE d # c
    <3>1. flags'[Class(d)] = flags[Class(d)]
      BY <1>12, <2>2, NodesAre
    <3>2. QED
      BY <2>2, <3>1 DEF Live
  <2>3. QED
    BY <2>1, <2>2
<1>15. TodoOK' /\ SameConnect /\ FlushOK'
    BY <1>2, <1>3, StillFree
<1>16. /\ LinkedNodes = {m \in Nodes : isRealized(m)}
       /\ \A n : ~ ToRealize(n) /\ ~ ToConnect(n) /\ (Linked(n) <=> isRealized(n))
       /\ \A n \in Nodes : isRealized(n) => superclass[n] = NULL \/ isRealized(superclass[n])
       /\ \A d \in Classes : isRealized(Class(d)) => isRealized(Meta(d))
    BY <1>2, FreeIs
<1>17. \A n \in Nodes : Linked(n)' <=> isRealized(n)'
    BY <1>15, <1>16 DEF Linked, SameConnect
<1>18. LET gone == removeNamedClass(c)
           left == [x \in DOMAIN named |-> IF named[x] = c THEN NULL ELSE named[x]]
       IN  /\ TableOK(gone) /\ \A x \in DOMAIN Hash : Found(gone, x) = left[x]
           /\ left \in [DOMAIN Hash -> Classes \cup {NULL}]
           /\ \A x \in DOMAIN Hash : left[x] # NULL =>
                 left[x] # c /\ name[left[x]] = x /\ Live(left[x])
    BY <1>1, <1>2, RemoveNamed
<1>19. /\ TableOK(namedClasses') /\ \A x \in DOMAIN Hash : Found(namedClasses', x) = named'[x]
       /\ named' \in [DOMAIN Hash -> Classes \cup {NULL}]
       /\ \A x \in DOMAIN Hash : named'[x] # NULL =>
             named'[x] # c /\ name[named'[x]] = x /\ Live(named'[x])
    BY <1>3, <1>18
<1>20. TypeOK'
  <2>1. /\ firstSubclass' \in [Nodes -> Nodes \cup {NULL}]
        /\ nextSibling' \in [Nodes -> Nodes \cup {NULL}]
    BY <1>4 DEF Listed, Lists, Links
  <2>2. name' \in [Classes -> DOMAIN Hash \cup {NULL}]
    BY <1>1, <1>3 DEF TypeOK
  <2>3. uninitialized' \in [Nodes -> Classes \cup {NULL}]
    BY <1>1, <1>3 DEF TypeOK
  <2>4. superclass' \in [Nodes -> Nodes \cup {NULL}] /\ isa' \in [Nodes -> Nodes \cup {NULL}]
    BY <1>6, <1>8, <1>9
  <2>5. realized' \subseteq Nodes /\ sent' \subseteq Classes
    BY <1>3 DEF TypeOK
  <2>6. QED
    BY <1>3, <1>5, <1>10, <1>11, <1>19, <2>1, <2>2, <2>3, <2>4, <2>5 DEF TypeOK
<1>21. PairOK'
  <2> SUFFICES ASSUME NEW d \in Addresses
               PROVE  \/ flags'[Class(d)] = {} /\ flags'[Meta(d)] = {}
                      \/ RW_REALIZED \in flags'[Class(d)] /\ RW_REALIZED \in flags'[Meta(d)]
    BY DEF PairOK, isRealized
  <2>1. CASE d = c
    BY <1>5, <2>1
  <2>2. CASE d # c
    <3>1. flags'[Class(d)] = flags[Class(d)] /\ flags'[Meta(d)] = flags[Meta(d)]
      BY <1>12, <2>2, NodesAre DEF Classes
    <3>2. QED
      BY <3>1 DEF PairOK, isRealized
  <2>3. QED
    BY <2>1, <2>2
<1>22. TreeOK'
  <2>1. ASSUME NEW d \in Classes, Live(d)'
        PROVE  /\ isa'[Class(d)] = Meta(d)
               /\ \/ superclass'[Class(d)] = NULL /\ superclass'[Meta(d)] = Class(d)
                  \/ \E e \in Classes : /\ Live(e)'
                                        /\ superclass'[Class(d)] = Class(e)
                                        /\ superclass'[Meta(d)] = Meta(e)
    <3>1. Live(d) /\ d # c
      BY <1>14, <2>1
    <3>2. /\ superclass'[Class(d)] = superclass[Class(d)]
          /\ superclass'[Meta(d)] = superclass[Meta(d)] /\ isa'[Class(d)] = isa[Class(d)]
      BY <1>8, <1>9, <3>1, NodesAre
    <3>3. /\ isa[Class(d)] = Meta(d)
          /\ \/ superclass[Class(d)] = NULL /\ superclass[Meta(d)] = Class(d)
             \/ \E e \in Classes : /\ Live(e)
                                   /\ superclass[Class(d)] = Class(e)
                                   /\ superclass[Meta(d)] = Meta(e)
      BY <3>1 DEF TreeOK
    <3>4. ASSUME NEW e \in Classes, superclass[Class(d)] = Class(e)
          PROVE  e # c
      BY <1>2, <3>1, <3>4, NodesAre
    <3>5. QED
      BY <1>14, <3>2, <3>3, <3>4
  <2>2. ASSUME NEW d \in Classes, ~ Live(d)'
        PROVE  superclass'[Class(d)] = NULL /\ superclass'[Meta(d)] = NULL
    <3>1. CASE d = c
      BY <1>8, <3>1
    <3>2. CASE d # c
      <4>1. superclass[Class(d)] = NULL /\ superclass[Meta(d)] = NULL
        BY <1>14, <2>2, <3>2 DEF TreeOK
      <4>2. QED
        BY <1>8, <3>2, <4>1, NodesAre
    <3>3. QED
      BY <3>1, <3>2
  <2>3. ASSUME NEW d \in StaticClasses
        PROVE  isa'[Meta(d)] # NULL /\ isa'[Meta(d)][1] \in StaticClasses
    <3>1. isa'[Meta(d)] = isa[Meta(d)]
      BY <1>1, <1>9, NodesAre DEF Classes
    <3>2. QED
      BY <3>1 DEF TreeOK
  <2>4. QED
    BY <2>1, <2>2, <2>3 DEF TreeOK
<1>23. UseOK'
  <2>1. ASSUME NEW s \in Threads, NEW k \in DOMAIN op[s]
        PROVE  Live(op[s][k].node[1])'
    <3>1. op[s][k].node[1] \in Classes
      BY OpIs
    <3>2. Live(op[s][k].node[1])
      BY DEF UseOK
    <3>3. op[s][k].node[1] # c
      BY <1>2
    <3>4. PICK d \in Classes : d = op[s][k].node[1]
      BY <3>1
    <3>5. d \in StaticClasses \/ flags'[Class(d)] # {}
      BY <1>14, <3>2, <3>3, <3>4 DEF Live
    <3>6. QED
      BY <1>3, <3>4, <3>5 DEF Live
  <2>2. ASSUME NEW d \in Classes, uninitialized'[Meta(d)] = d
        PROVE  Live(d)'
    <3>1. d # NULL
      BY NodesAre
    <3>2. d # c /\ uninitialized[Meta(d)] = d
      BY <1>1, <1>3, <2>2, <3>1, NodesAre DEF TypeOK
    <3>3. QED
      BY <1>14, <3>2 DEF UseOK
  <2>3. QED
    BY <1>3, <2>1, <2>2 DEF UseOK
<1>24. NameOK'
  <2>1. ASSUME NEW y \in DOMAIN Hash, named'[y] # NULL
        PROVE  name'[named'[y]] = y /\ Live(named[y])'
    <3>1. /\ named'[y] \in Classes /\ named'[y] # c /\ name[named'[y]] = y /\ Live(named'[y])
      BY <1>19, <2>1
    <3>2. name'[named'[y]] = y
      BY <1>3, <3>1 DEF TypeOK
    <3>3. PICK d \in Classes : d = named'[y]
      BY <3>1
    <3>4. d \in StaticClasses \/ flags'[Class(d)] # {}
      BY <1>14, <3>1, <3>3 DEF Live
    <3>5. QED
      BY <3>2, <3>3, <3>4 DEF Live
  <2>2. ASSUME NEW d \in Classes, Live(d)'
        PROVE  name'[d] \in DOMAIN Hash
    BY <1>3, <1>14, <2>2 DEF TypeOK, NameOK
  <2>3. QED
    BY <1>19, <2>1, <2>2 DEF NameOK
<1>25. UpOK'
  <2>1. \A m \in realized' : Linked(m)'
    <3> SUFFICES ASSUME NEW m \in realized'
                 PROVE  Linked(m)'
      OBVIOUS
    <3>1. m \in realized /\ m \in Nodes /\ m # Class(c) /\ m # Meta(c)
      BY <1>3 DEF TypeOK
    <3>2. isRealized(m) /\ m[1] # c
      BY <1>16, <3>1, NodesAre DEF UpOK
    <3>3. QED
      BY <1>13, <1>17, <3>1, <3>2
  <2>2. \A m \in Nodes : isRealized(m)' =>
            superclass'[m] = NULL \/ isRealized(superclass[m])'
    <3> SUFFICES ASSUME NEW m \in Nodes, RW_REALIZED \in flags'[m], superclass'[m] # NULL
                 PROVE  RW_REALIZED \in flags'[superclass'[m]]
      BY DEF isRealized
    <3>1. isRealized(m) /\ m[1] # c
      BY <1>13 DEF isRealized
    <3>2. superclass'[m] = superclass[m] /\ superclass[m] \in Nodes /\ superclass[m][1] # c
      BY <1>2, <1>8, <3>1 DEF TypeOK
    <3>3. isRealized(superclass[m])
      BY <1>16, <3>1, <3>2, NodesAre
    <3>4. QED
      BY <1>13, <3>2, <3>3 DEF isRealized
  <2>3. \A d \in Classes : isRealized(Class(d))' => isRealized(Meta(d))'
    BY <1>13, <1>16, NodesAre
  <2>4. QED
    BY <2>1, <2>2, <2>3 DEF UpOK
<1>26. CategoryOK'
  <2> SUFFICES ASSUME NEW m \in StaticClasses \X {"class", "meta"}
               PROVE  IF Linked(m)'
                      THEN methods'[m] = Reverse(arrived'[m]) \o <<"base">> /\ unattached'[m] = <<>>
                      ELSE methods'[m] = <<>> /\ unattached'[m] = arrived'[m]
    BY DEF CategoryOK
  <2>1. m \in Nodes /\ m[1] # c
    BY <1>1, NodesAre
  <2>2. Linked(m)' <=> Linked(m)
    BY <1>13, <1>16, <1>17, <2>1
  <2>3. methods'[m] = methods[m] /\ unattached'[m] = unattached[m] /\ arrived' = arrived
    BY <1>3, <1>10, <1>11, <2>1
  <2>4. QED
    BY <2>2, <2>3 DEF CategoryOK
<1>27. LinkOK'
  <2>1. PICK S \in SUBSET Nodes : S = {n \in LinkedNodes : n[1] # c}
    BY DEF LinkedNodes
  <2>2. \A m \in S : superclass'[m] = superclass[m]
    BY <1>8, <2>1 DEF LinkedNodes
  <2>3. Listed(new, Links', S, superclass')
    BY <1>4, <2>1, <2>2, ListedSame
  <2>4. S = {m \in Nodes : Linked(m)'}
    <3>1. S = {m \in Nodes : isRealized(m) /\ m[1] # c}
      BY <1>16, <2>1
    <3>2. QED
      BY <1>13, <1>17, <3>1
  <2>5. /\ Lists(new, Links')
        /\ \A y \in Nodes : Range(new[y]) = {m \in Nodes : Linked(m)' /\ superclass'[m] = y}
    BY <2>3, <2>4 DEF Listed
  <2>6. Lists(new, Links)'
    BY <2>5 DEF Lists
  <2>7. SubclassesAre(new)'
    BY <2>5, <2>6 DEF SubclassesAre
  <2>8. QED
    BY <2>7 DEF LinkOK
<1>28. QED
    BY <1>15, <1>20, <1>21, <1>22, <1>23, <1>24, <1>25, <1>26, <1>27

\* What class_setSuperclass is given.
LEMMA PairToMove ==
    ASSUME IInv, NEW t \in Threads, NEW c \in Classes, NEW newSuper \in Classes,
           class_setSuperclass(t, c, newSuper)
    PROVE  /\ Free /\ Live(c) /\ Live(newSuper)
           /\ isRealized(Class(c)) /\ isRealized(Meta(c))
           /\ isRealized(Class(newSuper)) /\ isRealized(Meta(newSuper))
           /\ isa[Class(c)] = Meta(c) /\ isa[Class(newSuper)] = Meta(newSuper)
           /\ superclass[Class(c)] # NULL /\ superclass[Meta(c)] # NULL
           /\ superclass[Meta(c)] = isa[superclass[Class(c)]]
<1> USE DEF IInv
<1>1. /\ Free /\ superclass[Class(c)] # NULL
      /\ {Class(c), Meta(c), Class(newSuper), Meta(newSuper)} \subseteq realized
    BY DEF class_setSuperclass
<1>2. /\ isRealized(Class(c)) /\ isRealized(Meta(c))
      /\ isRealized(Class(newSuper)) /\ isRealized(Meta(newSuper))
    BY <1>1 DEF UpOK, Linked
<1>3. Live(c) /\ Live(newSuper)
    BY <1>2, RealizedIsLive
<1>4. isa[Class(c)] = Meta(c) /\ isa[Class(newSuper)] = Meta(newSuper)
    BY <1>3 DEF TreeOK
<1>5. PICK d \in Classes : /\ Live(d) /\ superclass[Class(c)] = Class(d)
                           /\ superclass[Meta(c)] = Meta(d)
    BY <1>1, <1>3 DEF TreeOK
<1>6. isa[Class(d)] = Meta(d) /\ Meta(d) # NULL
    BY <1>5, NodesAre DEF TreeOK
<1>7. QED
    BY <1>1, <1>2, <1>3, <1>4, <1>5, <1>6

\* The links when c and its metaclass move to other superclasses.
LEMMA LinksMoved ==
    ASSUME NEW S \in SUBSET Nodes, NEW sup \in [Nodes -> Nodes \cup {NULL}],
           NEW other \in [Nodes -> Nodes \cup {NULL}], NEW c \in Classes,
           Class(c) \in S, Meta(c) \in S, sup[Class(c)] # NULL, sup[Meta(c)] # NULL,
           \A n \in Nodes : n[1] # c => other[n] = sup[n],
           NEW list, NEW links, Listed(list, links, S, sup),
           NEW one, one = removeSubclass(links, sup[Class(c)], Class(c)),
           NEW two, two = removeSubclass(one, sup[Meta(c)], Meta(c)),
           NEW three, three = addSubclass(two, other[Class(c)], Class(c)),
           NEW four, four = addSubclass(three, other[Meta(c)], Meta(c))
    PROVE  \E new : Listed(new, four, S, other)
<1>1. Class(c) \in Nodes /\ Meta(c) \in Nodes /\ Class(c) # Meta(c)
    BY NodesAre
<1>2. PICK list1 : Listed(list1, one, S \ {Class(c)}, sup)
  <2>1. one = IF sup[Class(c)] = NULL THEN links ELSE removeSubclass(links, sup[Class(c)], Class(c))
    OBVIOUS
  <2>2. QED
    BY <2>1, ListedLess
<1>3. PICK S1 : S1 = S \ {Class(c)} /\ Meta(c) \in S1 /\ S1 \in SUBSET Nodes
    BY <1>1
<1>4. PICK list2 : Listed(list2, two, S1 \ {Meta(c)}, sup)
  <2>1. Listed(list1, one, S1, sup) /\ S1 \in SUBSET Nodes /\ Meta(c) \in S1
    BY <1>2, <1>3
  <2>2. two = IF sup[Meta(c)] = NULL THEN one ELSE removeSubclass(one, sup[Meta(c)], Meta(c))
    OBVIOUS
  <2>3. \E new : Listed(new, two, S1 \ {Meta(c)}, sup)
    BY <2>1, <2>2, ListedLess
  <2>4. QED
    BY <2>3
<1>5. PICK S2 : /\ S2 = S1 \ {Meta(c)} /\ S2 \in SUBSET Nodes
                /\ Class(c) \notin S2 /\ Meta(c) \notin S2
  <2>1. PICK S2 : S2 = S1 \ {Meta(c)}
    OBVIOUS
  <2>2. S2 \in SUBSET Nodes /\ Class(c) \notin S2 /\ Meta(c) \notin S2
    BY <1>3, <2>1
  <2>3. QED
    BY <2>1, <2>2
<1>6. Listed(list2, two, S2, other)
  <2>1. \A m \in S2 : other[m] = sup[m]
    <3>1. \A m \in S2 : m \in Nodes /\ m[1] # c
      BY <1>5, NodesAre
    <3>2. QED
      BY <3>1
  <2>2. Listed(list2, two, S2, sup)
    BY <1>4, <1>5
  <2>3. QED
    BY <2>1, <2>2, ListedSame
<1>7. PICK list3 : Listed(list3, three, S2 \cup {Class(c)}, other)
  <2>1. \E new : Listed(new, three, S2 \cup {Class(c)}, other)
    BY <1>1, <1>5, <1>6, ListedMore
  <2>2. QED
    BY <2>1
<1>8. PICK S3 : /\ S3 = S2 \cup {Class(c)} /\ S3 \in SUBSET Nodes /\ Meta(c) \notin S3
  <2>1. PICK S3 : S3 = S2 \cup {Class(c)}
    OBVIOUS
  <2>2. S3 \in SUBSET Nodes /\ Meta(c) \notin S3
    BY <1>1, <1>5, <2>1
  <2>3. QED
    BY <2>1, <2>2
<1>9. \E new : Listed(new, four, S3 \cup {Meta(c)}, other)
  <2>1. Listed(list3, three, S3, other)
    BY <1>7, <1>8
  <2>2. QED
    <3>1. S3 \in SUBSET Nodes /\ Meta(c) \notin S3 /\ Meta(c) \in Nodes
      BY <1>1, <1>8
    <3>2. \E new : Listed(new, four, S3 \cup {Meta(c)}, other)
      BY <2>1, <3>1, ListedMore
    <3>3. QED
      BY <3>2
<1>10. S3 \cup {Meta(c)} = S
    BY <1>1, <1>3, <1>5, <1>8
<1>11. QED
    BY <1>9, <1>10

\* The links that class_setSuperclass leaves.
LEMMA MovedLinks ==
    ASSUME IInv, NEW t \in Threads, NEW c \in Classes, NEW newSuper \in Classes,
           class_setSuperclass(t, c, newSuper),
           superclass' \in [Nodes -> Nodes \cup {NULL}],
           superclass'[Class(c)] = Class(newSuper), superclass'[Meta(c)] = Meta(newSuper),
           \A n \in Nodes : n[1] # c => superclass'[n] = superclass[n]
    PROVE  \E new : Listed(new, Links', LinkedNodes, superclass')
<1>1. /\ Free /\ isRealized(Class(c)) /\ isRealized(Meta(c))
      /\ isa[Class(newSuper)] = Meta(newSuper)
      /\ superclass[Class(c)] # NULL /\ superclass[Meta(c)] # NULL
      /\ superclass[Meta(c)] = isa[superclass[Class(c)]]
    BY PairToMove
<1>2. Class(c) \in Nodes /\ Meta(c) \in Nodes
    BY NodesAre
<1>3. PICK list : Listed(list, Links, LinkedNodes, superclass)
    BY <1>1, FreeIs
<1>4. PICK S \in SUBSET Nodes : S = LinkedNodes /\ Class(c) \in S /\ Meta(c) \in S
  <2>1. LinkedNodes = {m \in Nodes : isRealized(m)}
    BY <1>1, FreeIs
  <2>2. LinkedNodes \in SUBSET Nodes /\ Class(c) \in LinkedNodes /\ Meta(c) \in LinkedNodes
    BY <1>1, <1>2, <2>1
  <2>3. QED
    BY <2>2
<1>5. PICK sup \in [Nodes -> Nodes \cup {NULL}] : sup = superclass
    BY DEF IInv, TypeOK
<1>6. PICK other \in [Nodes -> Nodes \cup {NULL}] : other = superclass'
    OBVIOUS
<1>7. PICK links : links = Links
    OBVIOUS
<1>8. PICK one : one = removeSubclass(links, sup[Class(c)], Class(c))
    OBVIOUS
<1>9. PICK two : two = removeSubclass(one, sup[Meta(c)], Meta(c))
    OBVIOUS
<1>10. PICK three : three = addSubclass(two, other[Class(c)], Class(c))
    OBVIOUS
<1>11. PICK four : four = addSubclass(three, other[Meta(c)], Meta(c))
    OBVIOUS
<1>12. firstSubclass' = four.first /\ nextSibling' = four.next
    BY <1>1, <1>5, <1>6, <1>7, <1>8, <1>9, <1>10, <1>11 DEF class_setSuperclass
<1>13. Listed(list, links, S, sup)
    BY <1>3, <1>4, <1>5, <1>7
<1>14. \A n \in Nodes : n[1] # c => other[n] = sup[n]
    BY <1>5, <1>6
<1>15. sup[Class(c)] # NULL /\ sup[Meta(c)] # NULL
    BY <1>1, <1>5
<1>16. PICK new : Listed(new, four, S, other)
  <2>1. \E new : Listed(new, four, S, other)
    BY <1>4, <1>8, <1>9, <1>10, <1>11, <1>13, <1>14, <1>15, LinksMoved
  <2>2. QED
    BY <2>1
<1>17. four = Links'
  <2>1. four = [first |-> four.first, next |-> four.next]
    BY <1>16 DEF Listed
  <2>2. QED
    BY <1>12, <2>1 DEF Links
<1>18. QED
    BY <1>4, <1>6, <1>16, <1>17

LEMMA TwoInARow ==
    ASSUME NEW S, NEW a \in S, NEW b \in S
    PROVE  /\ <<a, b>> \in Seq(S) /\ 1 \in DOMAIN <<a, b>> /\ 2 \in DOMAIN <<a, b>>
           /\ <<a, b>>[1] = a /\ <<a, b>>[2] = b
           /\ \A k \in DOMAIN <<a, b>> : <<a, b>>[k] \in {a, b}
    OBVIOUS

\* The caches that class_setSuperclass makes stale are flushed next.
LEMMA MovedIsFlushed ==
    ASSUME TypeOK, NEW c \in Classes, isRealized(Class(c)), isRealized(Meta(c)),
           TypeOK', UNCHANGED flags, stale = {},
           stale' = stale \cup Below(superclass', Class(c)) \cup Below(superclass', Meta(c)),
           todo' = <<FlushTask(Class(c)), FlushTask(Meta(c))>>
    PROVE  /\ todo' \in Seq(Task) /\ \A k \in DOMAIN todo' : todo'[k].task = "flush"
           /\ FlushOK'
<1>1. Class(c) \in Nodes /\ Meta(c) \in Nodes
    BY NodesAre
<1>2. PICK a : a = FlushTask(Class(c))
    OBVIOUS
<1>3. PICK b : b = FlushTask(Meta(c))
    OBVIOUS
<1>4. /\ a \in Task /\ a.task = "flush" /\ a.top = Class(c) /\ a.node = Class(c)
      /\ b \in Task /\ b.task = "flush" /\ b.top = Meta(c) /\ b.node = Meta(c)
    BY <1>1, <1>2, <1>3 DEF FlushTask, Task
<1>5. /\ todo' \in Seq(Task) /\ 1 \in DOMAIN todo' /\ 2 \in DOMAIN todo'
      /\ todo'[1] = a /\ todo'[2] = b /\ \A k \in DOMAIN todo' : todo'[k] \in {a, b}
    BY <1>2, <1>3, <1>4, TwoInARow
<1>6. \A k \in DOMAIN todo' : todo'[k].task = "flush"
    BY <1>4, <1>5
<1>7. PICK sup \in [Nodes -> Nodes \cup {NULL}] : sup = superclass'
    BY DEF TypeOK
<1>8. \A k \in DOMAIN todo' :
         /\ todo'[k].node \in Nodes /\ RW_REALIZED \in flags'[todo'[k].node]
         /\ todo'[k].top \in Above(superclass', todo'[k].node)
  <2>1. Class(c) \in Above(sup, Class(c)) /\ Meta(c) \in Above(sup, Meta(c))
    BY <1>1, AboveIs
  <2>2. RW_REALIZED \in flags[Class(c)] /\ RW_REALIZED \in flags[Meta(c)]
    BY DEF isRealized
  <2>3. QED
    BY <1>1, <1>4, <1>5, <1>7, <2>1, <2>2
<1>9. ASSUME NEW m \in stale'
      PROVE  /\ RW_REALIZED \in flags'[m]
             /\ \E k \in DOMAIN todo' : /\ todo'[k].task = "flush" /\ m \in Nodes
                                        /\ todo'[k].node \in Above(superclass', m)
  <2>1. PICK n \in {Class(c), Meta(c)} : m \in Below(superclass', n)
    BY <1>9
  <2>2. m \in Nodes /\ isRealized(m) /\ n \in Above(superclass', m)
    BY <2>1 DEF Below
  <2>3. PICK k \in DOMAIN todo' : todo'[k].task = "flush" /\ todo'[k].node = n
    BY <1>4, <1>5, <2>1
  <2>4. QED
    BY <2>2, <2>3 DEF isRealized
<1>10. FlushOK'
    BY <1>8, <1>9 DEF FlushOK, Remaining, isRealized
<1>11. QED
    BY <1>5, <1>6, <1>10

LEMMA SetSuperclassIsOK ==
    ASSUME IInv, NEW t \in Threads, NEW c \in Classes, NEW newSuper \in Classes,
           class_setSuperclass(t, c, newSuper)
    PROVE  IInv'
<1> USE DEF IInv
<1>1. /\ Class(c) \in Nodes /\ Meta(c) \in Nodes /\ Class(c) # Meta(c)
      /\ Class(newSuper) \in Nodes /\ Meta(newSuper) \in Nodes /\ t # NULL
    BY NodesAre
<1>2. /\ Free /\ Live(c) /\ Live(newSuper)
      /\ isRealized(Class(c)) /\ isRealized(Meta(c))
      /\ isRealized(Class(newSuper)) /\ isRealized(Meta(newSuper))
      /\ isa[Class(c)] = Meta(c) /\ isa[Class(newSuper)] = Meta(newSuper)
    BY PairToMove
<1>3. /\ superclass' = [superclass EXCEPT ![Class(c)] = Class(newSuper), ![Meta(c)] = Meta(newSuper)]
      /\ stale' = stale \cup Below(superclass', Class(c)) \cup Below(superclass', Meta(c))
      /\ runtimeLock' = t /\ todo' = <<FlushTask(Class(c)), FlushTask(Meta(c))>>
      /\ UNCHANGED <<op, flags, isa, methods, unattached, tables, mapped, history>>
    BY <1>2 DEF class_setSuperclass, Acquire
<1>4. PICK V : V = Nodes \cup {NULL}
    OBVIOUS
<1>5. superclass' \in [Nodes -> V]
      /\ superclass'[Class(c)] = Class(newSuper) /\ superclass'[Meta(c)] = Meta(newSuper)
      /\ \A n \in Nodes : n[1] # c => superclass'[n] = superclass[n]
  <2>1. superclass \in [Nodes -> V] /\ Class(newSuper) \in V /\ Meta(newSuper) \in V
    BY <1>1, <1>4 DEF TypeOK
  <2>2. PairIsSet(V, superclass, c, Class(newSuper), Meta(newSuper),
                  [superclass EXCEPT ![Class(c)] = Class(newSuper), ![Meta(c)] = Meta(newSuper)])
    BY <2>1, PairSet
  <2>3. QED
    BY <1>3, <2>2 DEF PairIsSet
<1>6. SameFlags
    BY <1>3, SameIfUnchanged
<1>7. /\ todo = <<>> /\ stale = {}
      /\ LinkedNodes = {m \in Nodes : isRealized(m)}
      /\ \A n : ~ ToRealize(n) /\ ~ ToConnect(n) /\ (Linked(n) <=> isRealized(n))
      /\ \A n \in Nodes : isRealized(n) => superclass[n] = NULL \/ isRealized(superclass[n])
      /\ \A d \in Classes : isRealized(Class(d)) => isRealized(Meta(d))
    BY <1>2, FreeIs
<1>8. superclass' \in [Nodes -> Nodes \cup {NULL}]
    BY <1>4, <1>5
<1>9. PICK new : Listed(new, Links', LinkedNodes, superclass')
    BY <1>5, <1>8, MovedLinks
<1>10. /\ firstSubclass' \in [Nodes -> Nodes \cup {NULL}]
       /\ nextSibling' \in [Nodes -> Nodes \cup {NULL}]
    BY <1>9 DEF Listed, Lists, Links
<1>11. stale' \subseteq Nodes
    BY <1>3, <1>7 DEF Below
<1>12. todo' \in Seq(Task)
  <2>1. /\ FlushTask(Class(c)) \in Task /\ FlushTask(Meta(c)) \in Task
    BY <1>1 DEF FlushTask, Task
  <2>2. QED
    BY <1>3, <2>1, TwoInARow
<1>13. TypeOK'
    BY <1>3, <1>8, <1>10, <1>11, <1>12 DEF TypeOK, tables, history
<1>14. (\A k \in DOMAIN todo' : todo'[k].task = "flush") /\ FlushOK'
  <2>1. UNCHANGED flags
    BY <1>3
  <2>2. /\ stale' = stale \cup Below(superclass', Class(c)) \cup Below(superclass', Meta(c))
        /\ todo' = <<FlushTask(Class(c)), FlushTask(Meta(c))>>
    BY <1>3
  <2>3. QED
    BY <1>2, <1>7, <1>13, <2>1, <2>2, MovedIsFlushed
<1>15. \A n : ~ ToConnect(n)' /\ ~ ToRealize(n)'
    BY <1>14 DEF ToConnect, ToRealize
<1>16. SameConnect
    BY <1>7, <1>15 DEF SameConnect
<1>17. TodoOK'
  <2>1. runtimeLock' # NULL /\ \A k \in DOMAIN todo' : todo'[k].task \in Late
    BY <1>1, <1>3, <1>14 DEF Late
  <2>2. QED
    BY <2>1, AllLate
<1>18. PairOK' /\ UseOK' /\ NameOK'
    BY <1>3, <1>6, PairKept, UseKept, NameKept DEF tables, history
<1>19. SameLinked
    BY <1>6, <1>16, LinkedKept
<1>20. CategoryOK'
    BY <1>3, <1>19, CategoryKept DEF history
<1>21. TreeOK'
  <2>1. \A d \in Classes : Live(d)' <=> Live(d)
    BY <1>6, SameLive
  <2>2. ASSUME NEW d \in Classes, Live(d)
        PROVE  /\ isa'[Class(d)] = Meta(d)
               /\ \/ superclass'[Class(d)] = NULL /\ superclass'[Meta(d)] = Class(d)
                  \/ \E e \in Classes : /\ Live(e)
                                        /\ superclass'[Class(d)] = Class(e)
                                        /\ superclass'[Meta(d)] = Meta(e)
    <3>1. CASE d = c
      BY <1>2, <1>3, <1>5, <3>1
    <3>2. CASE d # c
      <4>1. /\ superclass'[Class(d)] = superclass[Class(d)]
            /\ superclass'[Meta(d)] = superclass[Meta(d)]
        BY <1>5, <3>2, NodesAre
      <4>2. /\ isa[Class(d)] = Meta(d)
            /\ \/ superclass[Class(d)] = NULL /\ superclass[Meta(d)] = Class(d)
               \/ \E e \in Classes : /\ Live(e)
                                     /\ superclass[Class(d)] = Class(e)
                                     /\ superclass[Meta(d)] = Meta(e)
        BY <2>2 DEF TreeOK
      <4>3. isa' = isa
        BY <1>3
      <4>4. QED
        BY <4>1, <4>2, <4>3
    <3>3. QED
      BY <3>1, <3>2
  <2>3. ASSUME NEW d \in Classes, ~ Live(d)
        PROVE  superclass'[Class(d)] = NULL /\ superclass'[Meta(d)] = NULL
    <3>1. d # c
      BY <1>2, <2>3
    <3>2. /\ superclass'[Class(d)] = superclass[Class(d)]
          /\ superclass'[Meta(d)] = superclass[Meta(d)]
      BY <1>5, <3>1, NodesAre
    <3>3. QED
      BY <2>3, <3>2 DEF TreeOK
  <2>4. \A d \in StaticClasses : isa'[Meta(d)] # NULL /\ isa'[Meta(d)][1] \in StaticClasses
    BY <1>3 DEF TreeOK
  <2>5. QED
    BY <2>1, <2>2, <2>3, <2>4 DEF TreeOK
<1>22. UpOK'
  <2>1. \A m \in realized' : Linked(m)'
    <3>1. realized' = realized /\ flags' = flags
      BY <1>3 DEF tables
    <3>2. \A m \in realized : RW_REALIZED \in flags'[m]
      BY <3>1 DEF UpOK, Linked, isRealized
    <3>3. QED
      BY <1>15, <3>1, <3>2 DEF Linked, isRealized
  <2>2. \A m \in Nodes : isRealized(m)' =>
            superclass'[m] = NULL \/ isRealized(superclass[m])'
    <3> SUFFICES ASSUME NEW m \in Nodes, RW_REALIZED \in flags'[m], superclass'[m] # NULL
                 PROVE  RW_REALIZED \in flags'[superclass'[m]]
      BY DEF isRealized
    <3>1. flags' = flags
      BY <1>3
    <3>2. CASE m[1] = c
      <4>1. superclass'[m] = Class(newSuper) \/ superclass'[m] = Meta(newSuper)
        BY <1>5, <3>2, NodesAre
      <4>2. QED
        BY <1>2, <3>1, <4>1 DEF isRealized
    <3>3. CASE m[1] # c
      BY <1>5, <1>7, <3>1, <3>3 DEF isRealized
    <3>4. QED
      BY <3>2, <3>3
  <2>3. \A d \in Classes : isRealized(Class(d))' => isRealized(Meta(d))'
    BY <1>3, <1>7 DEF isRealized
  <2>4. QED
    BY <2>1, <2>2, <2>3 DEF UpOK
<1>23. LinkOK'
  <2>1. LinkedNodes' = LinkedNodes
    BY <1>19 DEF LinkedNodes, SameLinked
  <2>2. /\ Lists(new, Links')
        /\ \A y \in Nodes : Range(new[y]) = {m \in LinkedNodes' : superclass'[m] = y}
    BY <1>9, <2>1 DEF Listed
  <2>3. Lists(new, Links)'
    BY <2>2 DEF Lists
  <2>4. \A y \in Nodes : Range(new[y]) = {m \in Nodes : Linked(m)' /\ superclass'[m] = y}
    BY <2>2 DEF LinkedNodes
  <2>5. SubclassesAre(new)'
    BY <2>3, <2>4 DEF SubclassesAre
  <2>6. QED
    BY <2>5 DEF LinkOK
<1>24. QED
    BY <1>13, <1>14, <1>17, <1>18, <1>20, <1>21, <1>22, <1>23

-----------------------------------------------------------------------------
(* The invariant holds.                                                     *)

LEMMA StutterIsOK ==
    ASSUME IInv, UNCHANGED vars
    PROVE  IInv'
<1> USE DEF IInv
<1>1. UNCHANGED <<runtimeLock, todo, op, flags, superclass, isa, firstSubclass, nextSibling,
                  methods, unattached, namedClasses, uninitialized, realized, mapped,
                  name, named, arrived, sent, stale>>
    BY DEF vars, tree, tables, history
<1>2. SameFlags
    BY <1>1, SameIfUnchanged
<1>3. SameConnect /\ \A n : ToRealize(n)' <=> ToRealize(n)
    BY <1>1 DEF SameConnect, ToConnect, ToRealize
<1>4. SameLinked
    BY <1>2, <1>3, LinkedKept
<1>5. TypeOK'
    BY <1>1 DEF TypeOK
<1>6. TodoOK'
    BY <1>1 DEF TodoOK, Free, Live, isRealized
<1>7. PairOK' /\ TreeOK' /\ UseOK' /\ NameOK'
    BY <1>1, <1>2, PairKept, TreeKept, UseKept, NameKept
<1>8. UpOK'
    BY <1>1, <1>2, <1>3, UpKept
<1>9. CategoryOK' /\ LinkOK'
    BY <1>1, <1>4, CategoryKept, LinkKept
<1>10. FlushOK'
  <2>1. \A k \in DOMAIN todo' : todo'[k].task = "flush" =>
           todo'[k].node \in Nodes /\ \E j \in DOMAIN todo : todo[j] = todo'[k]
    BY <1>1, TaskIs DEF TypeOK
  <2>2. \A k \in DOMAIN todo : todo[k].task = "flush" =>
           \E j \in DOMAIN todo' : todo'[j] = todo[k]
    BY <1>1
  <2>3. QED
    BY <1>1, <1>2, <1>3, <2>1, <2>2, FlushKept
<1>11. QED
    BY <1>5, <1>6, <1>7, <1>8, <1>9, <1>10

LEMMA TasksAreOK ==
    ASSUME IInv, Tasks
    PROVE  IInv'
<1>1. CASE Discover
    BY <1>1, DiscoverIsOK
<1>2. CASE RealizeClass
  <2>1. CASE It.node = NULL \/ isRealized(It.node)
    BY <1>2, <2>1, RealizeClassDrops
  <2>2. CASE It.node # NULL /\ ~ isRealized(It.node)
    BY <1>2, <2>2, RealizeClassIsOK
  <2>3. QED
    BY <2>1, <2>2
<1>3. CASE Connect
    BY <1>3, ConnectIsOK
<1>4. CASE AddCategory
    BY <1>4, AddCategoryWaits, AddCategoryFlushes
<1>5. CASE Flush
    BY <1>5, FlushIsOK
<1>6. CASE Release
    BY <1>6, ReleaseIsOK
<1>7. QED
    BY <1>1, <1>2, <1>3, <1>4, <1>5, <1>6 DEF Tasks

LEMMA ProgramIsOK ==
    ASSUME IInv, NEW t \in Threads, Program(t)
    PROVE  IInv'
<1>1. CASE \E i \in Images : MapImages(t, i)
    BY <1>1, MapImagesIsOK
<1>2. CASE \E x \in DOMAIN Hash : look_up_class(t, x)
    BY <1>2, LookUpIsOK
<1>3. CASE \E c \in Messaged : Message(t, c)
    BY <1>3, MessageIsOK, RegistryAssumption
<1>4. CASE \E c \in Addresses, super \in Classes \cup {NULL}, x \in Names :
              objc_allocateClassPair(t, c, super, x)
    BY <1>4, AllocateIsOK
<1>5. CASE \E c \in Addresses : objc_registerClassPair(t, c)
    BY <1>5, RegisterIsOK
<1>6. CASE \E c \in Addresses : objc_disposeClassPair(t, c)
    BY <1>6, DisposeIsOK
<1>7. CASE \E c \in Moved, newSuper \in Classes : class_setSuperclass(t, c, newSuper)
    BY <1>7, SetSuperclassIsOK, RegistryAssumption
<1>8. QED
    BY <1>1, <1>2, <1>3, <1>4, <1>5, <1>6, <1>7 DEF Program

LEMMA NextIsOK ==
    ASSUME IInv, [Next]_vars
    PROVE  IInv'
<1>1. CASE Tasks
    BY <1>1, TasksAreOK
<1>2. CASE \E t \in Threads : Runtime(t)
    BY <1>2, RealizeIsOK, InitializeIsOK DEF Runtime
<1>3. CASE \E t \in Threads : Program(t)
    BY <1>3, ProgramIsOK
<1>4. CASE UNCHANGED vars
    BY <1>4, StutterIsOK
<1>5. QED
    BY <1>1, <1>2, <1>3, <1>4 DEF Next

\* Whatever is read, realized, made, moved and disposed of, in any order: the
\* invariant that the theorems below follow from.
THEOREM RegistryInvariant == Spec => []IInv
<1>1. Init => IInv
    BY InitIsOK
<1>2. IInv /\ [Next]_vars => IInv'
    BY NextIsOK
<1>3. QED
    BY <1>1, <1>2, PTL DEF Spec

-----------------------------------------------------------------------------
(* Theorems: what follows from it.                                          *)

\* The types of all that the registry keeps, for any number of threads,
\* images, classes and categories and any table of names.
THEOREM TypeCorrect == Spec => []TypeOK
<1>1. IInv => TypeOK
    BY DEF IInv
<1>2. QED
    BY <1>1, RegistryInvariant, PTL

\* The table of names finds the class that took a name first, through every
\* collision, growth and removal, and counts the names that are taken.
THEOREM NamesAreFoundCorrect == Spec => []NamesAreFound
<1>1. ASSUME IInv
      PROVE  NamesAreFound
  <2>1. PICK T : T = namedClasses
    OBVIOUS
  <2>2. TableOK(T) /\ Shaped(T) /\ \A x \in DOMAIN Hash : Found(T, x) = named[x]
    BY <1>1, <2>1 DEF IInv, NameOK, TableOK
  <2>3. \A x \in DOMAIN Hash : NXMapGet(T, x) = named[x]
    BY <2>2, GetIs
  <2>4. T.count = Cardinality({x \in DOMAIN Hash : Found(T, x) # NULL})
    BY <2>2, CountIs
  <2>5. {x \in DOMAIN Hash : Found(T, x) # NULL} = {x \in DOMAIN Hash : named[x] # NULL}
    BY <2>2
  <2>6. QED
    BY <2>1, <2>3, <2>4, <2>5 DEF NamesAreFound
<1>2. QED
    BY <1>1, RegistryInvariant, PTL

\* While the lock is free, the links of a realized class lead through its
\* realized subclasses and through no other class, and come to an end.
THEOREM SubclassListsAreExactCorrect == Spec => []SubclassListsAreExact
<1>1. ASSUME IInv
      PROVE  SubclassListsAreExact
  <2> SUFFICES ASSUME Free, NEW n \in Nodes, isRealized(n)
               PROVE  /\ SubclassList(Links, n)[Cardinality(Nodes)] = NULL
                      /\ Range(SubclassList(Links, n)) \ {NULL} =
                            {m \in Nodes : isRealized(m) /\ superclass[m] = n}
    BY DEF SubclassListsAreExact
  <2>1. /\ LinkedNodes = {m \in Nodes : isRealized(m)}
        /\ \E list : Listed(list, Links, LinkedNodes, superclass)
    BY <1>1, FreeIs
  <2>2. PICK list : Listed(list, Links, LinkedNodes, superclass)
    BY <2>1
  <2>3. /\ Lists(list, Links)
        /\ Range(list[n]) = {m \in Nodes : isRealized(m) /\ superclass[m] = n}
    BY <2>1, <2>2 DEF Listed
  <2>4. QED
    BY <2>3, ListIsWalked
<1>2. QED
    BY <1>1, RegistryInvariant, PTL

\* While the lock is free, every category that arrived is attached once to a
\* realized class, newest first, or waits in order for one that is not.
THEOREM CategoriesAreAttachedCorrect == Spec => []CategoriesAreAttached
<1>1. ASSUME IInv
      PROVE  CategoriesAreAttached
  <2> SUFFICES ASSUME Free, NEW n \in StaticClasses \X {"class", "meta"}
               PROVE  IF isRealized(n)
                      THEN methods[n] = Reverse(arrived[n]) \o <<"base">> /\ unattached[n] = <<>>
                      ELSE methods[n] = <<>> /\ unattached[n] = arrived[n]
    BY DEF CategoriesAreAttached
  <2>1. Linked(n) <=> isRealized(n)
    BY <1>1, FreeIs
  <2>2. QED
    BY <1>1, <2>1 DEF IInv, CategoryOK
<1>2. QED
    BY <1>1, RegistryInvariant, PTL

\* Whoever lets runtimeLock go has flushed every cache that a change of
\* methods or of a superclass made stale, whatever the tree of classes.
THEOREM ChangedMethodsAreFlushedCorrect == Spec => []ChangedMethodsAreFlushed
<1>1. IInv => ChangedMethodsAreFlushed
    BY FreeIs DEF ChangedMethodsAreFlushed
<1>2. QED
    BY <1>1, RegistryInvariant, PTL
=============================================================================
