------------------------- MODULE MethodCache_proof -------------------------
(***************************************************************************)
(* Theorems about MethodCache, for every set of threads and selectors,     *)
(* every class hierarchy, every hash and every initial size of a cache.    *)
(***************************************************************************)
EXTENDS MethodCache, Inductions

-----------------------------------------------------------------------------
(* Lemmas: the class hierarchy.                                            *)

LEMMA Heights ==
    \E N, height : Descends(Classes, Super, N, height)
<1>1. PICK height \in [Classes -> 0..Cardinality(Classes)] :
              \A c \in Classes : Super[c] # None => height[Super[c]] < height[c]
    BY MethodCacheAssumption DEF MethodCacheAssumption
<1>2. Cardinality(Classes) \in Nat
    BY MethodCacheAssumption, FS_CardinalityType DEF MethodCacheAssumption
<1>3. Descends(Classes, Super, Cardinality(Classes), height)
    BY <1>1, <1>2, MethodCacheAssumption DEF Descends, MethodCacheAssumption
<1>4. QED
    BY <1>3

LEMMA SuperIsClass ==
    ASSUME NEW c \in Classes
    PROVE  Super[c] \in Classes \cup {None} /\ (Super[c] \in Classes <=> Super[c] # None)
    BY MethodCacheAssumption DEF MethodCacheAssumption

Versions == [Classes -> [Sels -> 0..MaxVersion]]

Method(v, c, s) == [cls |-> c, sel |-> s, version |-> v[c][s]]

LEMMA MethodIsEntry ==
    ASSUME NEW v \in Versions, NEW c \in Classes, NEW s \in Sels
    PROVE  /\ Method(v, c, s) \in Entry /\ Method(v, c, s).sel = s
           /\ Forward(s) \in Entry /\ Forward(s).sel = s
<1>1. v[c][s] \in 0..MaxVersion /\ MaxVersion \in Nat
    BY MethodCacheAssumption DEF Versions, MethodCacheAssumption
<1>2. QED
    BY <1>1 DEF Method, Forward, Entry

\* What a message means is defined from the class upwards.
LEMMA ResolveRecurs ==
    ASSUME NEW v \in Versions, NEW s \in Sels
    PROVE  \A c \in Classes :
             /\ Resolve(v, c, s) = IF v[c][s] > 0 THEN Method(v, c, s)
                                   ELSE IF Super[c] = None THEN Forward(s)
                                   ELSE Resolve(v, Super[c], s)
             /\ Resolve(v, c, s) \in Entry /\ Resolve(v, c, s).sel = s
<1>n. PICK N, height : Descends(Classes, Super, N, height)
    BY Heights
<1>v. PICK V : V = {e \in Entry : e.sel = s}
    OBVIOUS
<1>s. PICK Stop : Stop = {c \in Classes : v[c][s] > 0 \/ Super[c] = None}
    OBVIOUS
<1>b. PICK base : base = [c \in Classes |-> IF v[c][s] > 0 THEN Method(v, c, s) ELSE Forward(s)]
    OBVIOUS
<1>t. PICK step : step = [c \in Classes |-> [e \in V |-> e]]
    OBVIOUS
<1>1. base \in [Classes -> V]
    BY <1>v, <1>b, MethodIsEntry
<1>2. step \in [Classes -> [V -> V]] /\ Stop \in SUBSET Classes
    BY <1>s, <1>t
<1>3. \A c \in Classes \ Stop : Super[c] \in Classes
    BY <1>s, SuperIsClass
<1>4. Recursion(Classes, Super, N, height, V, Stop, base, step)
    BY <1>n, <1>1, <1>2, <1>3 DEF Recursion
<1>5. PICK g \in [Classes -> V] : \A c \in Classes :
              g[c] = IF c \in Stop THEN base[c] ELSE step[c][g[Super[c]]]
    BY <1>4, HierarchyRecursion
<1>6. ASSUME NEW c \in Classes
      PROVE  g[c] = IF v[c][s] > 0 THEN Method(v, c, s)
                    ELSE IF Super[c] = None THEN Forward(s)
                    ELSE g[Super[c]]
    BY <1>3, <1>5, <1>s, <1>b, <1>t
<1>7. g = [c \in Classes |-> IF v[c][s] > 0 THEN Method(v, c, s)
                             ELSE IF Super[c] = None THEN Forward(s)
                             ELSE g[Super[c]]]
    BY <1>6
<1>8. PICK f : f = Meanings(v, s)
    OBVIOUS
<1>9. f = [c \in Classes |-> IF v[c][s] > 0 THEN Method(v, c, s)
                             ELSE IF Super[c] = None THEN Forward(s)
                             ELSE f[Super[c]]]
    BY <1>7, <1>8 DEF Meanings, Method
<1>10. \A c \in Classes : f[c] = IF v[c][s] > 0 THEN Method(v, c, s)
                                 ELSE IF Super[c] = None THEN Forward(s)
                                 ELSE f[Super[c]]
    BY <1>9
<1> DEFINE G == {c \in Classes : f[c] \in V}
<1>11. ASSUME NEW c \in Classes, Super[c] \in Classes => Super[c] \in G
       PROVE  c \in G
    BY <1>10, <1>11, <1>v, MethodIsEntry, SuperIsClass
<1>12. G = Classes
  <2>1. G \in SUBSET Classes
    OBVIOUS
  <2> HIDE DEF G
  <2>2. QED
    BY <1>n, <1>11, <2>1, HierarchyInduction
<1>13. \A c \in Classes : f[c] \in Entry /\ f[c].sel = s
    BY <1>12, <1>v
<1>14. QED
    BY <1>8, <1>10, <1>13 DEF Resolve

\* The classes below a class are found upwards, too.
LEMMA SubclassesRecur ==
    ASSUME NEW c \in Classes
    PROVE  \A d \in Classes :
              d \in Subclasses(c) <=> d = c \/ (Super[d] # None /\ Super[d] \in Subclasses(c))
<1>n. PICK N, height : Descends(Classes, Super, N, height)
    BY Heights
<1>s. PICK Stop : Stop = {d \in Classes : d = c \/ Super[d] = None}
    OBVIOUS
<1>b. PICK base : base = [d \in Classes |-> d = c]
    OBVIOUS
<1>t. PICK step : step = [d \in Classes |-> [e \in BOOLEAN |-> e]]
    OBVIOUS
<1>1. base \in [Classes -> BOOLEAN]
    BY <1>b
<1>2. step \in [Classes -> [BOOLEAN -> BOOLEAN]] /\ Stop \in SUBSET Classes
    BY <1>s, <1>t
<1>3. \A d \in Classes \ Stop : Super[d] \in Classes
    BY <1>s, SuperIsClass
<1>4. Recursion(Classes, Super, N, height, BOOLEAN, Stop, base, step)
    BY <1>n, <1>1, <1>2, <1>3 DEF Recursion
<1>5. PICK g \in [Classes -> BOOLEAN] : \A d \in Classes :
              g[d] = IF d \in Stop THEN base[d] ELSE step[d][g[Super[d]]]
    BY <1>4, HierarchyRecursion
<1>6. ASSUME NEW d \in Classes
      PROVE  g[d] = (d = c \/ (Super[d] # None /\ g[Super[d]]))
  <2>1. CASE d \in Stop
    <3>1. g[d] = (d = c)
      BY <1>5, <1>b, <2>1
    <3>2. d = c \/ Super[d] = None
      BY <1>s, <2>1
    <3>3. QED
      BY <3>1, <3>2
  <2>2. CASE d \notin Stop
    <3>1. Super[d] \in Classes /\ g[Super[d]] \in BOOLEAN
      BY <1>3, <1>5, <2>2
    <3>2. g[d] = g[Super[d]]
      BY <1>5, <1>t, <2>2, <3>1
    <3>3. d # c /\ Super[d] # None
      BY <1>s, <2>2
    <3>4. QED
      BY <3>1, <3>2, <3>3
  <2>3. QED
    BY <2>1, <2>2
<1>7. g = [d \in Classes |-> d = c \/ (Super[d] # None /\ g[Super[d]])]
    BY <1>6
<1>8. PICK f : f = Below(c)
    OBVIOUS
<1>9. f = [d \in Classes |-> d = c \/ (Super[d] # None /\ f[Super[d]])]
    BY <1>7, <1>8 DEF Below
<1>10. \A d \in Classes : f[d] <=> d = c \/ (Super[d] # None /\ f[Super[d]])
    BY <1>9
<1>11. QED
    BY <1>8, <1>10, SuperIsClass DEF Subclasses

\* A change of a class's method for a selector changes what messages mean only
\* for the class and those below it.
LEMMA OthersMeanTheSame ==
    ASSUME NEW v \in Versions, NEW w \in Versions, NEW c \in Classes,
           \A d \in Classes \ {c} : w[d] = v[d],
           NEW s \in Sels, NEW d \in Classes \ Subclasses(c)
    PROVE  Resolve(w, d, s) = Resolve(v, d, s)
<1>n. PICK N, height : Descends(Classes, Super, N, height)
    BY Heights
<1> DEFINE G == {e \in Classes : e \in Subclasses(c) \/ Resolve(w, e, s) = Resolve(v, e, s)}
<1>1. ASSUME NEW e \in Classes, Super[e] \in Classes => Super[e] \in G
      PROVE  e \in G
  <2> SUFFICES ASSUME e \notin Subclasses(c)
               PROVE  Resolve(w, e, s) = Resolve(v, e, s)
    OBVIOUS
  <2>1. e # c /\ (Super[e] # None => Super[e] \notin Subclasses(c))
    BY SubclassesRecur
  <2>2. w[e] = v[e] /\ Method(w, e, s) = Method(v, e, s)
    BY <2>1 DEF Method
  <2>3. Super[e] # None => Resolve(w, Super[e], s) = Resolve(v, Super[e], s)
    BY <1>1, <2>1, SuperIsClass
  <2>4. QED
    BY <2>2, <2>3, ResolveRecurs
<1>2. G = Classes
  <2>1. G \in SUBSET Classes
    OBVIOUS
  <2> HIDE DEF G
  <2>2. QED
    BY <1>n, <1>1, <2>1, HierarchyInduction
<1>3. d \in G
    BY <1>2
<1>4. QED
    BY <1>3

-----------------------------------------------------------------------------
(* Lemmas: going round the buckets.                                        *)

\* m goes q times into a, and r remains.
Divided(a, m, q, r) == a \in Nat /\ m \in Nat \ {0} /\ q \in Nat /\ r \in 0..m - 1 /\ a = q * m + r

LEMMA Division ==
    ASSUME NEW a \in Nat, NEW m \in Nat \ {0}
    PROVE  \E q \in Nat, r \in 0..m - 1 : Divided(a, m, q, r) /\ r = a % m
<1>1. a \div m \in Nat /\ a % m \in 0..m - 1
    OBVIOUS
<1>2. PICK q \in Nat : q = a \div m
    BY <1>1
<1>3. PICK r \in 0..m - 1 : r = a % m
    BY <1>1
<1>4. PICK p \in Int : p = q * m
    OBVIOUS
<1>5. r = a - p
    BY <1>2, <1>3, <1>4
<1>6. a = p + r
    BY <1>5
<1>7. QED
    BY <1>3, <1>4, <1>6 DEF Divided

LEMMA RemainderIsUnique ==
    ASSUME NEW a, NEW m, NEW q, NEW r, Divided(a, m, q, r)
    PROVE  a % m = r
    BY DEF Divided

\* The bucket after the next is the next bucket's next.
LEMMA NextBucket ==
    ASSUME NEW m \in Nat \ {0}, NEW a \in Nat
    PROVE  (a + 1) % m = ((a % m) + 1) % m
<1>1. PICK q \in Nat, r \in 0..m - 1 : Divided(a, m, q, r) /\ r = a % m
    BY Division
<1>2. CASE r + 1 < m
  <2>1. Divided(a + 1, m, q, r + 1)
    BY <1>1, <1>2 DEF Divided
  <2>2. Divided(r + 1, m, 0, r + 1)
    BY <1>2 DEF Divided
  <2>3. (a + 1) % m = r + 1 /\ (r + 1) % m = r + 1
    BY <2>1, <2>2, RemainderIsUnique
  <2>4. QED
    BY <1>1, <2>3
<1>3. CASE r + 1 = m
  <2>1. (q + 1) * m = q * m + m
    OBVIOUS
  <2>2. Divided(a + 1, m, q + 1, 0)
    BY <1>1, <1>3, <2>1 DEF Divided
  <2>3. Divided(r + 1, m, 1, 0)
    BY <1>3 DEF Divided
  <2>4. (a + 1) % m = 0 /\ (r + 1) % m = 0
    BY <2>2, <2>3, RemainderIsUnique
  <2>5. QED
    BY <1>1, <2>4
<1>4. QED
    BY <1>2, <1>3

\* m buckets in a row, from any one on, are all of them.
LEMMA AllBuckets ==
    ASSUME NEW m \in Nat \ {0}, NEW h \in Nat, NEW i \in 0..m - 1
    PROVE  \E n \in 0..m - 1 : (h + n) % m = i
<1>1. PICK q \in Nat, r \in 0..m - 1 : Divided(h, m, q, r)
    BY Division
<1>2. CASE r <= i
  <2>1. Divided(h + (i - r), m, q, i)
    BY <1>1, <1>2 DEF Divided
  <2>2. (h + (i - r)) % m = i /\ i - r \in 0..m - 1
    BY <1>2, <2>1, RemainderIsUnique
  <2>3. QED
    BY <2>2
<1>3. CASE i < r
  <2>1. (q + 1) * m = q * m + m
    OBVIOUS
  <2>2. Divided(h + (i + m - r), m, q + 1, i)
    BY <1>1, <1>3, <2>1 DEF Divided
  <2>3. (h + (i + m - r)) % m = i /\ i + m - r \in 0..m - 1
    BY <1>3, <2>2, RemainderIsUnique
  <2>4. QED
    BY <2>3
<1>4. QED
    BY <1>2, <1>3

-----------------------------------------------------------------------------
(* The inductive invariant.                                                *)

Holding == {"fill", "clear", "insert", "unlock", "flush"}

\* Whoever is in the middle of a fill or of a change holds runtimeLock.
LockOK == \A t \in Threads : call[t].at \in Holding <=> lock = t

\* What t may be doing at each place.
CallOK(t) ==
    LET c == call[t] IN
    /\ c.at = "idle" => c = Idle
    /\ c.at \notin {"idle", "flush", "clear"} => c.cls \in Classes
    /\ c.cls = None <=> c.sel = None
    /\ c.at \in {"probe", "clear"} <=> c.block # None
    /\ c.entry # None => c.at \in {"fill", "clear", "insert"}
    /\ c.entry # None => c.cls \in Classes /\ c.todo = {} /\ c.then = "idle"
    /\ c.at \in {"fill", "insert"} => c.entry # None
    /\ c.at = "insert" => cache[c.cls] # None
    /\ c.at = "clear" => \E d \in Classes : cache[d] = c.block
    /\ c.at = "clear" /\ c.entry # None => cache[c.cls] = c.block
    /\ c.at \in {"probe", "clear"} => c.index < Size(c.block)
    /\ c.at = "insert" => c.index < Size(cache[c.cls])
    /\ c.at \notin {"probe", "clear", "insert"} => c.index = 0
    /\ c.at \notin {"clear", "flush"} => c.then = "idle" /\ c.todo = {}
    /\ c.cls = None <=> (c.at = "idle" \/ (c.at \in {"clear", "flush"} /\ c.entry = None /\ c.then = "idle"))

CallsOK == \A t \in Threads : CallOK(t)

HasEmpty(k) == \E i \in DOMAIN buckets[k] : buckets[k][i] = None

\* No block is the cache of two classes, or of a class and garbage.
BlocksOK ==
    /\ \A c, d \in Classes : cache[c] # None /\ cache[c] = cache[d] => c = d
    /\ \A c \in Classes : cache[c] # None => cache[c] \notin garbage /\ Size(cache[c]) >= 2
    /\ \A k \in garbage : Size(k) >= 2
    /\ \A k \in Caches : Size(k) > 0 => HasEmpty(k) /\ 4 * occupied[k] <= 3 * Size(k)

\* A probe for s in k comes as far as the bucket i.
Reached(k, s, i) ==
    \E d \in 0..Size(k) - 1 :
        /\ (HASH[s] + d) % Size(k) = i
        /\ \A n \in 0..d - 1 : Bucket(k, (HASH[s] + n) % Size(k)) # None

\* A probe for any entry's selector finds it, and no other.
Orderly(k) ==
    \A i \in 0..Size(k) - 1 : Bucket(k, i) # None =>
        /\ Reached(k, Bucket(k, i).sel, i)
        /\ \A j \in 0..Size(k) - 1 :
               Bucket(k, j) # None /\ Bucket(k, j).sel = Bucket(k, i).sel => j = i

Full(k) == {i \in DOMAIN buckets[k] : buckets[k][i] # None}

Absent(k, s) == \A i \in 0..Size(k) - 1 : Bucket(k, i) # None => Bucket(k, i).sel # s

Clearing(c) == \E t \in Threads : At(t, "clear") /\ call[t].block = cache[c]
Inserting(c) == \E t \in Threads : At(t, "insert") /\ call[t].cls = c

TableOK(c, k) ==
    /\ Orderly(k)
    /\ occupied[k] = Cardinality(Full(k)) + (IF Inserting(c) THEN 1 ELSE 0)

TablesOK == \A c \in Classes, k \in Caches : cache[c] = k /\ ~ Clearing(c) => TableOK(c, k)

FillOK(t) ==
    LET c == call[t] IN
    /\ c.at = "fill" => c.entry.sel = c.sel
    /\ c.at = "fill" /\ cache[c.cls] # None => Absent(cache[c.cls], c.sel)
    /\ c.at = "clear" => \A i \in 0..c.index - 1 : Bucket(c.block, i) = None
    /\ c.at = "clear" => occupied[c.block] = IF c.entry = None THEN 0 ELSE 1
    /\ c.at = "clear" /\ c.entry # None => c.entry.sel = c.sel
    /\ c.at = "insert" => /\ Reached(cache[c.cls], c.entry.sel, c.index)
                          /\ Absent(cache[c.cls], c.entry.sel)

FillsOK == \A t \in Threads : FillOK(t)

EntriesOf(k) == {buckets[k][i] : i \in DOMAIN buckets[k]} \ {None}

Current(c) ==
    cache[c] # None => \A e \in EntriesOf(cache[c]) : e = Resolve(version, c, e.sel)

Recent(c) ==
    cache[c] # None =>
        \A e \in EntriesOf(cache[c]) : e \in {Resolve(version, c, e.sel), Resolve(before, c, e.sel)}

Changing(t) == call[t].at \in {"flush", "clear"} /\ call[t].entry = None

ToFlush(t, c) ==
    /\ Changing(t)
    /\ c \in call[t].todo \/ (At(t, "clear") /\ call[t].block = cache[c])

CurrencyOK ==
    /\ before = version \/ \E t \in Threads : Changing(t)
    /\ \A c \in Classes : Recent(c)
    /\ \A c \in Classes : Current(c) \/ \E t \in Threads : ToFlush(t, c)
    /\ \A t \in Threads : call[t].entry # None =>
           call[t].entry = Resolve(version, call[t].cls, call[t].entry.sel)

ExpectOK(t) ==
    LET c == call[t] IN
    /\ c.cls # None =>
           {Resolve(version, c.cls, c.sel), Resolve(before, c.cls, c.sel)} \subseteq c.expected
    /\ c.at \in {"fill", "insert", "unlock", "dispatch"} \/ c.entry # None =>
           c.result \in c.expected
    /\ c.at = "probe" =>
           /\ c.block \in garbage \/ c.block = cache[c.cls]
           /\ \A e \in EntriesOf(c.block) : e.sel = c.sel => e \in c.expected

ExpectedOK == \A t \in Threads : ExpectOK(t)

IInv == TypeOK /\ LockOK /\ CallsOK /\ BlocksOK /\ TablesOK /\ FillsOK /\ CurrencyOK /\ ExpectedOK

-----------------------------------------------------------------------------
(* Lemmas: what a probe finds.                                             *)

\* The bucket that a probe for s looks at when it has gone n buckets on.
Looked(k, s, n) == Bucket(k, (HASH[s] + n) % Size(k))

BlockTyped(k) == buckets[k] \in Seq(Entry \cup {None}) /\ Size(k) \in Nat \ {0}

LEMMA SizeIsLength ==
    ASSUME TypeOK, NEW k \in Caches
    PROVE  /\ buckets[k] \in Seq(Entry \cup {None}) /\ Size(k) \in Nat
           /\ DOMAIN buckets[k] = 1..Size(k)
           /\ Size(k) # 0 => BlockTyped(k)
    BY DEF TypeOK, Size, BlockTyped

LEMMA HashIsNumber == \A s \in Sels : HASH[s] \in Nat
    BY MethodCacheAssumption DEF MethodCacheAssumption

LEMMA ProbeInBounds ==
    ASSUME NEW k, BlockTyped(k), NEW s \in Sels
    PROVE  /\ \A i \in 0..Size(k) - 1 : Bucket(k, i) \in Entry \cup {None}
           /\ \A n \in Nat : (HASH[s] + n) % Size(k) \in 0..Size(k) - 1
           /\ \A n \in Nat : Looked(k, s, n) \in Entry \cup {None}
<1>1. PICK m \in Nat \ {0} : m = Size(k)
    BY DEF BlockTyped
<1>2. ASSUME NEW i \in 0..m - 1
      PROVE  Bucket(k, i) \in Entry \cup {None}
  <2>1. i + 1 \in 1..Len(buckets[k])
    BY <1>1 DEF Size
  <2>2. QED
    BY <2>1 DEF Bucket, BlockTyped
<1>3. ASSUME NEW n \in Nat
      PROVE  (HASH[s] + n) % m \in 0..m - 1
  <2>1. HASH[s] + n \in Nat
    BY HashIsNumber
  <2>2. QED
    BY <2>1, Division
<1>4. QED
    BY <1>1, <1>2, <1>3 DEF Looked

LEMMA ProbesRecur ==
    ASSUME NEW k, BlockTyped(k), NEW s \in Sels
    PROVE  \A n \in 0..Size(k) :
              Probes(k, s)[n] = IF n = Size(k) \/ Looked(k, s, n) = None THEN None
                                ELSE IF Looked(k, s, n).sel = s THEN Looked(k, s, n)
                                ELSE Probes(k, s)[n + 1]
<1>m. PICK m \in Nat \ {0} : m = Size(k)
    BY DEF BlockTyped
<1>x. PICK S : S = 0..m
    OBVIOUS
<1>u. PICK super : super = [n \in S |-> n + 1]
    OBVIOUS
<1>h. PICK height : height = [n \in S |-> m - n]
    OBVIOUS
<1>s. PICK Stop : Stop = {n \in S : n = m \/ Looked(k, s, n) = None \/ Looked(k, s, n).sel = s}
    OBVIOUS
<1>b. PICK base : base = [n \in S |-> IF n = m \/ Looked(k, s, n) = None THEN None
                                      ELSE Looked(k, s, n)]
    OBVIOUS
<1>v. PICK V : V = Entry \cup {None}
    OBVIOUS
<1>t. PICK step : step = [n \in S |-> [e \in V |-> e]]
    OBVIOUS
<1>1. base \in [S -> V]
    BY <1>x, <1>b, <1>v, ProbeInBounds
<1>2. step \in [S -> [V -> V]] /\ Stop \in SUBSET S
    BY <1>s, <1>t
<1>3. \A n \in S \ Stop : super[n] \in S /\ super[n] = n + 1
    BY <1>m, <1>x, <1>u, <1>s
<1>4. Descends(S, super, m, height)
  <2>1. height \in [S -> 0..m]
    BY <1>x, <1>h
  <2>2. \A n \in S : super[n] \in S => height[super[n]] < height[n]
    BY <1>x, <1>u, <1>h
  <2>3. QED
    BY <2>1, <2>2 DEF Descends
<1>5. Recursion(S, super, m, height, V, Stop, base, step)
    BY <1>1, <1>2, <1>3, <1>4 DEF Recursion
<1>6. PICK g \in [S -> V] : \A n \in S :
              g[n] = IF n \in Stop THEN base[n] ELSE step[n][g[super[n]]]
    BY <1>5, HierarchyRecursion
<1>7. ASSUME NEW n \in S
      PROVE  g[n] = IF n = m \/ Looked(k, s, n) = None THEN None
                    ELSE IF Looked(k, s, n).sel = s THEN Looked(k, s, n)
                    ELSE g[n + 1]
  <2>1. CASE n \in Stop
    BY <1>6, <1>s, <1>b, <2>1
  <2>2. CASE n \notin Stop
    BY <1>3, <1>6, <1>s, <1>t, <2>2
  <2>3. QED
    BY <2>1, <2>2
<1>8. g = [n \in 0..Size(k) |->
              LET e == Bucket(k, (HASH[s] + n) % Size(k)) IN
              IF n = Size(k) \/ e = None THEN None
              ELSE IF e.sel = s THEN e ELSE g[n + 1]]
    BY <1>7, <1>m, <1>x DEF Looked
<1>9. PICK f : f = Probes(k, s)
    OBVIOUS
<1>10. f = [n \in 0..Size(k) |->
              LET e == Bucket(k, (HASH[s] + n) % Size(k)) IN
              IF n = Size(k) \/ e = None THEN None
              ELSE IF e.sel = s THEN e ELSE f[n + 1]]
    BY <1>8, <1>9 DEF Probes
<1>11. QED
    BY <1>9, <1>10 DEF Looked

\* An entry that is returned was in a bucket, and is of the selector.
LEMMA ProbeFindsEntry ==
    ASSUME NEW k, BlockTyped(k), NEW s \in Sels, Probes(k, s)[0] # None
    PROVE  \E i \in 0..Size(k) - 1 : /\ Bucket(k, i) # None /\ Bucket(k, i).sel = s
                                     /\ Probes(k, s)[0] = Bucket(k, i)
<1>1. PICK m \in Nat \ {0} : m = Size(k)
    BY DEF BlockTyped
<1>2. PICK f : f = Probes(k, s)
    OBVIOUS
<1> DEFINE Found(e) == e = None \/ \E i \in 0..m - 1 : /\ Bucket(k, i) # None
                                                        /\ Bucket(k, i).sel = s
                                                        /\ e = Bucket(k, i)
<1>3. ASSUME NEW n \in 0..m, n = m \/ Found(f[n + 1])
      PROVE  Found(f[n])
  <2>1. (HASH[s] + n) % m \in 0..m - 1
    BY <1>1, ProbeInBounds
  <2>2. f[n] \in {None, f[n + 1]} \/ (f[n] = Looked(k, s, n) /\ f[n] # None /\ f[n].sel = s)
    BY <1>1, <1>2, ProbesRecur
  <2>3. n = m => f[n] = None
    BY <1>1, <1>2, ProbesRecur
  <2>4. QED
    BY <1>1, <1>3, <2>1, <2>2, <2>3 DEF Looked
<1> DEFINE G == {n \in 0..m : Found(f[m - n])}
<1>4. G = 0..m
  <2>1. 0 \in G
    BY <1>3
  <2>2. ASSUME NEW n \in 0..m, n \in G, n < m
        PROVE  n + 1 \in G
    <3>1. m - (n + 1) \in 0..m /\ (m - (n + 1)) + 1 = m - n /\ n + 1 \in 0..m
      BY <2>2
    <3>2. QED
      BY <1>3, <2>2, <3>1
  <2>3. G \in SUBSET (0..m)
    OBVIOUS
  <2> HIDE DEF G
  <2>4. QED
    BY <2>1, <2>2, <2>3, PrefixInduction
<1>5. m \in G /\ m - m = 0
    BY <1>4
<1>6. Found(f[0])
    BY <1>5
<1>7. QED
    BY <1>1, <1>2, <1>6

\* Every entry of an orderly block is found.
LEMMA ProbeFinds ==
    ASSUME NEW k, BlockTyped(k), Orderly(k), NEW i \in 0..Size(k) - 1, Bucket(k, i) # None,
           NEW s \in Sels, Bucket(k, i).sel = s
    PROVE  Probes(k, s)[0] = Bucket(k, i)
<1>1. PICK m \in Nat \ {0} : m = Size(k)
    BY DEF BlockTyped
<1>2. PICK f : f = Probes(k, s)
    OBVIOUS
<1>3. Reached(k, s, i)
    BY DEF Orderly
<1>4. PICK d \in 0..m - 1 :
        /\ (HASH[s] + d) % m = i
        /\ \A n \in 0..d - 1 : Bucket(k, (HASH[s] + n) % m) # None
    BY <1>1, <1>3 DEF Reached
<1>5. f[d] = Bucket(k, i)
  <2>1. Looked(k, s, d) = Bucket(k, i) /\ d \in 0..m /\ d # m
    BY <1>1, <1>4 DEF Looked
  <2>2. QED
    BY <1>1, <1>2, <2>1, ProbesRecur
<1>6. ASSUME NEW n \in 0..d - 1, f[n + 1] = Bucket(k, i)
      PROVE  f[n] = Bucket(k, i)
  <2>1. Looked(k, s, n) # None /\ n \in 0..m /\ n # m /\ n \in Nat
    BY <1>1, <1>4 DEF Looked
  <2>2. f[n] = IF Looked(k, s, n).sel = s THEN Looked(k, s, n) ELSE f[n + 1]
    BY <1>1, <1>2, <2>1, ProbesRecur
  <2>3. Looked(k, s, n).sel = s => Looked(k, s, n) = Bucket(k, i)
    <3>1. (HASH[s] + n) % m \in 0..m - 1
      BY <1>1, <2>1, ProbeInBounds
    <3>2. QED
      BY <1>1, <2>1, <3>1 DEF Orderly, Looked
  <2>4. QED
    BY <1>6, <2>2, <2>3
<1> DEFINE G == {n \in 0..d : f[d - n] = Bucket(k, i)}
<1>7. G = 0..d
  <2>1. 0 \in G
    BY <1>5
  <2>2. ASSUME NEW n \in 0..d, n \in G, n < d
        PROVE  n + 1 \in G
    <3>1. d - (n + 1) \in 0..d - 1 /\ (d - (n + 1)) + 1 = d - n /\ n + 1 \in 0..d
      BY <2>2
    <3>2. f[d - n] = Bucket(k, i)
      BY <2>2
    <3>3. f[d - (n + 1)] = Bucket(k, i)
      BY <1>6, <3>1, <3>2
    <3>4. QED
      BY <3>1, <3>3
  <2>3. G \in SUBSET (0..d) /\ d \in Nat
    OBVIOUS
  <2> HIDE DEF G
  <2>4. QED
    BY <2>1, <2>2, <2>3, PrefixInduction
<1>8. d \in G /\ d - d = 0
    BY <1>7
<1>9. QED
    BY <1>2, <1>8

LEMMA LookupFinds ==
    ASSUME TypeOK, BlocksOK, NEW c \in Classes, cache[c] # None, NEW s \in Sels
    PROVE  /\ CacheLookup(c, s) # None =>
                \E i \in 0..Size(cache[c]) - 1 :
                    /\ Bucket(cache[c], i) # None /\ Bucket(cache[c], i).sel = s
                    /\ CacheLookup(c, s) = Bucket(cache[c], i)
           /\ Orderly(cache[c]) => \A i \in 0..Size(cache[c]) - 1 :
                Bucket(cache[c], i) # None /\ Bucket(cache[c], i).sel = s
                    => CacheLookup(c, s) = Bucket(cache[c], i)
<1>1. cache[c] \in Caches /\ Size(cache[c]) >= 2
    BY DEF TypeOK, BlocksOK
<1>2. BlockTyped(cache[c])
  <2>1. Size(cache[c]) # 0
    BY <1>1
  <2>2. QED
    BY <1>1, <2>1, SizeIsLength
<1>3. CacheLookup(c, s) = Probes(cache[c], s)[0]
    BY DEF CacheLookup
<1>4. QED
    BY <1>2, <1>3, ProbeFindsEntry, ProbeFinds

-----------------------------------------------------------------------------
(* Lemmas: buckets that are written.                                       *)

LEMMA ReachedFirst ==
    ASSUME NEW k, BlockTyped(k), NEW s \in Sels
    PROVE  Reached(k, s, HASH[s] % Size(k))
<1>1. HASH[s] \in Nat /\ HASH[s] + 0 = HASH[s] /\ 0 \in 0..Size(k) - 1
    BY HashIsNumber DEF BlockTyped
<1>2. \A n \in 0..0 - 1 : FALSE
    OBVIOUS
<1>3. (HASH[s] + 0) % Size(k) = HASH[s] % Size(k)
    BY <1>1
<1>4. QED
    BY <1>1, <1>2, <1>3 DEF Reached

LEMMA ReachedNext ==
    ASSUME NEW k, BlockTyped(k), HasEmpty(k), NEW s \in Sels, NEW i \in 0..Size(k) - 1,
           Reached(k, s, i), Bucket(k, i) # None
    PROVE  Reached(k, s, (i + 1) % Size(k))
<1>1. PICK m \in Nat \ {0} : m = Size(k)
    BY DEF BlockTyped
<1>2. PICK d \in 0..m - 1 :
        /\ (HASH[s] + d) % m = i
        /\ \A n \in 0..d - 1 : Bucket(k, (HASH[s] + n) % m) # None
    BY <1>1 DEF Reached
<1>3. PICK h \in Nat : h = HASH[s]
    BY HashIsNumber
<1>4. \A n \in 0..d : Bucket(k, (h + n) % m) # None
  <2> SUFFICES ASSUME NEW n \in 0..d
               PROVE  Bucket(k, (h + n) % m) # None
    OBVIOUS
  <2>1. n \in 0..d - 1 \/ n = d
    OBVIOUS
  <2>2. QED
    BY <1>2, <1>3, <2>1
<1>5. d + 1 \in 0..m - 1
  <2>1. SUFFICES ASSUME d = m - 1 PROVE FALSE
    OBVIOUS
  <2>2. PICK j \in 1..m : buckets[k][j] = None
    BY <1>1 DEF HasEmpty, BlockTyped, Size
  <2>3. j - 1 \in 0..m - 1 /\ (j - 1) + 1 = j
    OBVIOUS
  <2>4. PICK n \in 0..m - 1 : (h + n) % m = j - 1
    BY <2>3, AllBuckets
  <2>5. Bucket(k, j - 1) = None
    BY <2>2, <2>3 DEF Bucket
  <2>6. QED
    BY <1>4, <2>1, <2>4, <2>5
<1>6. (h + (d + 1)) % m = (i + 1) % m
  <2>1. h + d \in Nat /\ h + (d + 1) = (h + d) + 1
    OBVIOUS
  <2>2. QED
    BY <1>2, <1>3, <2>1, NextBucket
<1>7. \A n \in 0..(d + 1) - 1 : Bucket(k, (h + n) % m) # None
  <2>1. (d + 1) - 1 = d
    OBVIOUS
  <2>2. QED
    BY <1>4, <2>1
<1>8. QED
    BY <1>1, <1>3, <1>5, <1>6, <1>7 DEF Reached

\* One bucket of k is written.
Writes(k, i, e) ==
    /\ k \in Caches /\ BlockTyped(k) /\ i \in 0..Size(k) - 1 /\ e \in Entry \cup {None}
    /\ buckets' = [buckets EXCEPT ![k][i + 1] = e]

LEMMA WriteBucket ==
    ASSUME TypeOK, NEW k, NEW i, NEW e, Writes(k, i, e)
    PROVE  /\ buckets' \in [Caches -> Seq(Entry \cup {None})]
           /\ \A l \in Caches : Size(l)' = Size(l) /\ DOMAIN buckets'[l] = DOMAIN buckets[l]
           /\ \A l \in Caches \ {k} : buckets'[l] = buckets[l]
           /\ \A j \in 1..Size(k) : buckets'[k][j] = IF j = i + 1 THEN e ELSE buckets[k][j]
           /\ \A j \in 0..Size(k) - 1 : Bucket(k, j)' = IF j = i THEN e ELSE Bucket(k, j)
           /\ BlockTyped(k)'
<1>0. /\ k \in Caches /\ BlockTyped(k) /\ i \in 0..Size(k) - 1 /\ e \in Entry \cup {None}
      /\ buckets' = [buckets EXCEPT ![k][i + 1] = e]
    BY DEF Writes
<1>1. buckets \in [Caches -> Seq(Entry \cup {None})]
    BY DEF TypeOK
<1>s. PICK S : S = Entry \cup {None}
    OBVIOUS
<1>2. PICK b \in Seq(S) : b = buckets[k]
    BY <1>0, <1>1, <1>s
<1>3. PICK m \in Nat \ {0} : m = Len(b) /\ m = Size(k)
    BY <1>0, <1>2 DEF BlockTyped, Size
<1>b. b \in Seq(S)
    BY <1>2
<1>m. m = Len(b) /\ m \in Nat
    BY <1>3
<1>11. DOMAIN b = 1..m
    BY <1>b, <1>m
<1>4. PICK w : w = [b EXCEPT ![i + 1] = e]
    OBVIOUS
<1>5. i + 1 \in 1..m
    BY <1>0, <1>3
<1>6. w \in Seq(S) /\ Len(w) = m /\ DOMAIN w = 1..m
  <2>1. e \in S
    BY <1>0, <1>s
  <2>2. QED
    BY <1>b, <1>m, <1>4, <1>5, <2>1
<1>7. \A j \in 1..m : w[j] = IF j = i + 1 THEN e ELSE b[j]
    BY <1>4, <1>11
<1>8. buckets' = [buckets EXCEPT ![k] = w]
    BY <1>0, <1>1, <1>2, <1>4
<1>9. buckets' \in [Caches -> Seq(Entry \cup {None})] /\ buckets'[k] = w
    BY <1>0, <1>1, <1>6, <1>8, <1>s
<1>10. \A l \in Caches \ {k} : buckets'[l] = buckets[l]
    BY <1>1, <1>8
<1>12. \A l \in Caches : Size(l)' = Size(l) /\ DOMAIN buckets'[l] = DOMAIN buckets[l]
    BY <1>0, <1>2, <1>3, <1>6, <1>9, <1>10, <1>11 DEF Size
<1>13. \A j \in 0..m - 1 : Bucket(k, j)' = IF j = i THEN e ELSE Bucket(k, j)
  <2> SUFFICES ASSUME NEW j \in 0..m - 1
               PROVE  Bucket(k, j)' = IF j = i THEN e ELSE Bucket(k, j)
    OBVIOUS
  <2>1. j + 1 \in 1..m /\ (j + 1 = i + 1 <=> j = i)
    BY <1>0, <1>3
  <2>2. QED
    BY <1>2, <1>7, <1>9, <2>1 DEF Bucket
<1>14. BlockTyped(k)'
    BY <1>3, <1>6, <1>9, <1>s DEF BlockTyped, Size
<1>15. QED
    BY <1>2, <1>3, <1>7, <1>9, <1>10, <1>12, <1>13, <1>14

LEMMA FullIsFinite ==
    ASSUME NEW k, BlockTyped(k)
    PROVE  /\ IsFiniteSet(Full(k)) /\ Cardinality(Full(k)) \in Nat
           /\ Cardinality(Full(k)) < Size(k) => HasEmpty(k)
<1>1. PICK m \in Nat \ {0} : m = Size(k) /\ DOMAIN buckets[k] = 1..m
    BY DEF BlockTyped, Size
<1>2. IsFiniteSet(1..m) /\ Cardinality(1..m) = m
    BY FS_Interval
<1>3. Full(k) \subseteq 1..m
    BY <1>1 DEF Full
<1>4. IsFiniteSet(Full(k)) /\ Cardinality(Full(k)) \in Nat
    BY <1>2, <1>3, FS_Subset, FS_CardinalityType
<1>5. ASSUME ~ HasEmpty(k)
      PROVE  Cardinality(Full(k)) = Size(k)
  <2>1. Full(k) = 1..m
    BY <1>1, <1>5 DEF HasEmpty, Full
  <2>2. QED
    BY <1>1, <1>2, <2>1
<1>6. QED
    BY <1>1, <1>4, <1>5

LEMMA FullAfterWrite ==
    ASSUME TypeOK, NEW k, NEW i, NEW e, Writes(k, i, e)
    PROVE  /\ e = None => HasEmpty(k)'
           /\ e # None /\ Bucket(k, i) # None =>
                /\ Cardinality(Full(k))' = Cardinality(Full(k))
                /\ HasEmpty(k) => HasEmpty(k)'
           /\ e # None /\ Bucket(k, i) = None =>
                /\ Cardinality(Full(k))' = Cardinality(Full(k)) + 1
                /\ Cardinality(Full(k)) + 1 < Size(k) => HasEmpty(k)'
           /\ BlockTyped(k) /\ BlockTyped(k)'
<1>1. /\ BlockTyped(k) /\ BlockTyped(k)' /\ k \in Caches /\ i \in 0..Size(k) - 1
      /\ DOMAIN buckets'[k] = DOMAIN buckets[k]
      /\ \A j \in 1..Size(k) : buckets'[k][j] = IF j = i + 1 THEN e ELSE buckets[k][j]
  <2>1. BlockTyped(k) /\ k \in Caches /\ i \in 0..Size(k) - 1
    BY DEF Writes
  <2>2. QED
    BY <2>1, WriteBucket
<1>2. PICK m \in Nat \ {0} : m = Size(k) /\ DOMAIN buckets[k] = 1..m
    BY <1>1 DEF BlockTyped, Size
<1>3. i + 1 \in 1..m
    BY <1>1, <1>2
<1>4. /\ DOMAIN buckets'[k] = 1..m
      /\ \A j \in 1..m : buckets'[k][j] = IF j = i + 1 THEN e ELSE buckets[k][j]
    BY <1>1, <1>2
<1>5. e = None => HasEmpty(k)'
    BY <1>3, <1>4 DEF HasEmpty
<1>6. ASSUME e # None
      PROVE  Full(k)' = Full(k) \cup {i + 1}
    BY <1>2, <1>3, <1>4, <1>6 DEF Full
<1>7. Bucket(k, i) = None <=> i + 1 \notin Full(k)
    BY <1>2, <1>3 DEF Full, Bucket
<1>8. CASE e # None /\ Bucket(k, i) # None
  <2>1. Full(k)' = Full(k)
    BY <1>6, <1>7, <1>8
  <2>2. HasEmpty(k) => HasEmpty(k)'
    BY <1>2, <1>4, <1>7, <1>8 DEF HasEmpty, Full
  <2>3. QED
    BY <1>1, <1>8, <2>1, <2>2
<1>9. CASE e # None /\ Bucket(k, i) = None
  <2>1. Cardinality(Full(k) \cup {i + 1}) = Cardinality(Full(k)) + 1
    BY <1>1, <1>7, <1>9, FullIsFinite, FS_AddElement
  <2>2. ASSUME ~ HasEmpty(k)'
        PROVE  Cardinality(Full(k)) + 1 = Size(k)
    <3>1. Full(k)' = 1..m
      BY <1>4, <2>2 DEF HasEmpty, Full
    <3>2. Cardinality(1..m) = m
      BY FS_Interval
    <3>3. QED
      BY <1>2, <1>6, <1>9, <2>1, <3>1, <3>2
  <2>3. Cardinality(Full(k)) \in Nat
    BY <1>1, FullIsFinite
  <2>4. Cardinality(Full(k)) + 1 < Size(k) => HasEmpty(k)'
    BY <1>2, <2>2, <2>3
  <2>5. QED
    BY <1>1, <1>6, <1>9, <2>1, <2>4
<1>10. QED
    BY <1>1, <1>5, <1>8, <1>9

-----------------------------------------------------------------------------
(* Lemmas: what a step leaves alone.                                       *)

\* t goes on with c, and no other thread does anything.
Becomes(t, c) == c \in Call /\ call' = [call EXCEPT ![t] = c]

lists == <<version, before>>
caches == <<cache, grow, buckets, occupied, garbage>>

LEMMA BecomesTyped ==
    ASSUME TypeOK, NEW t \in Threads, NEW c, Becomes(t, c)
    PROVE  /\ call' \in [Threads -> Call] /\ call'[t] = c
           /\ \A u \in Threads \ {t} : call'[u] = call[u]
    BY DEF TypeOK, Becomes

LEMMA InitIInv == Init => IInv
<1> SUFFICES ASSUME Init
             PROVE  IInv
    OBVIOUS
<1>1. MaxVersion \in Nat \ {0} /\ 0 \in 0..MaxVersion /\ 1 \in 0..MaxVersion
    BY MethodCacheAssumption DEF MethodCacheAssumption
<1>2. version \in [Classes -> [Sels -> 0..MaxVersion]] /\ before = version
    BY <1>1 DEF Init
<1>3. Idle \in Call
    BY DEF Idle, Call
<1>4. \A t \in Threads : call[t] = Idle
    BY DEF Init
<1>5. <<>> \in Seq(Entry \cup {None}) /\ Len(<<>>) = 0
    OBVIOUS
<1>6. \A k \in Caches : buckets[k] = <<>> /\ Size(k) = 0
    BY <1>5 DEF Init, Size
<1>7. TypeOK
  <2>1. buckets \in [Caches -> Seq(Entry \cup {None})]
    BY <1>5 DEF Init
  <2>2. \A t \in Threads : call[t].at = "idle"
    BY <1>4 DEF Idle
  <2>3. call \in [Threads -> Call]
    BY <1>3 DEF Init
  <2>4. QED
    BY <1>2, <2>1, <2>2, <2>3 DEF TypeOK, Init
<1>8. LockOK
    BY <1>4, MethodCacheAssumption DEF LockOK, Init, Idle, Holding, MethodCacheAssumption
<1>9. CallsOK
  <2> SUFFICES ASSUME NEW t \in Threads
               PROVE  CallOK(t)
    BY DEF CallsOK
  <2>1. call[t] = Idle
    BY <1>4
  <2>2. /\ Idle.at = "idle" /\ Idle.cls = None /\ Idle.sel = None /\ Idle.block = None
        /\ Idle.index = 0 /\ Idle.entry = None /\ Idle.todo = {} /\ Idle.then = "idle"
    BY DEF Idle
  <2>3. QED
    BY <2>1, <2>2 DEF CallOK
<1>10. BlocksOK
    BY <1>6 DEF BlocksOK, Init
<1>11. TablesOK
    BY MethodCacheAssumption DEF TablesOK, Init, MethodCacheAssumption
<1>12. FillsOK
    BY <1>4 DEF FillsOK, FillOK, Idle
<1>13. CurrencyOK
    BY <1>2, <1>4 DEF CurrencyOK, Recent, Current, Init, Idle
<1>14. ExpectedOK
    BY <1>4 DEF ExpectedOK, ExpectOK, Idle
<1>15. QED
    BY <1>7, <1>8, <1>9, <1>10, <1>11, <1>12, <1>13, <1>14 DEF IInv

\* runtimeLock changes hands as the places say.
LEMMA LockStep ==
    ASSUME LockOK, NEW t \in Threads, lock \in Threads \cup {None},
           \A u \in Threads \ {t} : call'[u].at = call[u].at,
           \/ lock' = lock /\ (call'[t].at \in Holding <=> call[t].at \in Holding)
           \/ lock = None /\ lock' = t /\ call'[t].at \in Holding
           \/ lock = t /\ lock' = None /\ call'[t].at \notin Holding
    PROVE  LockOK'
    BY MethodCacheAssumption DEF LockOK, Holding, MethodCacheAssumption

\* What the places of other threads say, while caches keep their blocks and
\* blocks their size.
LEMMA CallsStep ==
    ASSUME TypeOK, CallsOK, NEW t \in Threads, UNCHANGED cache,
           \A k \in Caches : Size(k)' = Size(k),
           \A u \in Threads \ {t} : call'[u] = call[u],
           CallOK(t)'
    PROVE  CallsOK'
<1> SUFFICES ASSUME NEW u \in Threads \ {t}
             PROVE  CallOK(u)'
    BY DEF CallsOK
<1>1. CallOK(u) /\ call'[u] = call[u]
    BY DEF CallsOK
<1>2. call[u].at \in {"probe", "clear"} => Size(call[u].block)' = Size(call[u].block)
    BY DEF TypeOK, Call
<1>3. call[u].at = "insert" => Size(cache[call[u].cls])' = Size(cache[call[u].cls])
    BY <1>1 DEF CallOK, TypeOK
<1>4. QED
    BY <1>1, <1>2, <1>3 DEF CallOK

LEMMA BlocksSame == BlocksOK /\ UNCHANGED caches => BlocksOK'
    BY DEF BlocksOK, caches, Size, HasEmpty

\* Tables stay as they are while nobody begins or ends to clear or to insert.
LEMMA TablesSame ==
    ASSUME TablesOK, UNCHANGED caches,
           \A u \in Threads : /\ At(u, "clear")' <=> At(u, "clear")
                              /\ At(u, "clear") => call'[u].block = call[u].block
                              /\ At(u, "insert")' <=> At(u, "insert")
                              /\ At(u, "insert") => call'[u].cls = call[u].cls
    PROVE  TablesOK'
<1>1. \A c \in Classes : (Clearing(c)' <=> Clearing(c)) /\ (Inserting(c)' <=> Inserting(c))
    BY DEF Clearing, Inserting, caches
<1>2. UNCHANGED cache /\ UNCHANGED occupied
    BY DEF caches
<1>3. ASSUME NEW c \in Classes, NEW k \in Caches, TableOK(c, k)
      PROVE  TableOK(c, k)'
  <2>1. (Orderly(k)' <=> Orderly(k)) /\ Full(k)' = Full(k)
    BY DEF Orderly, Reached, Bucket, Size, Full, caches
  <2>2. Inserting(c)' <=> Inserting(c)
    BY DEF Inserting
  <2>3. occupied'[k] = occupied[k]
    BY <1>2
  <2>4. QED
    BY <1>3, <2>1, <2>2, <2>3 DEF TableOK
<1>4. QED
    BY <1>1, <1>2, <1>3 DEF TablesOK

\* Fills by others are not disturbed.
LEMMA FillsStep ==
    ASSUME FillsOK, NEW t \in Threads, UNCHANGED caches,
           \A u \in Threads \ {t} : call'[u] = call[u],
           FillOK(t)'
    PROVE  FillsOK'
<1>1. \A k, i : Bucket(k, i)' = Bucket(k, i) /\ Size(k)' = Size(k)
    BY DEF Bucket, Size, caches
<1>2. \A k, s, i : (Absent(k, s)' <=> Absent(k, s)) /\ (Reached(k, s, i)' <=> Reached(k, s, i))
    BY <1>1 DEF Absent, Reached
<1>3. ASSUME NEW u \in Threads \ {t}
      PROVE  FillOK(u)'
    BY <1>1, <1>2 DEF FillsOK, FillOK, caches
<1>4. QED
    BY <1>3 DEF FillsOK

\* Whoever has runtimeLock is the only one that fills.
LEMMA FillsAlone ==
    ASSUME FillsOK, LockOK, NEW t \in Threads, lock = t,
           \A u \in Threads \ {t} : call'[u] = call[u],
           FillOK(t)'
    PROVE  FillsOK'
    BY DEF FillsOK, FillOK, LockOK, Holding

\* No list and no cache changes, and no change begins or ends.
LEMMA CurrencyStep ==
    ASSUME CurrencyOK, UNCHANGED lists, UNCHANGED caches, NEW t \in Threads,
           \A u \in Threads \ {t} : call'[u] = call[u],
           call[t].at \notin {"flush", "clear"}, call'[t].at \notin {"flush", "clear"},
           call'[t].entry # None =>
               call'[t].entry = Resolve(version, call'[t].cls, call'[t].entry.sel)
    PROVE  CurrencyOK'
<1>1. version' = version /\ before' = before /\ cache' = cache /\ buckets' = buckets
    BY DEF lists, caches
<1>2. \A u \in Threads : Changing(u)' <=> Changing(u)
    BY DEF Changing
<1>3. \A u \in Threads, c \in Classes : ToFlush(u, c)' <=> ToFlush(u, c)
    BY <1>1 DEF ToFlush, Changing, At
<1>4. \A c \in Classes : (Recent(c)' <=> Recent(c)) /\ (Current(c)' <=> Current(c))
    BY <1>1 DEF Recent, Current, EntriesOf, Resolve, Meanings
<1>5. ASSUME NEW u \in Threads, (call[u].entry # None)'
      PROVE  (call[u].entry = Resolve(version, call[u].cls, call[u].entry.sel))'
  <2>1. CASE u = t
    BY <1>1, <1>5, <2>1 DEF Resolve, Meanings
  <2>2. CASE u # t
    <3>1. call[u].entry = Resolve(version, call[u].cls, call[u].entry.sel)
      BY <1>5, <2>2 DEF CurrencyOK
    <3>2. QED
      BY <1>1, <2>2, <3>1
  <2>3. QED
    BY <2>1, <2>2
<1>6. QED
    BY <1>1, <1>2, <1>3, <1>4, <1>5 DEF CurrencyOK

LEMMA ExpectedStep ==
    ASSUME ExpectedOK, UNCHANGED lists, UNCHANGED caches, NEW t \in Threads,
           \A u \in Threads \ {t} : call'[u] = call[u],
           ExpectOK(t)'
    PROVE  ExpectedOK'
<1>1. version' = version /\ before' = before /\ cache' = cache /\ garbage' = garbage
    BY DEF lists, caches
<1>2. \A k : EntriesOf(k)' = EntriesOf(k)
    BY DEF EntriesOf, caches
<1>3. \A c, s : /\ Resolve(version, c, s)' = Resolve(version, c, s)
                /\ Resolve(before, c, s)' = Resolve(before, c, s)
    BY <1>1 DEF Resolve, Meanings
<1>4. ASSUME NEW u \in Threads \ {t}
      PROVE  ExpectOK(u)'
    BY <1>1, <1>2, <1>3 DEF ExpectedOK, ExpectOK
<1>5. QED
    BY <1>4 DEF ExpectedOK

\* A step of t's that reads caches and method lists only.
Reads(t, c) ==
    /\ Becomes(t, c) /\ UNCHANGED lists /\ UNCHANGED caches
    /\ call[t].at \notin {"clear", "insert", "flush"} /\ c.at \notin {"clear", "insert", "flush"}
    /\ \/ lock' = lock /\ (c.at \in Holding <=> call[t].at \in Holding)
       \/ lock = None /\ lock' = t /\ c.at \in Holding
       \/ lock = t /\ lock' = None /\ c.at \notin Holding

LEMMA ReadsIInv ==
    ASSUME IInv, NEW t \in Threads, NEW c, Reads(t, c),
           CallOK(t)', FillOK(t)', ExpectOK(t)',
           c.at = "probe" => c.block # None,
           c.at \in {"fill", "unlock", "dispatch"} => c.result # None,
           c.entry # None => c.entry = Resolve(version, c.cls, c.entry.sel)
    PROVE  IInv'
<1>1. /\ call' \in [Threads -> Call] /\ call'[t] = c
      /\ \A u \in Threads \ {t} : call'[u] = call[u]
    BY BecomesTyped DEF IInv, Reads
<1>2. /\ version' = version /\ before' = before /\ UNCHANGED caches /\ UNCHANGED lists
      /\ call[t].at \notin {"clear", "insert", "flush"} /\ c.at \notin {"clear", "insert", "flush"}
    BY DEF Reads, lists
<1>3. TypeOK'
  <2>1. \A u \in Threads \ {t} :
            /\ call'[u].at \in {"probe", "clear"} => call'[u].block # None
            /\ call'[u].at \in {"fill", "insert"} => call'[u].entry # None
            /\ call'[u].at \in {"fill", "insert", "unlock", "dispatch"} => call'[u].result # None
    BY <1>1 DEF IInv, TypeOK
  <2>2. /\ c.at \in {"probe", "clear"} => c.block # None
        /\ c.at \in {"fill", "insert"} => c.entry # None
        /\ c.at \in {"fill", "insert", "unlock", "dispatch"} => c.result # None
    BY <1>1, <1>2 DEF CallOK
  <2>3. lock' \in Threads \cup {None}
    BY DEF Reads, IInv, TypeOK
  <2>4. QED
    BY <1>1, <1>2, <2>1, <2>2, <2>3 DEF IInv, TypeOK, caches
<1>4. LockOK'
  <2>1. \A u \in Threads \ {t} : call'[u].at = call[u].at
    BY <1>1
  <2>2. lock \in Threads \cup {None} /\ LockOK
    BY DEF IInv, TypeOK
  <2>3. \/ lock' = lock /\ (call'[t].at \in Holding <=> call[t].at \in Holding)
        \/ lock = None /\ lock' = t /\ call'[t].at \in Holding
        \/ lock = t /\ lock' = None /\ call'[t].at \notin Holding
    BY <1>1 DEF Reads
  <2>4. QED
    BY <2>1, <2>2, <2>3, LockStep
<1>5. CallsOK'
  <2>1. UNCHANGED cache /\ \A k \in Caches : Size(k)' = Size(k)
    BY <1>2 DEF caches, Size
  <2>2. QED
    BY <1>1, <2>1, CallsStep DEF IInv
<1>6. BlocksOK'
    BY <1>2, BlocksSame DEF IInv
<1>7. TablesOK'
  <2>1. \A u \in Threads : /\ At(u, "clear")' <=> At(u, "clear")
                           /\ At(u, "clear") => call'[u].block = call[u].block
                           /\ At(u, "insert")' <=> At(u, "insert")
                           /\ At(u, "insert") => call'[u].cls = call[u].cls
    BY <1>1, <1>2 DEF At
  <2>2. QED
    BY <1>2, <2>1, TablesSame DEF IInv
<1>8. FillsOK'
    BY <1>1, <1>2, FillsStep DEF IInv
<1>9. CurrencyOK'
  <2>1. call[t].at \notin {"flush", "clear"} /\ call'[t].at \notin {"flush", "clear"}
    BY <1>1, <1>2
  <2>2. QED
    BY <1>1, <1>2, <2>1, CurrencyStep DEF IInv
<1>10. ExpectedOK'
    BY <1>1, <1>2, ExpectedStep DEF IInv
<1>11. QED
    BY <1>3, <1>4, <1>5, <1>6, <1>7, <1>8, <1>9, <1>10 DEF IInv

-----------------------------------------------------------------------------
(* The messenger.                                                          *)

\* A step of t's outside runtimeLock, which touches nothing of others.
Outside(t, c) ==
    /\ Becomes(t, c) /\ UNCHANGED lists /\ UNCHANGED lock /\ UNCHANGED caches
    /\ call[t].at \notin Holding /\ c.at \notin Holding /\ c.entry = None

LEMMA OutsideIInv ==
    ASSUME IInv, NEW t \in Threads, NEW c, Outside(t, c), CallOK(t)', ExpectOK(t)',
           c.at = "probe" => c.block # None,
           c.at = "dispatch" => c.result # None
    PROVE  IInv'
<1>1. Reads(t, c)
    BY DEF Outside, Reads, Holding
<1>2. c.at \notin Holding /\ c.entry = None /\ call'[t] = c
    BY BecomesTyped DEF Outside, IInv
<1>3. FillOK(t)'
    BY <1>2 DEF FillOK, Holding
<1>4. QED
    BY <1>1, <1>2, <1>3, ReadsIInv DEF Holding

\* What versions are, in whatever state.
LEMMA VersionsTyped == TypeOK => version \in Versions /\ before \in Versions
    BY DEF TypeOK, Versions

LEMMA SendIInv ==
    ASSUME IInv, NEW t \in Threads, NEW c \in Classes, NEW s \in Sels, Send(t, c, s)
    PROVE  IInv'
<1>1. PICK x : x = [Idle EXCEPT !.at = IF cache[c] = None THEN "miss" ELSE "probe",
                                !.cls = c, !.sel = s, !.block = cache[c],
                                !.index = IF cache[c] = None THEN 0 ELSE Slot(cache[c], s),
                                !.expected = {Resolve(version, c, s), Resolve(before, c, s)}]
    OBVIOUS
<1>2. /\ call' = [call EXCEPT ![t] = x] /\ call[t].at = "idle"
      /\ UNCHANGED <<version, before, lock, cache, grow, buckets, occupied, garbage>>
    BY <1>1 DEF Send, At
<1>3. /\ x.at = IF cache[c] = None THEN "miss" ELSE "probe"
      /\ x.cls = c /\ x.sel = s /\ x.block = cache[c] /\ x.entry = None
      /\ x.index = IF cache[c] = None THEN 0 ELSE Slot(cache[c], s)
      /\ x.todo = {} /\ x.then = "idle"
      /\ x.expected = {Resolve(version, c, s), Resolve(before, c, s)}
    BY <1>1 DEF Idle
<1>4. cache[c] # None => /\ cache[c] \in Caches /\ BlockTyped(cache[c])
                         /\ Slot(cache[c], s) \in 0..Size(cache[c]) - 1
  <2> SUFFICES ASSUME cache[c] # None
               PROVE  /\ cache[c] \in Caches /\ BlockTyped(cache[c])
                      /\ Slot(cache[c], s) \in 0..Size(cache[c]) - 1
    OBVIOUS
  <2>1. cache[c] \in Caches /\ Size(cache[c]) # 0
    BY DEF IInv, TypeOK, BlocksOK
  <2>2. BlockTyped(cache[c])
    BY <2>1, SizeIsLength DEF IInv
  <2>3. PICK m \in Nat \ {0}, h \in Nat : m = Size(cache[c]) /\ h = HASH[s]
    BY <2>2, HashIsNumber DEF BlockTyped
  <2>4. h % m \in 0..m - 1
    BY Division
  <2>5. QED
    BY <2>1, <2>2, <2>3, <2>4 DEF Slot
<1>5. x \in Call
  <2>1. Resolve(version, c, s) \in Entry /\ Resolve(before, c, s) \in Entry
    BY VersionsTyped, ResolveRecurs DEF IInv
  <2>2. cache[c] \in Caches \cup {None}
    BY DEF IInv, TypeOK
  <2>3. (IF cache[c] = None THEN 0 ELSE Slot(cache[c], s)) \in Nat
    BY <1>4
  <2>4. QED
    BY <1>1, <2>1, <2>2, <2>3 DEF Idle, Call
<1>6. Outside(t, x)
    BY <1>2, <1>3, <1>5 DEF Outside, Becomes, Holding, lists, caches
<1>7. call'[t] = x
    BY <1>6, BecomesTyped DEF Outside, IInv
<1>8. CallOK(t)'
  <2>1. c # None /\ s # None
    BY MethodCacheAssumption DEF MethodCacheAssumption
  <2>2. cache[c] # None => Slot(cache[c], s) < Size(cache[c])
    BY <1>4 DEF BlockTyped
  <2>3. Size(cache[c])' = Size(cache[c]) /\ cache' = cache
    BY <1>2 DEF Size
  <2>4. QED
    BY <1>3, <1>7, <2>1, <2>2, <2>3 DEF CallOK, Size
<1>9. ExpectOK(t)'
  <2>1. cache[c] # None => \A e \in EntriesOf(cache[c]) : e.sel = s => e \in x.expected
    BY <1>3 DEF IInv, CurrencyOK, Recent
  <2>2. /\ version' = version /\ before' = before /\ cache' = cache /\ garbage' = garbage
        /\ EntriesOf(cache[c])' = EntriesOf(cache[c])
    BY <1>2 DEF EntriesOf
  <2>3. QED
    BY <1>3, <1>7, <2>1, <2>2 DEF ExpectOK, EntriesOf
<1>10. x.at # "dispatch" /\ (x.at = "probe" => x.block # None)
    BY <1>3
<1>11. QED
    BY <1>6, <1>8, <1>9, <1>10, OutsideIInv

LEMMA DispatchIInv ==
    ASSUME IInv, NEW t \in Threads, Dispatch(t)
    PROVE  IInv'
<1>1. /\ call' = [call EXCEPT ![t] = Idle] /\ call[t].at = "dispatch"
      /\ UNCHANGED <<version, before, lock, cache, grow, buckets, occupied, garbage>>
    BY DEF Dispatch, At
<1>2. /\ Idle \in Call /\ Idle.at = "idle" /\ Idle.cls = None /\ Idle.entry = None
      /\ Idle.sel = None /\ Idle.block = None /\ Idle.index = 0 /\ Idle.todo = {}
      /\ Idle.then = "idle"
    BY DEF Idle, Call
<1>3. Outside(t, Idle)
    BY <1>1, <1>2 DEF Outside, Becomes, Holding, lists, caches
<1>4. call'[t] = Idle
    BY <1>3, BecomesTyped DEF Outside, IInv
<1>5. CallOK(t)' /\ ExpectOK(t)'
    BY <1>2, <1>4 DEF CallOK, ExpectOK
<1>6. QED
    BY <1>2, <1>3, <1>5, OutsideIInv

LEMMA NotResolvedIInv ==
    ASSUME IInv, NEW t \in Threads, NotResolved(t)
    PROVE  IInv'
<1>1. PICK x : x = [call[t] EXCEPT !.at = "miss"]
    OBVIOUS
<1>2. call[t] \in Call /\ CallOK(t) /\ ExpectOK(t)
    BY DEF IInv, TypeOK, CallsOK, ExpectedOK
<1>3. /\ call' = [call EXCEPT ![t] = x] /\ call[t].at = "resolve"
      /\ UNCHANGED <<version, before, lock, cache, grow, buckets, occupied, garbage>>
    BY <1>1 DEF NotResolved, At
<1>4. /\ x \in Call /\ x.at = "miss" /\ x.cls = call[t].cls /\ x.sel = call[t].sel
      /\ x.block = call[t].block /\ x.index = call[t].index /\ x.entry = call[t].entry
      /\ x.todo = call[t].todo /\ x.then = call[t].then /\ x.expected = call[t].expected
    BY <1>1, <1>2 DEF Call
<1>5. x.entry = None
    BY <1>2, <1>3, <1>4 DEF CallOK
<1>6. Outside(t, x)
    BY <1>3, <1>4, <1>5 DEF Outside, Becomes, Holding, lists, caches
<1>7. call'[t] = x
    BY <1>6, BecomesTyped DEF Outside, IInv
<1>8. CallOK(t)'
    BY <1>2, <1>3, <1>4, <1>5, <1>7 DEF CallOK
<1>9. ExpectOK(t)'
    BY <1>2, <1>3, <1>4, <1>5, <1>7 DEF ExpectOK
<1>10. QED
    BY <1>4, <1>6, <1>8, <1>9, OutsideIInv

LEMMA ProbeIInv ==
    ASSUME IInv, NEW t \in Threads, Probe(t)
    PROVE  IInv'
<1>1. call[t] \in Call /\ CallOK(t) /\ ExpectOK(t)
    BY DEF IInv, TypeOK, CallsOK, ExpectedOK
<1> DEFINE X == LET k == call[t].block
                    e == Bucket(k, call[t].index)
                IN  IF e = None THEN [call[t] EXCEPT !.at = "miss", !.block = None, !.index = 0]
                    ELSE IF e.sel = call[t].sel
                    THEN [call[t] EXCEPT !.at = "dispatch", !.result = e, !.block = None, !.index = 0]
                    ELSE [call[t] EXCEPT !.index = (call[t].index + 1) % Size(k)]
<1>2. PICK k : k = call[t].block
    OBVIOUS
<1>3. PICK e : e = Bucket(k, call[t].index)
    OBVIOUS
<1>p. PICK y : y = X
    OBVIOUS
<1>4. y = IF e = None THEN [call[t] EXCEPT !.at = "miss", !.block = None, !.index = 0]
          ELSE IF e.sel = call[t].sel
          THEN [call[t] EXCEPT !.at = "dispatch", !.result = e, !.block = None, !.index = 0]
          ELSE [call[t] EXCEPT !.index = (call[t].index + 1) % Size(k)]
    BY <1>2, <1>3, <1>p
<1>5. /\ call' = [call EXCEPT ![t] = y] /\ call[t].at = "probe"
      /\ UNCHANGED <<version, before, lock, cache, grow, buckets, occupied, garbage>>
  <2>1. call' = [call EXCEPT ![t] = X]
    BY DEF Probe
  <2>2. QED
    BY <1>p, <2>1 DEF Probe, At
<1> HIDE DEF X
<1>6. /\ k \in Caches /\ call[t].index \in Nat /\ call[t].index < Size(k)
      /\ call[t].entry = None /\ call[t].cls # None
    BY <1>1, <1>2, <1>5, MethodCacheAssumption DEF CallOK, Call, MethodCacheAssumption
<1>7. BlockTyped(k) /\ Size(k) \in Nat \ {0} /\ call[t].index \in 0..Size(k) - 1
  <2>1. Size(k) \in Nat
    BY <1>6, SizeIsLength DEF IInv
  <2>2. Size(k) # 0
    BY <1>6, <2>1
  <2>3. QED
    BY <1>6, <2>1, <2>2, SizeIsLength DEF IInv
<1>8. e \in Entry \cup {None} /\ (e # None => e \in EntriesOf(k))
  <2>1. call[t].index + 1 \in DOMAIN buckets[k]
    BY <1>6, <1>7, SizeIsLength DEF IInv
  <2>2. e = buckets[k][call[t].index + 1]
    BY <1>3 DEF Bucket
  <2>3. e \in Entry \cup {None}
    <3>1. buckets[k] \in Seq(Entry \cup {None})
      BY <1>6, SizeIsLength DEF IInv
    <3>2. QED
      BY <2>1, <2>2, <3>1
  <2>4. QED
    BY <2>1, <2>2, <2>3 DEF EntriesOf
<1>9. (call[t].index + 1) % Size(k) \in 0..Size(k) - 1
  <2>1. call[t].index + 1 \in Nat
    BY <1>6
  <2>2. QED
    BY <1>7, <2>1, Division
<1>10. /\ y.cls = call[t].cls /\ y.sel = call[t].sel /\ y.entry = None
       /\ y.todo = call[t].todo /\ y.then = call[t].then /\ y.expected = call[t].expected
       /\ \/ y.at = "miss" /\ y.block = None /\ y.index = 0
          \/ /\ y.at = "dispatch" /\ y.block = None /\ y.index = 0
             /\ y.result = e /\ e # None /\ e.sel = call[t].sel
          \/ /\ y.at = "probe" /\ y.block = k /\ y.index = (call[t].index + 1) % Size(k)
    BY <1>1, <1>2, <1>4, <1>5, <1>6 DEF Call
<1>11. y \in Call
  <2>1. (call[t].index + 1) % Size(k) \in Nat
    BY <1>7, <1>9
  <2>2. QED
    BY <1>1, <1>4, <1>8, <2>1 DEF Call
<1>12. Outside(t, y)
    BY <1>5, <1>10, <1>11 DEF Outside, Becomes, Holding, lists, caches
<1>13. call'[t] = y
    BY <1>12, BecomesTyped DEF Outside, IInv
<1>14. CallOK(t)'
  <2>1. Size(k)' = Size(k) /\ (call[t].index + 1) % Size(k) < Size(k) /\ k # None
    BY <1>5, <1>6, <1>7, <1>9, MethodCacheAssumption DEF Size, MethodCacheAssumption
  <2>2. CASE y.at = "probe"
    BY <1>1, <1>5, <1>6, <1>10, <1>13, <2>1, <2>2 DEF CallOK, Size
  <2>3. CASE y.at # "probe"
    BY <1>1, <1>5, <1>6, <1>10, <1>13, <2>3 DEF CallOK
  <2>4. QED
    BY <2>2, <2>3
<1>15. ExpectOK(t)'
  <2>1. e # None /\ e.sel = call[t].sel => e \in call[t].expected
    BY <1>1, <1>2, <1>5, <1>8 DEF ExpectOK
  <2>2. /\ version' = version /\ before' = before /\ cache' = cache /\ garbage' = garbage
        /\ EntriesOf(k)' = EntriesOf(k)
    BY <1>5 DEF EntriesOf
  <2>3. QED
    BY <1>1, <1>2, <1>5, <1>6, <1>10, <1>13, <2>1, <2>2 DEF ExpectOK, EntriesOf
<1>16. (y.at = "probe" => y.block # None) /\ (y.at = "dispatch" => y.result # None)
    BY <1>1, <1>2, <1>5, <1>10 DEF CallOK
<1>17. QED
    BY <1>12, <1>14, <1>15, <1>16, OutsideIInv

-----------------------------------------------------------------------------
(* lookUpMethod.                                                           *)

\* With no change in progress caches agree with the method lists, ...
LEMMA CurrentLookup ==
    ASSUME TypeOK, BlocksOK, NEW c \in Classes, Current(c), NEW s \in Sels
    PROVE  CacheLookup(c, s) \in {None, Resolve(version, c, s)}
<1>1. CASE cache[c] = None
    BY <1>1 DEF CacheLookup
<1>2. CASE cache[c] # None
  <2> SUFFICES ASSUME CacheLookup(c, s) # None
               PROVE  CacheLookup(c, s) = Resolve(version, c, s)
    OBVIOUS
  <2>1. PICK i \in 0..Size(cache[c]) - 1 :
            /\ Bucket(cache[c], i) # None /\ Bucket(cache[c], i).sel = s
            /\ CacheLookup(c, s) = Bucket(cache[c], i)
    BY <1>2, LookupFinds
  <2>2. cache[c] \in Caches
    BY <1>2 DEF TypeOK
  <2>3. i + 1 \in DOMAIN buckets[cache[c]]
    BY <2>2, SizeIsLength
  <2>4. Bucket(cache[c], i) \in EntriesOf(cache[c])
    BY <2>1, <2>3 DEF EntriesOf, Bucket
  <2>5. QED
    BY <1>2, <2>1, <2>4 DEF Current
<1>3. QED
    BY <1>1, <1>2

AllCurrent == \A c \in Classes : Current(c)

\* ... and to search caches on the way up makes no difference.
LEMMA SearchFinds ==
    ASSUME TypeOK, BlocksOK, AllCurrent, NEW s \in Sels
    PROVE  \A c \in Classes : SearchSupers(c, s) = Resolve(version, c, s)
<1>n. PICK N, height : Descends(Classes, Super, N, height)
    BY Heights
<1>r. PICK r : r = [c \in Classes |-> Resolve(version, c, s)]
    OBVIOUS
<1>l. PICK look : look = [c \in Classes |-> CacheLookup(c, s)]
    OBVIOUS
<1>1. \A c \in Classes : look[c] \in {None, r[c]}
    BY <1>r, <1>l, CurrentLookup DEF AllCurrent
<1>2. \A c \in Classes : r[c] = IF version[c][s] > 0 THEN Method(version, c, s)
                                ELSE IF Super[c] = None THEN Forward(s)
                                ELSE r[Super[c]]
    BY <1>r, VersionsTyped, ResolveRecurs, SuperIsClass
<1>3. r = [d \in Classes |->
              LET cached == CacheLookup(d, s) IN
              IF cached # None THEN cached
              ELSE IF version[d][s] > 0
              THEN [cls |-> d, sel |-> s, version |-> version[d][s]]
              ELSE IF Super[d] = None THEN NoImplementation(s)
              ELSE r[Super[d]]]
  <2>1. \A d \in Classes : r[d] = IF look[d] # None THEN look[d]
                                  ELSE IF version[d][s] > 0 THEN Method(version, d, s)
                                  ELSE IF Super[d] = None THEN Forward(s)
                                  ELSE r[Super[d]]
    BY <1>1, <1>2
  <2>2. DOMAIN r = Classes /\ r = [d \in Classes |-> r[d]]
    BY <1>r
  <2>3. QED
    BY <2>1, <2>2, <1>l DEF Method, NoImplementation
<1>4. PICK f : f = Searches(s)
    OBVIOUS
<1>5. f = [d \in Classes |->
              LET cached == CacheLookup(d, s) IN
              IF cached # None THEN cached
              ELSE IF version[d][s] > 0
              THEN [cls |-> d, sel |-> s, version |-> version[d][s]]
              ELSE IF Super[d] = None THEN NoImplementation(s)
              ELSE f[Super[d]]]
    BY <1>3, <1>4 DEF Searches
<1>6. \A d \in Classes : f[d] = IF look[d] # None THEN look[d]
                                ELSE IF version[d][s] > 0 THEN Method(version, d, s)
                                ELSE IF Super[d] = None THEN Forward(s)
                                ELSE f[Super[d]]
    BY <1>5, <1>l DEF Method, NoImplementation
<1> DEFINE G == {c \in Classes : f[c] = r[c]}
<1>7. ASSUME NEW c \in Classes, Super[c] \in Classes => Super[c] \in G
      PROVE  c \in G
  <2>1. Super[c] # None => f[Super[c]] = r[Super[c]]
    BY <1>7, SuperIsClass
  <2>2. look[c] # None => f[c] = r[c]
    BY <1>1, <1>6
  <2>3. look[c] = None => f[c] = r[c]
    BY <1>2, <1>6, <2>1
  <2>4. QED
    BY <2>2, <2>3
<1>8. G = Classes
  <2>1. G \in SUBSET Classes
    OBVIOUS
  <2> HIDE DEF G
  <2>2. QED
    BY <1>n, <1>7, <2>1, HierarchyInduction
<1>9. ASSUME NEW c \in Classes
      PROVE  SearchSupers(c, s) = Resolve(version, c, s)
  <2>1. Super[c] # None => f[Super[c]] = r[Super[c]]
    BY <1>8, SuperIsClass
  <2>2. SearchSupers(c, s) = IF version[c][s] > 0 THEN Method(version, c, s)
                             ELSE IF Super[c] = None THEN Forward(s)
                             ELSE f[Super[c]]
    BY <1>4 DEF SearchSupers, Method, NoImplementation
  <2>3. SearchSupers(c, s) = r[c]
    BY <1>2, <2>1, <2>2
  <2>4. QED
    BY <1>r, <2>3
<1>10. QED
    BY <1>9

\* An entry with the selector is found by a probe.
LEMMA MissedIsAbsent ==
    ASSUME TypeOK, BlocksOK, TablesOK, NEW c \in Classes, cache[c] # None, ~ Clearing(c),
           NEW s \in Sels, CacheLookup(c, s) = None
    PROVE  Absent(cache[c], s)
<1>1. Orderly(cache[c])
    BY DEF TablesOK, TableOK, TypeOK
<1>2. \A i \in 0..Size(cache[c]) - 1 :
          Bucket(cache[c], i) # None /\ Bucket(cache[c], i).sel = s
              => CacheLookup(c, s) = Bucket(cache[c], i)
    BY <1>1, LookupFinds
<1>3. QED
    BY <1>2 DEF Absent

\* While runtimeLock is free nothing is half done.
LEMMA WhenFree ==
    ASSUME IInv, lock = None
    PROVE  /\ before = version /\ AllCurrent
           /\ \A t \in Threads : call[t].at \notin Holding
           /\ \A c \in Classes : ~ Clearing(c) /\ ~ Inserting(c)
<1>1. \A t \in Threads : call[t].at \notin Holding
    BY MethodCacheAssumption DEF IInv, LockOK, MethodCacheAssumption
<1>2. QED
    BY <1>1 DEF IInv, CurrencyOK, Changing, ToFlush, AllCurrent, Clearing, Inserting, At, Holding

LEMMA SearchIInv ==
    ASSUME IInv, NEW t \in Threads, Search(t)
    PROVE  IInv'
<1>1. call[t] \in Call /\ CallOK(t) /\ ExpectOK(t)
    BY DEF IInv, TypeOK, CallsOK, ExpectedOK
<1>2. PICK c, s : c = call[t].cls /\ s = call[t].sel
    OBVIOUS
<1>3. /\ call[t].at = "miss" /\ lock = None /\ version' = version /\ before' = before
      /\ UNCHANGED lists /\ UNCHANGED caches
    BY DEF Search, At, RuntimeLockFree, lists, caches
<1>4. c \in Classes /\ s \in Sels /\ c # None
    BY <1>1, <1>2, <1>3, MethodCacheAssumption DEF CallOK, Call, MethodCacheAssumption
<1>5. /\ call[t].entry = None /\ call[t].block = None /\ call[t].index = 0
      /\ call[t].todo = {} /\ call[t].then = "idle" /\ call[t].expected \subseteq Entry
    BY <1>1, <1>3 DEF CallOK, Call
<1>6. AllCurrent /\ ~ Clearing(c) /\ TypeOK /\ BlocksOK /\ TablesOK
    BY <1>3, <1>4, WhenFree DEF IInv
<1>7. PICK r \in Entry : r = Resolve(version, c, s) /\ r.sel = s
    BY <1>4, <1>6, VersionsTyped, ResolveRecurs
<1>8. r \in call[t].expected
    BY <1>1, <1>2, <1>4, <1>7 DEF ExpectOK
<1>9. CacheLookup(c, s) \in {None, r} /\ SearchSupers(c, s) = r /\ r # None
    BY <1>4, <1>6, <1>7, CurrentLookup, SearchFinds, NoMethod DEF AllCurrent
<1>10. CASE CacheLookup(c, s) # None
  <2>1. PICK x : x = [call[t] EXCEPT !.at = "unlock", !.result = r]
    OBVIOUS
  <2>2. /\ x \in Call /\ x.at = "unlock" /\ x.result = r
        /\ x.cls = c /\ x.sel = s /\ x.entry = None /\ x.block = None /\ x.index = 0
        /\ x.todo = {} /\ x.then = "idle" /\ x.expected = call[t].expected
    BY <1>1, <1>2, <1>5, <2>1 DEF Call
  <2>3. lock' = t /\ call' = [call EXCEPT ![t] = x]
    BY <1>2, <1>9, <1>10, <2>1 DEF Search
  <2>4. Reads(t, x) /\ call'[t] = x
    BY <1>3, <1>6, <2>2, <2>3, BecomesTyped DEF Reads, Becomes, Holding
  <2>5. CallOK(t)'
    BY <1>1, <1>2, <1>3, <1>4, <2>2, <2>4 DEF CallOK
  <2>6. FillOK(t)'
    BY <2>2, <2>4 DEF FillOK
  <2>7. ExpectOK(t)'
    BY <1>1, <1>2, <1>3, <1>4, <1>8, <2>2, <2>4 DEF ExpectOK
  <2>8. QED
    BY <1>9, <2>2, <2>4, <2>5, <2>6, <2>7, ReadsIInv
<1>11. CASE CacheLookup(c, s) = None /\ (r # Forward(s) \/ call[t].tried)
  <2>1. PICK x : x = [call[t] EXCEPT !.at = "fill", !.result = r, !.entry = r]
    OBVIOUS
  <2>2. /\ x \in Call /\ x.at = "fill" /\ x.result = r /\ x.entry = r
        /\ x.cls = c /\ x.sel = s /\ x.block = None /\ x.index = 0
        /\ x.todo = {} /\ x.then = "idle" /\ x.expected = call[t].expected
    BY <1>1, <1>2, <1>5, <2>1 DEF Call
  <2>3. lock' = t /\ call' = [call EXCEPT ![t] = x]
    BY <1>2, <1>9, <1>11, <2>1 DEF Search
  <2>4. Reads(t, x) /\ call'[t] = x
    BY <1>3, <1>6, <2>2, <2>3, BecomesTyped DEF Reads, Becomes, Holding
  <2>5. CallOK(t)'
    BY <1>1, <1>2, <1>3, <1>4, <1>9, <2>2, <2>4 DEF CallOK
  <2>6. FillOK(t)'
    <3>1. cache[c] # None => Absent(cache[c], s)
      BY <1>4, <1>6, <1>11, MissedIsAbsent
    <3>2. cache' = cache /\ (Absent(cache[c], s)' <=> Absent(cache[c], s))
      BY <1>3 DEF caches, Absent, Bucket, Size
    <3>3. QED
      BY <1>7, <2>2, <2>4, <3>1, <3>2 DEF FillOK
  <2>7. ExpectOK(t)'
    BY <1>1, <1>2, <1>3, <1>4, <1>8, <2>2, <2>4 DEF ExpectOK
  <2>8. QED
    BY <1>7, <1>9, <2>2, <2>4, <2>5, <2>6, <2>7, ReadsIInv
<1>12. CASE CacheLookup(c, s) = None /\ r = Forward(s) /\ ~ call[t].tried
  <2>1. PICK x : x = [call[t] EXCEPT !.at = "resolve", !.tried = TRUE]
    OBVIOUS
  <2>2. /\ x \in Call /\ x.at = "resolve"
        /\ x.cls = c /\ x.sel = s /\ x.entry = None /\ x.block = None /\ x.index = 0
        /\ x.todo = {} /\ x.then = "idle" /\ x.expected = call[t].expected
    BY <1>1, <1>2, <1>5, <2>1 DEF Call
  <2>3. lock' = lock /\ call' = [call EXCEPT ![t] = x]
    BY <1>2, <1>9, <1>12, <2>1 DEF Search
  <2>4. Outside(t, x) /\ call'[t] = x
    BY <1>3, <1>6, <2>2, <2>3, BecomesTyped DEF Outside, Becomes, Holding
  <2>5. CallOK(t)'
    BY <1>1, <1>2, <1>3, <1>4, <2>2, <2>4 DEF CallOK
  <2>6. ExpectOK(t)'
    BY <1>1, <1>2, <1>3, <1>4, <1>8, <2>2, <2>4 DEF ExpectOK
  <2>7. QED
    BY <2>2, <2>4, <2>5, <2>6, OutsideIInv
<1>13. QED
    BY <1>10, <1>11, <1>12

LEMMA UnlockIInv ==
    ASSUME IInv, NEW t \in Threads, Unlock(t)
    PROVE  IInv'
<1>1. call[t] \in Call /\ CallOK(t) /\ ExpectOK(t)
    BY DEF IInv, TypeOK, CallsOK, ExpectedOK
<1>2. PICK x : x = [call[t] EXCEPT !.at = "dispatch"]
    OBVIOUS
<1>3. /\ call[t].at = "unlock" /\ lock' = None /\ version' = version /\ before' = before
      /\ UNCHANGED lists /\ UNCHANGED caches /\ call' = [call EXCEPT ![t] = x]
      /\ call[t].result # None /\ TypeOK
    BY <1>2 DEF Unlock, At, lists, caches, IInv, TypeOK
<1>4. lock = t
    BY <1>3 DEF IInv, LockOK, Holding
<1>5. /\ x \in Call /\ x.at = "dispatch" /\ x.cls = call[t].cls /\ x.sel = call[t].sel
      /\ x.block = call[t].block /\ x.index = call[t].index /\ x.entry = call[t].entry
      /\ x.todo = call[t].todo /\ x.then = call[t].then /\ x.expected = call[t].expected
      /\ x.result = call[t].result
    BY <1>1, <1>2 DEF Call
<1>6. Reads(t, x) /\ call'[t] = x
    BY <1>3, <1>4, <1>5, BecomesTyped DEF Reads, Becomes, Holding
<1>7. CallOK(t)'
    BY <1>1, <1>3, <1>5, <1>6 DEF CallOK
<1>8. FillOK(t)'
    BY <1>5, <1>6 DEF FillOK
<1>9. ExpectOK(t)'
    BY <1>1, <1>3, <1>5, <1>6 DEF ExpectOK
<1>10. x.entry = None
    BY <1>1, <1>3, <1>5 DEF CallOK
<1>11. QED
    BY <1>3, <1>5, <1>6, <1>7, <1>8, <1>9, <1>10, ReadsIInv

-----------------------------------------------------------------------------
(* Steps under runtimeLock.                                                *)

LEMMA InstalledTyped ==
    ASSUME TypeOK, BlocksOK, NEW c \in Classes, cache[c] # None
    PROVE  /\ cache[c] \in Caches /\ BlockTyped(cache[c])
           /\ Size(cache[c]) \in Nat \ {0} /\ Size(cache[c]) >= 2
<1>1. cache[c] \in Caches /\ Size(cache[c]) >= 2
    BY DEF TypeOK, BlocksOK
<1>2. Size(cache[c]) \in Nat /\ Size(cache[c]) # 0
    BY <1>1, SizeIsLength
<1>3. QED
    BY <1>1, <1>2, SizeIsLength

\* The blocks that are read.
InUse == {k \in Caches : k \in garbage \/ \E c \in Classes : cache[c] = k}

\* t, which has runtimeLock, goes on with c and still has it.
Holds(t, c) ==
    /\ Becomes(t, c) /\ lock = t /\ UNCHANGED lock /\ UNCHANGED lists
    /\ c.at \in Holding
    /\ c.at = "clear" => c.block # None
    /\ c.at \in {"fill", "insert"} => c.entry # None
    /\ c.at \in {"fill", "insert", "unlock"} => c.result # None

\* Blocks in use keep their size, and are kept.
KeepsBlocks ==
    /\ cache' \in [Classes -> Caches \cup {None}]
    /\ buckets' \in [Caches -> Seq(Entry \cup {None})]
    /\ occupied' \in [Caches -> Nat]
    /\ grow' \in [Classes -> BOOLEAN]
    /\ garbage \subseteq garbage' /\ garbage' \subseteq Caches
    /\ \A d \in Classes : cache'[d] = cache[d] \/ cache[d] = None \/ cache[d] \in garbage'
    /\ \A k \in InUse : Size(k)' = Size(k)

\* An entry that comes into a block in use is what the message means.
KeepsEntries ==
    \A k \in InUse : \A e \in EntriesOf(k)' :
        \/ e \in EntriesOf(k)
        \/ \E c \in Classes : /\ cache[c] = k /\ e \in Entry
                              /\ e = Resolve(version, c, e.sel)

LEMMA Others ==
    ASSUME LockOK, NEW t \in Threads, lock = t
    PROVE  \A u \in Threads \ {t} : call[u].at \notin Holding
    BY DEF LockOK

LEMMA HolderIInv ==
    ASSUME IInv, NEW t \in Threads, NEW c, Holds(t, c), KeepsBlocks, KeepsEntries,
           CallOK(t)', FillOK(t)', ExpectOK(t)', BlocksOK', TablesOK', CurrencyOK'
    PROVE  IInv'
<1>1. /\ call' \in [Threads -> Call] /\ call'[t] = c
      /\ \A u \in Threads \ {t} : call'[u] = call[u]
    BY BecomesTyped DEF IInv, Holds
<1>2. /\ version' = version /\ before' = before /\ lock' = lock /\ lock = t
      /\ c.at \in Holding
    BY DEF Holds, lists
<1>3. \A u \in Threads \ {t} : call[u].at \notin Holding
    BY <1>2, Others DEF IInv
<1>4. TypeOK'
  <2>1. \A u \in Threads \ {t} :
            /\ call'[u].at \in {"probe", "clear"} => call'[u].block # None
            /\ call'[u].at \in {"fill", "insert"} => call'[u].entry # None
            /\ call'[u].at \in {"fill", "insert", "unlock", "dispatch"} => call'[u].result # None
    BY <1>1 DEF IInv, TypeOK
  <2>2. /\ c.at \in {"probe", "clear"} => c.block # None
        /\ c.at \in {"fill", "insert"} => c.entry # None
        /\ c.at \in {"fill", "insert", "unlock", "dispatch"} => c.result # None
    BY DEF Holds, Holding
  <2>3. QED
    BY <1>1, <1>2, <2>1, <2>2 DEF IInv, TypeOK, KeepsBlocks
<1>5. LockOK'
  <2>1. \A u \in Threads \ {t} : call'[u].at = call[u].at
    BY <1>1
  <2>2. call[t].at \in Holding /\ call'[t].at \in Holding
    BY <1>1, <1>2 DEF IInv, LockOK
  <2>3. lock \in Threads \cup {None} /\ LockOK
    BY DEF IInv, TypeOK
  <2>4. QED
    BY <1>2, <2>1, <2>2, <2>3, LockStep
<1>6. CallsOK'
  <2> SUFFICES ASSUME NEW u \in Threads \ {t}
               PROVE  CallOK(u)'
    BY DEF CallsOK
  <2>1. CallOK(u) /\ ExpectOK(u) /\ call'[u] = call[u] /\ call[u] \in Call
    BY <1>1 DEF IInv, CallsOK, ExpectedOK, TypeOK
  <2>2. call[u].at \notin Holding
    BY <1>3
  <2>3. ASSUME call[u].at = "probe"
        PROVE  call[u].block \in InUse
    <3>1. call[u].block # None /\ call[u].block \in Caches /\ call[u].cls \in Classes
      BY <2>1, <2>3 DEF CallOK, Call
    <3>2. call[u].block \in garbage \/ call[u].block = cache[call[u].cls]
      BY <2>1, <2>3 DEF ExpectOK
    <3>3. QED
      BY <3>1, <3>2 DEF InUse
  <2>4. call[u].at = "probe" => Size(call[u].block)' = Size(call[u].block)
    <3>1. PICK k : k = call[u].block
      OBVIOUS
    <3>2. call[u].at = "probe" => Size(k)' = Size(k)
      BY <2>3, <3>1 DEF KeepsBlocks
    <3>3. call'[u].block = k
      BY <2>1, <3>1
    <3>4. QED
      BY <3>1, <3>2, <3>3 DEF Size
  <2>5. QED
    BY <2>1, <2>2, <2>4 DEF CallOK, Holding
<1>7. FillsOK'
    BY <1>1, <1>2, FillsAlone DEF IInv
<1>8. ExpectedOK'
  <2> SUFFICES ASSUME NEW u \in Threads \ {t}
               PROVE  ExpectOK(u)'
    BY DEF ExpectedOK
  <2>1. CallOK(u) /\ ExpectOK(u) /\ call'[u] = call[u] /\ call[u] \in Call
    BY <1>1 DEF IInv, CallsOK, ExpectedOK, TypeOK
  <2>2. CASE call[u].at = "probe"
    <3>1. PICK k : k = call[u].block
      OBVIOUS
    <3>2. /\ k # None /\ k \in Caches /\ call[u].cls \in Classes
          /\ call[u].cls # None
      BY <2>1, <2>2, <3>1, MethodCacheAssumption DEF CallOK, Call, MethodCacheAssumption
    <3>3. k \in garbage \/ k = cache[call[u].cls]
      BY <2>1, <2>2, <3>1 DEF ExpectOK
    <3>4. k \in InUse
      BY <3>2, <3>3 DEF InUse
    <3>5. k \in garbage' \/ k = cache'[call[u].cls]
      BY <3>2, <3>3 DEF KeepsBlocks
    <3>6. ASSUME NEW e \in EntriesOf(k)', e.sel = call[u].sel
          PROVE  e \in call[u].expected
      <4>1. CASE e \in EntriesOf(k)
        BY <2>1, <2>2, <3>1, <3>6, <4>1 DEF ExpectOK
      <4>2. CASE \E d \in Classes : cache[d] = k /\ e = Resolve(version, d, e.sel)
        <5>1. PICK d \in Classes : cache[d] = k /\ e = Resolve(version, d, e.sel)
          BY <4>2
        <5>2. k \notin garbage
          BY <3>2, <5>1 DEF IInv, BlocksOK
        <5>3. d = call[u].cls
          BY <3>2, <3>3, <5>1, <5>2 DEF IInv, BlocksOK
        <5>4. Resolve(version, call[u].cls, call[u].sel) \in call[u].expected
          BY <2>1, <3>2 DEF ExpectOK
        <5>5. QED
          BY <3>6, <5>1, <5>3, <5>4
      <4>3. QED
        BY <3>4, <4>1, <4>2 DEF KeepsEntries
    <3>7. /\ {Resolve(version, call[u].cls, call[u].sel), Resolve(before, call[u].cls, call[u].sel)}
                 \subseteq call[u].expected
          /\ call[u].entry = None
      BY <2>1, <2>2, <3>2 DEF ExpectOK, CallOK
    <3>8. call'[u] = call[u] /\ call'[u].block = k
      BY <2>1, <3>1
    <3>9. QED
      BY <1>2, <2>2, <3>5, <3>6, <3>7, <3>8 DEF ExpectOK
  <2>3. CASE call[u].at # "probe"
    BY <1>2, <2>1, <2>3 DEF ExpectOK
  <2>4. QED
    BY <2>2, <2>3
<1>9. QED
    BY <1>4, <1>5, <1>6, <1>7, <1>8 DEF IInv

\* t clears or inserts into no cache but w's.
WorksAt(t, w) ==
    /\ At(t, "clear") => call[t].block = cache[w]
    /\ At(t, "insert") => call[t].cls = w

\* The tables of the other classes are left alone.
LEMMA TablesHolder ==
    ASSUME IInv, NEW t \in Threads, lock = t, \A u \in Threads \ {t} : call'[u] = call[u],
           NEW w \in Classes, WorksAt(t, w), WorksAt(t, w)',
           \A d \in Classes \ {w} :
               /\ cache'[d] = cache[d]
               /\ cache[d] # None => /\ buckets'[cache[d]] = buckets[cache[d]]
                                     /\ occupied'[cache[d]] = occupied[cache[d]],
           \A d \in Classes \ {w} : cache[d] # None => cache'[w] # cache[d],
           \A k \in Caches : cache'[w] = k /\ ~ Clearing(w)' => TableOK(w, k)'
    PROVE  TablesOK'
<1>1. ASSUME NEW d \in Classes \ {w}, NEW k \in Caches, cache'[d] = k
      PROVE  TableOK(d, k)'
  <2>1. /\ cache[d] = k /\ buckets'[k] = buckets[k] /\ occupied'[k] = occupied[k]
        /\ k # cache[w] /\ k # cache'[w]
    BY <1>1, MethodCacheAssumption DEF IInv, BlocksOK, MethodCacheAssumption
  <2>2. \A u \in Threads \ {t} : call[u].at \notin {"clear", "insert"}
    BY Others DEF IInv, Holding
  <2>3. ~ Clearing(d) /\ ~ Inserting(d)
    BY <2>1, <2>2 DEF Clearing, Inserting, WorksAt, At
  <2>4. ~ Inserting(d)'
    BY <2>2 DEF Inserting, WorksAt, At
  <2>5. TableOK(d, k)
    BY <2>1, <2>3 DEF IInv, TablesOK
  <2>6. (Orderly(k)' <=> Orderly(k)) /\ Full(k)' = Full(k)
    BY <2>1 DEF Orderly, Reached, Bucket, Size, Full
  <2>7. QED
    BY <2>1, <2>3, <2>4, <2>5, <2>6 DEF TableOK
<1>2. QED
    BY <1>1 DEF TablesOK

\* While nobody changes method lists and nobody is to be flushed.
LEMMA CurrentIsEnough ==
    ASSUME CurrencyOK, LockOK, CallsOK, NEW t \in Threads, lock = t, before = version,
           UNCHANGED lists, \A u \in Threads \ {t} : call'[u] = call[u],
           \A c \in Classes : Current(c)',
           call'[t].entry # None =>
               call'[t].entry = Resolve(version, call'[t].cls, call'[t].entry.sel)
    PROVE  CurrencyOK'
<1>1. version' = version /\ before' = before
    BY DEF lists
<1>2. \A c \in Classes : Recent(c)'
    BY DEF Current, Recent
<1>3. \A u \in Threads \ {t} : call[u].entry = None
    BY Others DEF CallsOK, CallOK, Holding
<1>4. ASSUME NEW u \in Threads, (call[u].entry # None)'
      PROVE  (call[u].entry = Resolve(version, call[u].cls, call[u].entry.sel))'
    BY <1>1, <1>3, <1>4
<1>5. QED
    BY <1>1, <1>2, <1>4 DEF CurrencyOK

\* Only the block k is written to.
LEMMA BlocksWritten ==
    ASSUME BlocksOK, UNCHANGED <<cache, garbage>>, NEW k,
           \A l \in Caches : Size(l)' = Size(l), TypeOK,
           \A l \in Caches \ {k} : buckets'[l] = buckets[l] /\ occupied'[l] = occupied[l],
           HasEmpty(k)' /\ (4 * occupied[k] <= 3 * Size(k))'
    PROVE  BlocksOK'
<1>1. \A l \in Caches \ {k} : (HasEmpty(l)' <=> HasEmpty(l)) /\ occupied'[l] = occupied[l]
    BY DEF HasEmpty
<1>2. \A l \in Caches : Size(l)' > 0 => HasEmpty(l)' /\ 4 * occupied'[l] <= 3 * Size(l)'
    BY <1>1 DEF BlocksOK
<1>3. \A c \in Classes : cache[c] # None => cache[c] \in Caches
    BY DEF TypeOK
<1>4. garbage \subseteq Caches
    BY DEF TypeOK
<1>5. QED
    BY <1>2, <1>3, <1>4 DEF BlocksOK

\* A thread that fills has nothing to flush.
LEMMA WhenFilling ==
    ASSUME IInv, NEW t \in Threads, call[t].at \in Holding, call[t].entry # None
    PROVE  /\ lock = t /\ before = version /\ AllCurrent
           /\ \A u \in Threads \ {t} : call[u].at \notin Holding
<1>1. lock = t /\ \A u \in Threads \ {t} : call[u].at \notin Holding
    BY Others DEF IInv, LockOK
<1>2. \A u \in Threads : ~ Changing(u)
    BY <1>1 DEF Changing, Holding
<1>3. QED
    BY <1>1, <1>2 DEF IInv, CurrencyOK, AllCurrent, ToFlush

-----------------------------------------------------------------------------
(* _cache_fill.                                                            *)

\* What is known of a thread that is about to fill a cache with e.
Filling(t, c, s, e) ==
    /\ call[t] \in Call /\ CallOK(t) /\ FillOK(t) /\ ExpectOK(t)
    /\ call[t].at = "fill" /\ lock = t
    /\ c = call[t].cls /\ s = call[t].sel /\ e = call[t].entry
    /\ c \in Classes /\ s \in Sels /\ c # None /\ e \in Entry /\ e # None
    /\ e.sel = s /\ e = Resolve(version, c, e.sel)
    /\ call[t].result # None /\ call[t].todo = {} /\ call[t].then = "idle"
    /\ call[t].block = None /\ call[t].index = 0

LEMMA FillFacts ==
    ASSUME IInv, NEW t \in Threads, At(t, "fill")
    PROVE  /\ \E c, s, e : Filling(t, c, s, e)
           /\ before = version /\ AllCurrent
           /\ \A u \in Threads \ {t} : call[u].at \notin Holding
<1>1. call[t] \in Call /\ CallOK(t) /\ FillOK(t) /\ ExpectOK(t) /\ call[t].at = "fill"
    BY DEF IInv, TypeOK, CallsOK, FillsOK, ExpectedOK, At
<1>2. call[t].at \in Holding /\ call[t].entry # None /\ call[t].result # None
    BY <1>1 DEF Holding, CallOK, IInv, TypeOK
<1>3. PICK c, s, e : c = call[t].cls /\ s = call[t].sel /\ e = call[t].entry
    OBVIOUS
<1>4. c \in Classes /\ s \in Sels /\ c # None /\ e \in Entry /\ e # None
    BY <1>1, <1>2, <1>3, MethodCacheAssumption DEF CallOK, Call, MethodCacheAssumption
<1>5. /\ call[t].todo = {} /\ call[t].then = "idle" /\ call[t].block = None
      /\ call[t].index = 0 /\ e.sel = s
    BY <1>1, <1>3 DEF CallOK, FillOK
<1>6. e = Resolve(version, c, e.sel)
    BY <1>2, <1>3 DEF IInv, CurrencyOK
<1>7. Filling(t, c, s, e)
    BY <1>1, <1>2, <1>3, <1>4, <1>5, <1>6, WhenFilling DEF Filling
<1>8. QED
    BY <1>2, <1>7, WhenFilling

\* The thread goes on to insert.
LEMMA GoesToInsert ==
    ASSUME IInv, NEW t \in Threads, NEW c, NEW s, NEW e, Filling(t, c, s, e),
           NEW size \in Nat \ {0}, GoInsert(t, size), UNCHANGED <<version, before, lock>>
    PROVE  \E x : /\ Holds(t, x) /\ call'[t] = x
                  /\ \A u \in Threads \ {t} : call'[u] = call[u]
                  /\ x.at = "insert" /\ x.cls = c /\ x.sel = s /\ x.entry = e
                  /\ x.index = HASH[s] % size /\ x.index \in 0..size - 1 /\ x.block = None
                  /\ x.todo = {} /\ x.then = "idle"
                  /\ x.result = call[t].result /\ x.expected = call[t].expected
<1>1. PICK h \in Nat : h = HASH[s]
    BY HashIsNumber DEF Filling
<1>2. PICK i \in 0..size - 1 : i = h % size
    BY Division
<1>3. PICK x : x = [call[t] EXCEPT !.at = "insert", !.index = i]
    OBVIOUS
<1>4. /\ x \in Call /\ x.at = "insert" /\ x.index = i
      /\ x.cls = c /\ x.sel = s /\ x.entry = e /\ x.block = None
      /\ x.todo = {} /\ x.then = "idle"
      /\ x.result = call[t].result /\ x.expected = call[t].expected
  <2>1. i \in Nat /\ call[t] \in Call
    BY DEF Filling
  <2>2. x \in Call /\ x.at = "insert" /\ x.index = i
    BY <1>3, <2>1 DEF Call
  <2>3. /\ x.cls = call[t].cls /\ x.sel = call[t].sel /\ x.entry = call[t].entry
        /\ x.block = call[t].block /\ x.todo = call[t].todo /\ x.then = call[t].then
        /\ x.result = call[t].result /\ x.expected = call[t].expected
    BY <1>3, <2>1 DEF Call
  <2>4. QED
    BY <2>2, <2>3 DEF Filling
<1>5. call' = [call EXCEPT ![t] = x]
  <2>1. call' = [call EXCEPT ![t].at = "insert", ![t].index = i]
    BY <1>1, <1>2 DEF GoInsert, Filling
  <2>2. QED
    BY <1>3, <2>1 DEF IInv, TypeOK
<1>6. Becomes(t, x)
    BY <1>4, <1>5 DEF Becomes
<1>7. Holds(t, x)
    BY <1>4, <1>6 DEF Holds, Filling, Holding, lists
<1>8. QED
    BY <1>1, <1>2, <1>4, <1>6, <1>7, BecomesTyped DEF IInv

\* "Use the cache as-is if it is less than 3/4 full"
LEMMA FillAsIsIInv ==
    ASSUME IInv, NEW t \in Threads, At(t, "fill"),
           cache[call[t].cls] # None, HasRoom(cache[call[t].cls]),
           occupied' = [occupied EXCEPT ![cache[call[t].cls]] = @ + 1],
           GoInsert(t, Size(cache[call[t].cls])),
           UNCHANGED <<version, before, lock, cache, grow, buckets, garbage>>
    PROVE  IInv'
<1>1. PICK c, s, e : Filling(t, c, s, e)
    BY FillFacts
<1>2. PICK k : k = cache[c]
    OBVIOUS
<1>3. /\ c \in Classes /\ s \in Sels /\ c = call[t].cls /\ k # None /\ e # None /\ lock = t
      /\ e.sel = s /\ cache[call[t].cls] = k
    BY <1>1, <1>2 DEF Filling
<1>4. k \in Caches /\ BlockTyped(k) /\ Size(k) \in Nat \ {0}
    BY <1>2, <1>3, InstalledTyped DEF IInv
<1>5. PICK x : /\ Holds(t, x) /\ call'[t] = x
               /\ \A u \in Threads \ {t} : call'[u] = call[u]
               /\ x.at = "insert" /\ x.cls = c /\ x.sel = s /\ x.entry = e
               /\ x.index = HASH[s] % Size(k) /\ x.index \in 0..Size(k) - 1 /\ x.block = None
               /\ x.todo = {} /\ x.then = "idle"
               /\ x.result = call[t].result /\ x.expected = call[t].expected
    BY <1>1, <1>3, <1>4, GoesToInsert
<1>6. /\ cache' = cache /\ buckets' = buckets /\ grow' = grow /\ garbage' = garbage
      /\ version' = version /\ before' = before
      /\ occupied' = [occupied EXCEPT ![k] = @ + 1] /\ HasRoom(k)
    BY <1>3
<1>7. /\ occupied[k] \in Nat /\ occupied'[k] = occupied[k] + 1
      /\ \A l \in Caches \ {k} : occupied'[l] = occupied[l]
      /\ occupied' \in [Caches -> Nat]
    BY <1>4, <1>6 DEF IInv, TypeOK
<1>8. \A l : Size(l)' = Size(l) /\ EntriesOf(l)' = EntriesOf(l)
    BY <1>6 DEF Size, EntriesOf
<1>9. KeepsBlocks
  <2>1. cache' \in [Classes -> Caches \cup {None}] /\ grow' \in [Classes -> BOOLEAN]
        /\ buckets' \in [Caches -> Seq(Entry \cup {None})] /\ garbage' \subseteq Caches
    BY <1>6 DEF IInv, TypeOK
  <2>2. \A l \in InUse : Size(l)' = Size(l)
    BY <1>6 DEF Size
  <2>3. QED
    BY <1>6, <1>7, <2>1, <2>2 DEF KeepsBlocks
<1>10. KeepsEntries
    BY <1>6 DEF KeepsEntries, EntriesOf
<1>11. CallOK(t)'
  <2>1. x.index < Size(k) /\ x.index \in Nat
    BY <1>4, <1>5
  <2>2. (Size(cache[x.cls]))' = Size(k)
    BY <1>2, <1>5, <1>6 DEF Size
  <2>3. c # None /\ s # None
    BY <1>1, <1>3, MethodCacheAssumption DEF Filling, MethodCacheAssumption
  <2>4. QED
    BY <1>2, <1>3, <1>5, <1>6, <2>1, <2>2, <2>3 DEF CallOK, Size
<1>12. FillOK(t)'
  <2>1. Reached(k, s, HASH[s] % Size(k))
    BY <1>3, <1>4, ReachedFirst
  <2>2. Absent(k, s)
    BY <1>1, <1>2, <1>3 DEF Filling, FillOK
  <2>3. \A i : (Reached(k, s, i)' <=> Reached(k, s, i)) /\ (Absent(k, s)' <=> Absent(k, s))
    BY <1>6 DEF Reached, Absent, Bucket, Size
  <2>4. Reached(k, s, x.index)' /\ Absent(k, s)'
    BY <1>5, <2>1, <2>2, <2>3
  <2>5. cache'[x.cls] = k
    BY <1>2, <1>5, <1>6
  <2>6. QED
    BY <1>3, <1>5, <2>4, <2>5 DEF FillOK
<1>13. ExpectOK(t)'
    BY <1>1, <1>5, <1>6 DEF ExpectOK, Filling
<1>14. BlocksOK'
  <2>1. HasEmpty(k)' /\ (4 * occupied[k] <= 3 * Size(k))'
    BY <1>4, <1>6, <1>7, <1>8 DEF HasRoom, IInv, BlocksOK, HasEmpty
  <2>2. \A l \in Caches \ {k} : buckets'[l] = buckets[l] /\ occupied'[l] = occupied[l]
    BY <1>6, <1>7
  <2>3. \A l \in Caches : Size(l)' = Size(l)
    BY <1>6 DEF Size
  <2>4. QED
    BY <1>6, <2>1, <2>2, <2>3, BlocksWritten DEF IInv
<1>15. TablesOK'
  <2>1. WorksAt(t, c) /\ WorksAt(t, c)'
    BY <1>1, <1>5 DEF WorksAt, At, Filling
  <2>2. \A d \in Classes \ {c} : /\ cache'[d] = cache[d]
                                 /\ cache[d] # None => /\ buckets'[cache[d]] = buckets[cache[d]]
                                                       /\ occupied'[cache[d]] = occupied[cache[d]]
                                                       /\ cache'[c] # cache[d]
    <3>1. \A d \in Classes \ {c} : cache[d] # None => cache[d] # k /\ cache[d] \in Caches
      BY <1>2, <1>3 DEF IInv, BlocksOK, TypeOK
    <3>2. QED
      BY <1>2, <1>6, <1>7, <3>1
  <2>3. TableOK(c, k)'
    <3>1. ~ Clearing(c) /\ ~ Inserting(c)
      BY <1>1, FillFacts DEF Clearing, Inserting, At, Holding, Filling
    <3>2. TableOK(c, k)
      BY <1>2, <1>3, <1>4, <3>1 DEF IInv, TablesOK
    <3>3. Inserting(c)'
      BY <1>5 DEF Inserting, At
    <3>4. (Orderly(k)' <=> Orderly(k)) /\ Full(k)' = Full(k)
      BY <1>6 DEF Orderly, Reached, Bucket, Size, Full
    <3>5. Cardinality(Full(k)) \in Nat
      BY <1>4, FullIsFinite
    <3>6. occupied'[k] = Cardinality(Full(k)) + 1
      BY <1>7, <3>1, <3>2, <3>5 DEF TableOK
    <3>7. QED
      BY <3>2, <3>3, <3>4, <3>6 DEF TableOK
  <2>4. \A l \in Caches : cache'[c] = l /\ ~ Clearing(c)' => TableOK(c, l)'
    BY <1>2, <1>6, <2>3
  <2>5. QED
    BY <1>3, <1>5, <2>1, <2>2, <2>4, TablesHolder
<1>16. CurrencyOK'
  <2>1. \A d \in Classes : Current(d)'
    <3>1. AllCurrent /\ version' = version
      BY <1>1, <1>6, FillFacts
    <3>2. QED
      BY <1>6, <3>1 DEF AllCurrent, Current, EntriesOf
  <2>2. x.entry = Resolve(version, x.cls, x.entry.sel)
    BY <1>1, <1>5 DEF Filling
  <2>3. before = version /\ UNCHANGED lists
    BY <1>1, <1>6, FillFacts DEF lists
  <2>4. QED
    BY <1>3, <1>5, <2>1, <2>2, <2>3, CurrentIsEnough DEF IInv
<1>17. QED
    BY <1>5, <1>9, <1>10, <1>11, <1>12, <1>13, <1>14, <1>15, <1>16, HolderIInv

\* A full cache is emptied to be used again.
LEMMA FillAgainIInv ==
    ASSUME IInv, NEW t \in Threads, At(t, "fill"), NEW k, k = cache[call[t].cls], k # None,
           occupied' = [occupied EXCEPT ![k] = 1],
           grow' = [grow EXCEPT ![call[t].cls] = TRUE],
           call' = [call EXCEPT ![t].at = "clear", ![t].block = k],
           UNCHANGED <<version, before, lock, cache, buckets, garbage>>
    PROVE  IInv'
<1>1. PICK c, s, e : Filling(t, c, s, e)
    BY FillFacts
<1>3. /\ c \in Classes /\ s \in Sels /\ c = call[t].cls /\ k # None /\ e # None /\ lock = t
      /\ e.sel = s /\ cache[c] = k /\ c # None
    BY <1>1 DEF Filling
<1>4. k \in Caches /\ BlockTyped(k) /\ Size(k) \in Nat \ {0} /\ Size(k) >= 2
    BY <1>3, InstalledTyped DEF IInv
<1>5. PICK x : x = [call[t] EXCEPT !.at = "clear", !.block = k]
    OBVIOUS
<1>6. /\ x \in Call /\ x.at = "clear" /\ x.cls = c /\ x.sel = s /\ x.entry = e
      /\ x.index = 0 /\ x.block = k /\ x.todo = {} /\ x.then = "idle"
      /\ x.result = call[t].result /\ x.expected = call[t].expected
  <2>1. call[t] \in Call
    BY <1>1 DEF Filling
  <2>2. x \in Call /\ x.at = "clear" /\ x.block = k
    BY <1>4, <1>5, <2>1 DEF Call
  <2>3. /\ x.cls = call[t].cls /\ x.sel = call[t].sel /\ x.entry = call[t].entry
        /\ x.index = call[t].index /\ x.todo = call[t].todo /\ x.then = call[t].then
        /\ x.result = call[t].result /\ x.expected = call[t].expected
    BY <1>5, <2>1 DEF Call
  <2>4. QED
    BY <1>1, <2>2, <2>3 DEF Filling
<1>7. call' = [call EXCEPT ![t] = x]
    BY <1>5 DEF IInv, TypeOK
<1>8. Becomes(t, x)
    BY <1>6, <1>7 DEF Becomes
<1>9. /\ Holds(t, x) /\ call'[t] = x
      /\ \A u \in Threads \ {t} : call'[u] = call[u]
  <2>1. call'[t] = x /\ \A u \in Threads \ {t} : call'[u] = call[u]
    BY <1>8, BecomesTyped DEF IInv
  <2>2. QED
    BY <1>3, <1>6, <1>8, <2>1 DEF Holds, Holding, lists
<1>10. /\ cache' = cache /\ buckets' = buckets /\ garbage' = garbage
       /\ version' = version /\ before' = before
    OBVIOUS
<1>11. /\ occupied'[k] = 1
       /\ \A l \in Caches \ {k} : occupied'[l] = occupied[l]
       /\ occupied' \in [Caches -> Nat]
    BY <1>4 DEF IInv, TypeOK
<1>12. KeepsBlocks
  <2>1. cache' \in [Classes -> Caches \cup {None}] /\ grow' \in [Classes -> BOOLEAN]
        /\ buckets' \in [Caches -> Seq(Entry \cup {None})] /\ garbage' \subseteq Caches
    BY <1>3 DEF IInv, TypeOK
  <2>2. \A l \in InUse : Size(l)' = Size(l)
    BY <1>10 DEF Size
  <2>3. QED
    BY <1>10, <1>11, <2>1, <2>2 DEF KeepsBlocks
<1>13. KeepsEntries
    BY <1>10 DEF KeepsEntries, EntriesOf
<1>14. CallOK(t)'
  <2>1. 0 < Size(k)
    BY <1>4
  <2>2. Size(k)' = Size(k) /\ s # None /\ k # None
    BY <1>3, <1>10, MethodCacheAssumption DEF Size, MethodCacheAssumption
  <2>3. QED
    BY <1>3, <1>6, <1>9, <1>10, <2>1, <2>2 DEF CallOK, Size
<1>15. FillOK(t)'
  <2>1. \A i \in 0..0 - 1 : FALSE
    OBVIOUS
  <2>2. QED
    BY <1>3, <1>6, <1>9, <1>11, <2>1 DEF FillOK
<1>16. ExpectOK(t)'
    BY <1>1, <1>6, <1>9, <1>10 DEF ExpectOK, Filling
<1>17. BlocksOK'
  <2>1. HasEmpty(k)
    BY <1>4 DEF IInv, BlocksOK
  <2>2. HasEmpty(k)' /\ (4 * occupied[k] <= 3 * Size(k))'
    <3>1. HasEmpty(k)'
      BY <1>10, <2>1 DEF HasEmpty
    <3>2. 4 * 1 <= 3 * Size(k) /\ Size(k)' = Size(k)
      BY <1>4, <1>10 DEF Size
    <3>3. QED
      BY <1>11, <3>1, <3>2
  <2>3. \A l \in Caches \ {k} : buckets'[l] = buckets[l] /\ occupied'[l] = occupied[l]
    BY <1>10, <1>11
  <2>4. \A l \in Caches : Size(l)' = Size(l)
    BY <1>10 DEF Size
  <2>5. QED
    BY <1>10, <2>2, <2>3, <2>4, BlocksWritten DEF IInv
<1>18. TablesOK'
  <2>1. WorksAt(t, c) /\ WorksAt(t, c)'
    BY <1>1, <1>3, <1>6, <1>9, <1>10 DEF WorksAt, At, Filling
  <2>2. \A d \in Classes \ {c} : /\ cache'[d] = cache[d]
                                 /\ cache[d] # None => /\ buckets'[cache[d]] = buckets[cache[d]]
                                                       /\ occupied'[cache[d]] = occupied[cache[d]]
                                                       /\ cache'[c] # cache[d]
    <3>1. \A d \in Classes \ {c} : cache[d] # None => cache[d] # k /\ cache[d] \in Caches
      BY <1>3 DEF IInv, BlocksOK, TypeOK
    <3>2. QED
      BY <1>3, <1>10, <1>11, <3>1
  <2>3. Clearing(c)'
    BY <1>3, <1>6, <1>9, <1>10 DEF Clearing, At
  <2>4. QED
    BY <1>3, <1>9, <2>1, <2>2, <2>3, TablesHolder
<1>19. CurrencyOK'
  <2>1. \A d \in Classes : Current(d)'
    <3>1. AllCurrent
      BY FillFacts
    <3>2. QED
      BY <1>10, <3>1 DEF AllCurrent, Current, EntriesOf
  <2>2. x.entry = Resolve(version, x.cls, x.entry.sel)
    BY <1>1, <1>6 DEF Filling
  <2>3. before = version /\ UNCHANGED lists
    BY <1>10, FillFacts DEF lists
  <2>4. QED
    BY <1>3, <1>9, <2>1, <2>2, <2>3, CurrentIsEnough DEF IInv
<1>20. QED
    BY <1>9, <1>12, <1>13, <1>14, <1>15, <1>16, <1>17, <1>18, <1>19, HolderIInv

LEMMA ReachedFirstNext ==
    ASSUME NEW k, BlockTyped(k)', NEW s \in Sels
    PROVE  Reached(k, s, HASH[s] % Size(k))'
<1>1. HASH[s] \in Nat /\ HASH[s] + 0 = HASH[s] /\ 0 \in 0..Size(k)' - 1
    BY HashIsNumber DEF BlockTyped
<1>2. \A n \in 0..0 - 1 : FALSE
    OBVIOUS
<1>3. (HASH[s] + 0) % Size(k)' = HASH[s] % Size(k)'
    BY <1>1
<1>4. QED
    BY <1>1, <1>2, <1>3 DEF Reached

\* A class gets a new cache; the old one, if it had one, is garbage.
LEMMA InstallIInv ==
    ASSUME IInv, NEW t \in Threads, At(t, "fill"), NEW size \in Nat, size >= 2,
           Install(call[t].cls, size), GoInsert(t, size),
           grow' = [grow EXCEPT ![call[t].cls] = FALSE],
           garbage' = garbage \cup ({cache[call[t].cls]} \ {None}),
           UNCHANGED <<version, before, lock>>
    PROVE  IInv'
<1>1. PICK c, s, e : Filling(t, c, s, e)
    BY FillFacts
<1>2. /\ c \in Classes /\ s \in Sels /\ c = call[t].cls /\ e # None /\ lock = t
      /\ e.sel = s /\ c # None
    BY <1>1 DEF Filling
<1>3. PICK n \in Caches \ (garbage \cup {cache[d] : d \in Classes}) :
        /\ cache' = [cache EXCEPT ![c] = n]
        /\ buckets' = [buckets EXCEPT ![n] = [i \in 1..size |-> None]]
        /\ occupied' = [occupied EXCEPT ![n] = 1]
    BY <1>2 DEF Install
<1>4. /\ n \in Caches /\ n \notin garbage /\ n # None
      /\ \A d \in Classes : cache[d] # n
    BY <1>3, MethodCacheAssumption DEF MethodCacheAssumption
<1>5. PICK x : /\ Holds(t, x) /\ call'[t] = x
               /\ \A u \in Threads \ {t} : call'[u] = call[u]
               /\ x.at = "insert" /\ x.cls = c /\ x.sel = s /\ x.entry = e
               /\ x.index = HASH[s] % size /\ x.index \in 0..size - 1 /\ x.block = None
               /\ x.todo = {} /\ x.then = "idle"
               /\ x.result = call[t].result /\ x.expected = call[t].expected
  <2>1. size \in Nat \ {0}
    OBVIOUS
  <2>2. QED
    BY <1>1, <2>1, GoesToInsert
<1>6. /\ cache' \in [Classes -> Caches \cup {None}] /\ cache'[c] = n
      /\ \A d \in Classes \ {c} : cache'[d] = cache[d]
    BY <1>2, <1>3, <1>4 DEF IInv, TypeOK
<1>7. /\ buckets' \in [Caches -> Seq(Entry \cup {None})]
      /\ buckets'[n] \in Seq(Entry \cup {None}) /\ Len(buckets'[n]) = size
      /\ DOMAIN buckets'[n] = 1..size
      /\ \A i \in 1..size : buckets'[n][i] = None
      /\ \A k \in Caches \ {n} : buckets'[k] = buckets[k]
  <2>1. PICK b : b = [i \in 1..size |-> None]
    OBVIOUS
  <2>2. b \in Seq(Entry \cup {None}) /\ Len(b) = size /\ DOMAIN b = 1..size
        /\ \A i \in 1..size : b[i] = None
    BY <2>1
  <2>3. buckets' = [buckets EXCEPT ![n] = b]
    BY <1>3, <2>1
  <2>4. QED
    BY <1>4, <2>2, <2>3 DEF IInv, TypeOK
<1>8. /\ occupied'[n] = 1
      /\ \A k \in Caches \ {n} : occupied'[k] = occupied[k]
      /\ occupied' \in [Caches -> Nat]
    BY <1>3, <1>4 DEF IInv, TypeOK
<1>9. /\ version' = version /\ before' = before /\ garbage \subseteq garbage'
      /\ garbage' \subseteq Caches /\ n \notin garbage'
      /\ cache[c] # None => cache[c] \in garbage'
      /\ \A k \in garbage' : k \in garbage \/ k = cache[c]
    BY <1>2, <1>4 DEF IInv, TypeOK
<1>10. n \notin InUse /\ \A k \in InUse : buckets'[k] = buckets[k]
    BY <1>4, <1>7 DEF InUse
<1>11. KeepsBlocks
  <2>1. grow' \in [Classes -> BOOLEAN]
    BY <1>2 DEF IInv, TypeOK
  <2>2. \A k \in InUse : Size(k)' = Size(k)
    BY <1>10 DEF Size
  <2>3. \A d \in Classes : cache'[d] = cache[d] \/ cache[d] = None \/ cache[d] \in garbage'
    BY <1>6, <1>9
  <2>4. QED
    BY <1>6, <1>7, <1>8, <1>9, <2>1, <2>2, <2>3 DEF KeepsBlocks
<1>12. KeepsEntries
    BY <1>10 DEF KeepsEntries, EntriesOf
<1>13. Size(n)' = size /\ BlockTyped(n)' /\ HasEmpty(n)'
  <2>1. size # 0 /\ 1 \in 1..size
    OBVIOUS
  <2>2. QED
    BY <1>7, <2>1 DEF Size, BlockTyped, HasEmpty
<1>14. CallOK(t)'
  <2>1. x.index < size /\ x.index \in Nat
    BY <1>5
  <2>2. s # None
    BY <1>2, MethodCacheAssumption DEF MethodCacheAssumption
  <2>3. Len(buckets'[cache'[c]]) = size
    BY <1>6, <1>7
  <2>4. QED
    BY <1>2, <1>4, <1>5, <1>6, <2>1, <2>2, <2>3 DEF CallOK, Size
<1>15. \A i \in 0..size - 1 : Bucket(n, i)' = None
  <2> SUFFICES ASSUME NEW i \in 0..size - 1
               PROVE  Bucket(n, i)' = None
    OBVIOUS
  <2>1. i + 1 \in 1..size
    OBVIOUS
  <2>2. QED
    BY <1>7, <2>1 DEF Bucket
<1>16. FillOK(t)'
  <2>1. Reached(n, s, x.index)'
    <3>1. Reached(n, s, HASH[s] % Size(n))'
      BY <1>2, <1>13, ReachedFirstNext
    <3>2. QED
      BY <1>5, <1>13, <3>1 DEF Reached
  <2>2. Absent(n, s)'
    BY <1>13, <1>15 DEF Absent
  <2>3. QED
    BY <1>2, <1>5, <1>6, <2>1, <2>2 DEF FillOK
<1>17. ExpectOK(t)'
    BY <1>1, <1>5, <1>9 DEF ExpectOK, Filling
<1>18. BlocksOK'
  <2>1. \A d1, d2 \in Classes : cache'[d1] # None /\ cache'[d1] = cache'[d2] => d1 = d2
    BY <1>4, <1>6 DEF IInv, BlocksOK
  <2>2. ASSUME NEW d \in Classes, cache'[d] # None
        PROVE  cache'[d] \notin garbage' /\ Len(buckets'[cache'[d]]) >= 2
    <3>1. CASE d = c
      BY <1>6, <1>7, <1>9, <3>1
    <3>2. CASE d # c
      <4>1. cache'[d] = cache[d] /\ cache[d] # n /\ cache[d] # cache[c] /\ cache[d] \notin garbage
            /\ cache[d] \in Caches /\ Size(cache[d]) >= 2
        BY <1>2, <1>4, <1>6, <2>2, <3>2 DEF IInv, BlocksOK, TypeOK
      <4>2. buckets'[cache[d]] = buckets[cache[d]] /\ cache[d] \notin garbage'
        BY <1>7, <1>9, <4>1
      <4>3. QED
        BY <4>1, <4>2 DEF Size
    <3>3. QED
      BY <3>1, <3>2
  <2>3. ASSUME NEW k \in garbage'
        PROVE  Size(k)' >= 2
    <3>1. k \in Caches \ {n}
      BY <1>9
    <3>2. Size(k) >= 2
      <4>1. CASE k \in garbage
        BY <4>1 DEF IInv, BlocksOK
      <4>2. CASE k = cache[c]
        BY <1>2, <3>1, <4>2, MethodCacheAssumption DEF IInv, BlocksOK, MethodCacheAssumption
      <4>3. QED
        BY <1>9, <4>1, <4>2
    <3>3. QED
      BY <1>7, <3>1, <3>2 DEF Size
  <2>4. ASSUME NEW k \in Caches, Size(k)' > 0
        PROVE  HasEmpty(k)' /\ 4 * occupied'[k] <= 3 * Size(k)'
    <3>1. CASE k = n
      <4>1. 4 * 1 <= 3 * size
        OBVIOUS
      <4>2. QED
        BY <1>8, <1>13, <3>1, <4>1
    <3>2. CASE k # n
      <4>1. buckets'[k] = buckets[k] /\ occupied'[k] = occupied[k]
        BY <1>7, <1>8, <3>2
      <4>2. Size(k)' = Size(k) /\ (HasEmpty(k)' <=> HasEmpty(k))
        BY <4>1 DEF Size, HasEmpty
      <4>3. QED
        BY <2>4, <4>1, <4>2 DEF IInv, BlocksOK
    <3>3. QED
      BY <3>1, <3>2
  <2>5. QED
    BY <2>1, <2>2, <2>3, <2>4 DEF BlocksOK, Size
<1>19. TablesOK'
  <2>1. WorksAt(t, c) /\ WorksAt(t, c)'
    BY <1>1, <1>5 DEF WorksAt, At, Filling
  <2>2. \A d \in Classes \ {c} : /\ cache'[d] = cache[d]
                                 /\ cache[d] # None => /\ buckets'[cache[d]] = buckets[cache[d]]
                                                       /\ occupied'[cache[d]] = occupied[cache[d]]
                                                       /\ cache'[c] # cache[d]
    <3>1. \A d \in Classes \ {c} : cache[d] # None => cache[d] # n /\ cache[d] \in Caches
      BY <1>4 DEF IInv, TypeOK
    <3>2. QED
      BY <1>6, <1>7, <1>8, <3>1
  <2>3. TableOK(c, n)'
    <3>1. Inserting(c)'
      BY <1>2, <1>5 DEF Inserting, At
    <3>2. Orderly(n)'
      BY <1>13, <1>15 DEF Orderly
    <3>3. Full(n)' = {}
      BY <1>7 DEF Full
    <3>4. Cardinality({}) = 0
      BY FS_EmptySet
    <3>5. QED
      BY <1>8, <3>1, <3>2, <3>3, <3>4 DEF TableOK
  <2>4. \A l \in Caches : cache'[c] = l /\ ~ Clearing(c)' => TableOK(c, l)'
    BY <1>6, <2>3
  <2>5. QED
    BY <1>2, <1>5, <2>1, <2>2, <2>4, TablesHolder
<1>20. CurrencyOK'
  <2>1. ASSUME NEW d \in Classes
        PROVE  Current(d)'
    <3>1. CASE d = c
      <4>1. EntriesOf(n)' = {}
        BY <1>7 DEF EntriesOf
      <4>2. EntriesOf(cache[d])' = {}
        BY <1>6, <3>1, <4>1 DEF EntriesOf
      <4>3. QED
        BY <4>2 DEF Current
    <3>2. CASE d # c
      <4>1. cache'[d] = cache[d] /\ cache[d] # n
        BY <1>4, <1>6, <3>2
      <4>2. cache[d] # None => buckets'[cache[d]] = buckets[cache[d]]
        BY <1>7, <4>1 DEF IInv, TypeOK
      <4>3. Current(d)
        BY FillFacts DEF AllCurrent
      <4>4. QED
        BY <1>9, <4>1, <4>2, <4>3 DEF Current, EntriesOf
    <3>3. QED
      BY <3>1, <3>2
  <2>2. x.entry = Resolve(version, x.cls, x.entry.sel)
    BY <1>1, <1>5 DEF Filling
  <2>3. before = version /\ UNCHANGED lists
    BY <1>9, FillFacts DEF lists
  <2>4. QED
    BY <1>2, <1>5, <2>1, <2>2, <2>3, CurrentIsEnough DEF IInv
<1>21. QED
    BY <1>5, <1>11, <1>12, <1>14, <1>16, <1>17, <1>18, <1>19, <1>20, HolderIInv

LEMMA FillIInv ==
    ASSUME IInv, NEW t \in Threads, Fill(t)
    PROVE  IInv'
<1>1. At(t, "fill") /\ UNCHANGED <<version, before, lock>>
    BY DEF Fill
<1>2. PICK k : k = cache[call[t].cls]
    OBVIOUS
<1>3. CASE k = None
  <2>1. InitSize \in Nat /\ InitSize >= 2
    BY MethodCacheAssumption DEF MethodCacheAssumption
  <2>2. Install(call[t].cls, InitSize) /\ GoInsert(t, InitSize)
        /\ grow' = [grow EXCEPT ![call[t].cls] = FALSE] /\ garbage' = garbage
    BY <1>2, <1>3 DEF Fill
  <2>3. garbage' = garbage \cup ({cache[call[t].cls]} \ {None})
    BY <1>2, <1>3, <2>2
  <2>4. QED
    BY <1>1, <2>1, <2>2, <2>3, InstallIInv
<1>4. CASE k # None /\ HasRoom(k)
    BY <1>1, <1>2, <1>4, FillAsIsIInv DEF Fill
<1>5. CASE k # None /\ ~ HasRoom(k) /\ ~ grow[call[t].cls]
    BY <1>1, <1>2, <1>5, FillAgainIInv DEF Fill
<1>6. CASE k # None /\ ~ HasRoom(k) /\ grow[call[t].cls]
  <2>1. PICK c, s, e : Filling(t, c, s, e)
    BY <1>1, FillFacts
  <2>2. Size(k) \in Nat \ {0} /\ Size(k) >= 2
    BY <1>2, <1>6, <2>1, InstalledTyped DEF Filling, IInv
  <2>3. 2 * Size(k) \in Nat /\ 2 * Size(k) >= 2
    BY <2>2
  <2>4. /\ Install(call[t].cls, 2 * Size(k)) /\ GoInsert(t, 2 * Size(k))
        /\ grow' = [grow EXCEPT ![call[t].cls] = FALSE] /\ Collect(k)
    BY <1>2, <1>6 DEF Fill
  <2>5. garbage' = garbage \cup ({cache[call[t].cls]} \ {None})
    BY <1>2, <1>6, <2>4 DEF Collect, CollectingInCritical
  <2>6. QED
    BY <1>1, <2>3, <2>4, <2>5, InstallIInv
<1>7. QED
    BY <1>3, <1>4, <1>5, <1>6

LEMMA WriteEntries ==
    ASSUME TypeOK, NEW k, NEW i, NEW e, Writes(k, i, e)
    PROVE  /\ \A l \in Caches \ {k} : EntriesOf(l)' = EntriesOf(l)
           /\ \A f \in EntriesOf(k)' : f \in EntriesOf(k) \/ (f = e /\ e # None)
<1>1. /\ \A l \in Caches \ {k} : buckets'[l] = buckets[l]
      /\ \A j \in 1..Size(k) : buckets'[k][j] = IF j = i + 1 THEN e ELSE buckets[k][j]
      /\ k \in Caches /\ DOMAIN buckets'[k] = DOMAIN buckets[k]
  <2>1. k \in Caches
    BY DEF Writes
  <2>2. QED
    BY <2>1, WriteBucket
<1>2. DOMAIN buckets[k] = 1..Size(k)
    BY <1>1, SizeIsLength
<1>3. QED
    BY <1>1, <1>2 DEF EntriesOf

\* Where an entry is written a probe goes on at least as far as before.
LEMMA ReachedKept ==
    ASSUME TypeOK, NEW k, NEW i, NEW e, Writes(k, i, e), e # None,
           NEW s \in Sels, NEW j, Reached(k, s, j)
    PROVE  Reached(k, s, j)'
<1>1. /\ \A n \in 0..Size(k) - 1 : Bucket(k, n)' = IF n = i THEN e ELSE Bucket(k, n)
      /\ Size(k)' = Size(k) /\ BlockTyped(k)
    BY WriteBucket DEF Writes
<1>2. PICK m \in Nat \ {0} : m = Size(k)
    BY <1>1 DEF BlockTyped
<1>3. PICK h \in Nat : h = HASH[s]
    BY HashIsNumber
<1>4. PICK d \in 0..m - 1 : /\ (h + d) % m = j
                            /\ \A n \in 0..d - 1 : Bucket(k, (h + n) % m) # None
    BY <1>2, <1>3 DEF Reached
<1>5. ASSUME NEW n \in 0..d - 1
      PROVE  Bucket(k, (h + n) % m)' # None
  <2>1. n \in Nat
    OBVIOUS
  <2>2. (h + n) % m \in 0..m - 1
    BY <1>1, <1>2, <1>3, <2>1, ProbeInBounds
  <2>3. PICK b \in 0..m - 1 : b = (h + n) % m
    BY <2>2
  <2>4. Bucket(k, b) # None
    BY <1>4, <1>5, <2>3
  <2>5. Bucket(k, b)' # None
    BY <1>1, <1>2, <2>4
  <2>6. QED
    BY <2>3, <2>5
<1>6. QED
    BY <1>1, <1>2, <1>3, <1>4, <1>5 DEF Reached

\* What is known of a thread that is about to place e in the bucket i of k.
Placing(t, c, k, i, e) ==
    /\ call[t] \in Call /\ CallOK(t) /\ FillOK(t) /\ ExpectOK(t)
    /\ call[t].at = "insert" /\ lock = t
    /\ c = call[t].cls /\ k = cache[c] /\ i = call[t].index /\ e = call[t].entry
    /\ c \in Classes /\ c # None /\ call[t].sel \in Sels /\ k # None
    /\ e \in Entry /\ e # None
    /\ e = Resolve(version, c, e.sel)
    /\ call[t].result # None /\ call[t].todo = {} /\ call[t].then = "idle"
    /\ call[t].block = None
    /\ Writes(k, i, e)
    /\ TableOK(c, k) /\ Inserting(c) /\ HasEmpty(k) /\ Absent(k, e.sel) /\ Reached(k, e.sel, i)
    /\ Size(k) \in Nat \ {0} /\ 4 * occupied[k] <= 3 * Size(k)

LEMMA InsertFacts ==
    ASSUME IInv, NEW t \in Threads, Insert(t)
    PROVE  /\ \E c, k, i, e : Placing(t, c, k, i, e)
           /\ before = version /\ AllCurrent
           /\ \A u \in Threads \ {t} : call[u].at \notin Holding
<1>1. call[t] \in Call /\ CallOK(t) /\ FillOK(t) /\ ExpectOK(t) /\ call[t].at = "insert"
    BY DEF Insert, IInv, TypeOK, CallsOK, FillsOK, ExpectedOK, At
<1>2. call[t].at \in Holding /\ call[t].entry # None /\ call[t].result # None
    BY <1>1 DEF Holding, CallOK, IInv, TypeOK
<1>3. PICK c, k, i, e : c = call[t].cls /\ k = cache[c] /\ i = call[t].index /\ e = call[t].entry
    OBVIOUS
<1>4. c \in Classes /\ call[t].sel \in Sels /\ c # None /\ e \in Entry /\ e # None /\ k # None
      /\ i \in Nat /\ i < Size(k)
    BY <1>1, <1>2, <1>3, MethodCacheAssumption DEF CallOK, Call, MethodCacheAssumption
<1>5. call[t].todo = {} /\ call[t].then = "idle" /\ call[t].block = None
    BY <1>1 DEF CallOK
<1>6. e = Resolve(version, c, e.sel)
    BY <1>2, <1>3 DEF IInv, CurrencyOK
<1>7. k \in Caches /\ BlockTyped(k) /\ Size(k) \in Nat \ {0}
    BY <1>3, <1>4, InstalledTyped DEF IInv
<1>8. Writes(k, i, e)
  <2>1. buckets' = [buckets EXCEPT ![k][i + 1] = e]
    BY <1>3 DEF Insert
  <2>2. QED
    BY <1>4, <1>7, <2>1 DEF Writes
<1>9. lock = t /\ \A u \in Threads \ {t} : call[u].at \notin Holding
    BY <1>2, WhenFilling
<1>10. ~ Clearing(c) /\ Inserting(c)
    BY <1>1, <1>3, <1>9 DEF Clearing, Inserting, At, Holding
<1>11. TableOK(c, k)
    BY <1>3, <1>4, <1>7, <1>10 DEF IInv, TablesOK
<1>12. HasEmpty(k) /\ 4 * occupied[k] <= 3 * Size(k)
    BY <1>7 DEF IInv, BlocksOK
<1>13. Absent(k, e.sel) /\ Reached(k, e.sel, i)
    BY <1>1, <1>3 DEF FillOK
<1>14. Placing(t, c, k, i, e)
    BY <1>1, <1>2, <1>3, <1>4, <1>5, <1>6, <1>7, <1>8, <1>9, <1>10, <1>11, <1>12, <1>13 DEF Placing
<1>15. QED
    BY <1>2, <1>14, WhenFilling

\* A block that the entry is placed in stays orderly and keeps an empty bucket.
LEMMA PlacedInOrder ==
    ASSUME IInv, NEW t \in Threads, NEW c, NEW k, NEW i, NEW e, Placing(t, c, k, i, e),
           occupied' = occupied, NEW saved, saved = Bucket(k, i)
    PROVE  /\ Orderly(k)' /\ HasEmpty(k)' /\ (4 * occupied[k] <= 3 * Size(k))'
           /\ saved = None => occupied'[k] = Cardinality(Full(k))'
           /\ saved # None =>
                /\ occupied'[k] = Cardinality(Full(k))' + 1
                /\ Reached(k, saved.sel, (i + 1) % Size(k))'
                /\ Absent(k, saved.sel)'
<1>1. /\ Writes(k, i, e) /\ TypeOK /\ e \in Entry /\ e # None /\ e.sel \in Sels
      /\ BlockTyped(k) /\ k \in Caches /\ Orderly(k) /\ HasEmpty(k) /\ Absent(k, e.sel)
      /\ Reached(k, e.sel, i) /\ 4 * occupied[k] <= 3 * Size(k)
      /\ occupied[k] = Cardinality(Full(k)) + 1
    BY DEF Placing, IInv, Writes, TableOK, Entry
<1>2. PICK m \in Nat \ {0} : m = Size(k) /\ m = Size(k)'
    BY <1>1, WriteBucket DEF BlockTyped
<1>3. i \in 0..m - 1
    BY <1>1, <1>2 DEF Writes
<1>4. \A j \in 0..m - 1 : Bucket(k, j)' = IF j = i THEN e ELSE Bucket(k, j)
    BY <1>1, <1>2, WriteBucket
<1>5. saved = Bucket(k, i)
    OBVIOUS
<1>6. \A j \in 0..m - 1 : Bucket(k, j) \in Entry \cup {None}
    BY <1>1, <1>2, ProbeInBounds
<1>7. \A j \in 0..m - 1 : Bucket(k, j) # None =>
          /\ Bucket(k, j).sel \in Sels /\ Reached(k, Bucket(k, j).sel, j)
          /\ Bucket(k, j).sel # e.sel
    BY <1>1, <1>2, <1>6 DEF Orderly, Absent, Entry
<1>8. \A j, l \in 0..m - 1 :
          Bucket(k, j) # None /\ Bucket(k, l) # None /\ Bucket(k, j).sel = Bucket(k, l).sel => j = l
    BY <1>1, <1>2 DEF Orderly
<1>9. Orderly(k)'
  <2>1. ASSUME NEW j \in 0..m - 1, Bucket(k, j)' # None
        PROVE  Reached(k, Bucket(k, j).sel, j)'
    <3>1. CASE j = i
      <4>1. Reached(k, e.sel, i)'
        BY <1>1, ReachedKept
      <4>2. Bucket(k, j)' = e
        BY <1>3, <1>4, <3>1
      <4>3. QED
        BY <3>1, <4>1, <4>2 DEF Reached
    <3>2. CASE j # i
      <4>1. PICK f : f = Bucket(k, j)
        OBVIOUS
      <4>2. Bucket(k, j)' = f /\ f # None
        BY <1>4, <2>1, <3>2, <4>1
      <4>3. f.sel \in Sels /\ Reached(k, f.sel, j)
        BY <1>7, <4>1, <4>2
      <4>4. Reached(k, f.sel, j)'
        BY <1>1, <4>3, ReachedKept
      <4>5. QED
        BY <4>2, <4>4 DEF Reached
    <3>3. QED
      BY <3>1, <3>2
  <2>2. ASSUME NEW j \in 0..m - 1, NEW l \in 0..m - 1, Bucket(k, j)' # None, Bucket(k, l)' # None,
               Bucket(k, l)'.sel = Bucket(k, j)'.sel
        PROVE  l = j
    BY <1>4, <1>7, <1>8, <2>2
  <2>3. QED
    BY <1>2, <2>1, <2>2 DEF Orderly
<1>10. Cardinality(Full(k)) \in Nat
    BY <1>1, FullIsFinite
<1>11. CASE saved = None
  <2>a. e # None /\ Bucket(k, i) = None
    BY <1>1, <1>5, <1>11
  <2>1. Cardinality(Full(k))' = Cardinality(Full(k)) + 1
    BY <1>1, <2>a, FullAfterWrite
  <2>2. Cardinality(Full(k)) + 1 < Size(k)
    BY <1>1, <1>2, <1>10
  <2>3. HasEmpty(k)'
    BY <1>1, <1>5, <1>11, <2>2, FullAfterWrite
  <2>4. QED
    BY <1>1, <1>2, <1>5, <1>9, <1>11, <2>1, <2>3
<1>12. CASE saved # None
  <2>1. Cardinality(Full(k))' = Cardinality(Full(k)) /\ HasEmpty(k)'
    BY <1>1, <1>5, <1>12, FullAfterWrite
  <2>2. saved.sel \in Sels /\ Reached(k, saved.sel, i)
    BY <1>3, <1>5, <1>7, <1>12
  <2>3. Reached(k, saved.sel, (i + 1) % Size(k))
    BY <1>1, <1>2, <1>3, <1>5, <1>12, <2>2, ReachedNext
  <2>4. Reached(k, saved.sel, (i + 1) % Size(k))'
    <3>1. PICK j : j = (i + 1) % m
      OBVIOUS
    <3>2. Reached(k, saved.sel, j)'
      BY <1>1, <1>2, <2>2, <2>3, <3>1, ReachedKept
    <3>3. QED
      BY <1>2, <3>1, <3>2 DEF Reached
  <2>5. Absent(k, saved.sel)'
    <3>1. ASSUME NEW j \in 0..m - 1, Bucket(k, j)' # None
          PROVE  Bucket(k, j)'.sel # saved.sel
      BY <1>3, <1>4, <1>5, <1>7, <1>8, <1>12, <3>1
    <3>2. QED
      BY <1>2, <3>1 DEF Absent
  <2>6. QED
    BY <1>1, <1>2, <1>5, <1>9, <1>12, <2>1, <2>4, <2>5
<1>13. QED
    BY <1>11, <1>12

LEMMA InsertIInv ==
    ASSUME IInv, NEW t \in Threads, Insert(t)
    PROVE  IInv'
<1>1. PICK c, k, i, e : Placing(t, c, k, i, e)
    BY InsertFacts
<1>2. PICK saved : saved = Bucket(k, i)
    OBVIOUS
<1>3. /\ version' = version /\ before' = before /\ lock' = lock /\ cache' = cache
      /\ grow' = grow /\ occupied' = occupied /\ garbage' = garbage
    BY DEF Insert
<1>4. /\ Writes(k, i, e) /\ TypeOK /\ k \in Caches /\ k # None /\ k = cache[c] /\ c \in Classes
      /\ c # None /\ e \in Entry /\ e # None /\ lock = t /\ Size(k) \in Nat \ {0}
      /\ BlockTyped(k) /\ i \in 0..Size(k) - 1
    BY <1>1 DEF Placing, Writes, IInv
<1>5. /\ \A l \in Caches : Size(l)' = Size(l)
      /\ \A l \in Caches \ {k} : buckets'[l] = buckets[l]
      /\ buckets' \in [Caches -> Seq(Entry \cup {None})]
    BY <1>4, WriteBucket
<1>6. /\ \A l \in Caches \ {k} : EntriesOf(l)' = EntriesOf(l)
      /\ \A f \in EntriesOf(k)' : f \in EntriesOf(k) \/ f = e
    BY <1>4, WriteEntries
<1>7. /\ Orderly(k)' /\ HasEmpty(k)' /\ (4 * occupied[k] <= 3 * Size(k))'
      /\ saved = None => occupied'[k] = Cardinality(Full(k))'
      /\ saved # None =>
                /\ occupied'[k] = Cardinality(Full(k))' + 1
                /\ Reached(k, saved.sel, (i + 1) % Size(k))'
                /\ Absent(k, saved.sel)'
    BY <1>1, <1>2, <1>3, PlacedInOrder
<1>8. saved \in Entry \cup {None} /\ (saved # None => saved \in EntriesOf(k))
  <2>1. saved \in Entry \cup {None}
    <3>1. PICK s \in Sels : s = e.sel
      BY <1>4 DEF Entry
    <3>2. QED
      BY <1>2, <1>4, ProbeInBounds
  <2>2. i + 1 \in DOMAIN buckets[k]
    BY <1>4, SizeIsLength
  <2>3. QED
    BY <1>2, <2>1, <2>2 DEF Bucket, EntriesOf
<1>9. PICK j : j = (i + 1) % Size(k)
    OBVIOUS
<1>10. j \in 0..Size(k) - 1
  <2>1. i + 1 \in Nat
    BY <1>4
  <2>2. QED
    BY <1>4, <1>9, <2>1, Division
<1>11. PICK x : x = IF saved = None THEN [call[t] EXCEPT !.at = "unlock", !.entry = None, !.index = 0]
                    ELSE [call[t] EXCEPT !.entry = saved, !.index = j]
    OBVIOUS
<1>12. call' = [call EXCEPT ![t] = x]
    BY <1>1, <1>2, <1>9, <1>11 DEF Insert, InsertionDone, Placing
<1>13. /\ x \in Call /\ x.cls = c /\ x.sel = call[t].sel /\ x.block = None
       /\ x.todo = {} /\ x.then = "idle"
       /\ x.result = call[t].result /\ x.expected = call[t].expected
       /\ saved = None => x.at = "unlock" /\ x.entry = None /\ x.index = 0
       /\ saved # None => x.at = "insert" /\ x.entry = saved /\ x.index = j
  <2>1. call[t] \in Call /\ j \in Nat
    BY <1>1, <1>10 DEF Placing
  <2>2. x \in Call
    BY <1>8, <1>11, <2>1 DEF Call
  <2>3. /\ x.cls = call[t].cls /\ x.sel = call[t].sel /\ x.block = call[t].block
        /\ x.todo = call[t].todo /\ x.then = call[t].then
        /\ x.result = call[t].result /\ x.expected = call[t].expected
    BY <1>11, <2>1 DEF Call
  <2>4. /\ saved = None => x.at = "unlock" /\ x.entry = None /\ x.index = 0
        /\ saved # None => x.at = call[t].at /\ x.entry = saved /\ x.index = j
    BY <1>11, <2>1 DEF Call
  <2>5. QED
    BY <1>1, <2>2, <2>3, <2>4 DEF Placing
<1>14. Becomes(t, x)
    BY <1>12, <1>13 DEF Becomes
<1>15. /\ Holds(t, x) /\ call'[t] = x
       /\ \A u \in Threads \ {t} : call'[u] = call[u]
  <2>1. call'[t] = x /\ \A u \in Threads \ {t} : call'[u] = call[u]
    BY <1>14, BecomesTyped DEF IInv
  <2>2. x.at \in Holding /\ x.at # "clear" /\ x.at # "fill" /\ x.result # None
    BY <1>1, <1>13 DEF Holding, Placing
  <2>3. x.at = "insert" => x.entry # None
    BY <1>13
  <2>4. QED
    BY <1>3, <1>4, <1>14, <2>1, <2>2, <2>3 DEF Holds, lists
<1>16. KeepsBlocks
  <2>1. cache' \in [Classes -> Caches \cup {None}] /\ grow' \in [Classes -> BOOLEAN]
        /\ garbage' \subseteq Caches /\ occupied' \in [Caches -> Nat]
    BY <1>3 DEF IInv, TypeOK
  <2>2. \A l \in InUse : Size(l)' = Size(l)
    BY <1>5 DEF InUse
  <2>3. QED
    BY <1>3, <1>5, <2>1, <2>2 DEF KeepsBlocks
<1>17. KeepsEntries
  <2> SUFFICES ASSUME NEW l \in InUse, NEW f \in EntriesOf(l)'
               PROVE  \/ f \in EntriesOf(l)
                      \/ \E d \in Classes : cache[d] = l /\ f \in Entry /\ f = Resolve(version, d, f.sel)
    BY DEF KeepsEntries
  <2>1. CASE l = k
    <3>1. f \in EntriesOf(k) \/ f = e
      BY <1>6, <2>1
    <3>2. e = Resolve(version, c, e.sel)
      BY <1>1 DEF Placing
    <3>3. QED
      BY <1>4, <2>1, <3>1, <3>2
  <2>2. CASE l # k
    <3>1. EntriesOf(l)' = EntriesOf(l)
      BY <1>6, <2>2 DEF InUse
    <3>2. QED
      BY <3>1
  <2>3. QED
    BY <2>1, <2>2
<1>18. CallOK(t)'
  <2>1. j < Size(k) /\ j \in Nat
    BY <1>4, <1>10
  <2>2. Size(k)' = Size(k)
    BY <1>4, <1>5
  <2>3. Len(buckets'[cache'[c]]) = Size(k)
    BY <1>3, <1>4, <2>2 DEF Size
  <2>4. x.sel # None /\ cache'[c] # None
    BY <1>1, <1>3, <1>4, <1>13, MethodCacheAssumption DEF Placing, MethodCacheAssumption
  <2>5. CASE saved = None
    BY <1>4, <1>13, <1>15, <2>4, <2>5 DEF CallOK
  <2>6. CASE saved # None
    BY <1>4, <1>13, <1>15, <2>1, <2>3, <2>4, <2>6 DEF CallOK, Size
  <2>7. QED
    BY <2>5, <2>6
<1>19. FillOK(t)'
  <2>1. CASE saved = None
    BY <1>13, <1>15, <2>1 DEF FillOK
  <2>2. CASE saved # None
    <3>1. Reached(k, saved.sel, j)'
      BY <1>4, <1>5, <1>7, <1>9, <2>2 DEF Reached
    <3>2. Absent(k, saved.sel)' /\ cache'[c] = k
      BY <1>3, <1>4, <1>7, <2>2
    <3>3. QED
      BY <1>13, <1>15, <2>2, <3>1, <3>2 DEF FillOK
  <2>3. QED
    BY <2>1, <2>2
<1>20. ExpectOK(t)'
    BY <1>1, <1>3, <1>13, <1>15 DEF ExpectOK, Placing
<1>21. BlocksOK'
    BY <1>3, <1>5, <1>7, BlocksWritten DEF IInv
<1>22. TablesOK'
  <2>1. WorksAt(t, c) /\ WorksAt(t, c)'
    BY <1>1, <1>13, <1>15 DEF WorksAt, At, Placing
  <2>2. \A d \in Classes \ {c} : /\ cache'[d] = cache[d]
                                 /\ cache[d] # None => /\ buckets'[cache[d]] = buckets[cache[d]]
                                                       /\ occupied'[cache[d]] = occupied[cache[d]]
                                                       /\ cache'[c] # cache[d]
    <3>1. \A d \in Classes \ {c} : cache[d] # None => cache[d] # k /\ cache[d] \in Caches
      BY <1>4 DEF IInv, BlocksOK, TypeOK
    <3>2. QED
      BY <1>3, <1>4, <1>5, <3>1
  <2>3. TableOK(c, k)'
    <3>1. Inserting(c)' <=> saved # None
      <4>1. Inserting(c)' <=> x.at = "insert"
        BY <1>13, <1>15, InsertFacts DEF Inserting, At, Holding
      <4>2. QED
        BY <1>13, <4>1
    <3>2. Cardinality(Full(k))' \in Nat
      <4>1. BlockTyped(k)' /\ Cardinality(Full(k)) \in Nat
        BY <1>4, WriteBucket, FullIsFinite
      <4>2. e # None /\ (Bucket(k, i) # None \/ Bucket(k, i) = None)
        BY <1>4
      <4>3. Cardinality(Full(k))' = Cardinality(Full(k))
            \/ Cardinality(Full(k))' = Cardinality(Full(k)) + 1
        BY <1>4, <4>2, FullAfterWrite
      <4>4. QED
        BY <4>1, <4>3
    <3>3. QED
      BY <1>7, <3>1, <3>2 DEF TableOK
  <2>4. \A l \in Caches : cache'[c] = l /\ ~ Clearing(c)' => TableOK(c, l)'
    BY <1>3, <1>4, <2>3
  <2>5. QED
    BY <1>4, <1>15, <2>1, <2>2, <2>4, TablesHolder
<1>23. CurrencyOK'
  <2>1. e = Resolve(version, c, e.sel) /\ AllCurrent /\ before = version
    BY <1>1, InsertFacts DEF Placing
  <2>2. ASSUME NEW d \in Classes
        PROVE  Current(d)'
    <3>1. PICK l : l = cache[d]
      OBVIOUS
    <3>2. Current(d) /\ cache'[d] = l /\ version' = version
      BY <1>3, <2>1, <3>1 DEF AllCurrent
    <3>3. CASE l # None /\ l # k
      <4>1. EntriesOf(l)' = EntriesOf(l)
        BY <1>6, <3>1, <3>3 DEF IInv, TypeOK
      <4>2. QED
        BY <3>1, <3>2, <4>1 DEF Current, EntriesOf
    <3>4. CASE l = k
      <4>1. d = c
        BY <1>4, <3>1, <3>4 DEF IInv, BlocksOK
      <4>2. \A f \in EntriesOf(k)' : f = Resolve(version, c, f.sel)
        BY <1>4, <1>6, <2>1, <3>1, <3>2, <3>4, <4>1 DEF Current
      <4>3. QED
        BY <3>2, <3>4, <4>1, <4>2 DEF Current, EntriesOf
    <3>5. CASE l = None
      BY <3>2, <3>5 DEF Current
    <3>6. QED
      BY <3>3, <3>4, <3>5
  <2>3. x.entry # None => x.entry = Resolve(version, x.cls, x.entry.sel)
    <3>1. saved # None => saved = Resolve(version, c, saved.sel)
      BY <1>4, <1>8, <2>1 DEF AllCurrent, Current
    <3>2. QED
      BY <1>13, <3>1
  <2>4. UNCHANGED lists
    BY <1>3 DEF lists
  <2>5. QED
    BY <1>3, <1>4, <1>15, <2>1, <2>2, <2>3, <2>4, CurrentIsEnough DEF IInv
<1>24. QED
    BY <1>15, <1>16, <1>17, <1>18, <1>19, <1>20, <1>21, <1>22, <1>23, HolderIInv

\* What is known of a thread that is about to clear the bucket i of k.
Emptying(t, c, k, i) ==
    /\ call[t] \in Call /\ CallOK(t) /\ FillOK(t) /\ ExpectOK(t)
    /\ call[t].at = "clear" /\ lock = t
    /\ c \in Classes /\ k = cache[c] /\ k = call[t].block /\ i = call[t].index /\ k # None
    /\ Writes(k, i, None)
    /\ Size(k) \in Nat \ {0} /\ 4 * occupied[k] <= 3 * Size(k)
    /\ \A j \in 0..i - 1 : Bucket(k, j) = None
    /\ occupied[k] = IF call[t].entry = None THEN 0 ELSE 1
    /\ call[t].entry # None =>
          /\ c = call[t].cls /\ call[t].sel \in Sels /\ call[t].entry.sel = call[t].sel
          /\ call[t].todo = {} /\ call[t].then = "idle" /\ call[t].result # None

LEMMA ClearFacts ==
    ASSUME IInv, NEW t \in Threads, Clear(t)
    PROVE  /\ \E c, k, i : Emptying(t, c, k, i)
           /\ \A u \in Threads \ {t} : call[u].at \notin Holding
<1>1. call[t] \in Call /\ CallOK(t) /\ FillOK(t) /\ ExpectOK(t) /\ call[t].at = "clear"
    BY DEF Clear, IInv, TypeOK, CallsOK, FillsOK, ExpectedOK, At
<1>2. lock = t /\ \A u \in Threads \ {t} : call[u].at \notin Holding
    BY <1>1, Others DEF IInv, LockOK, Holding
<1>3. PICK k, i : k = call[t].block /\ i = call[t].index
    OBVIOUS
<1>4. PICK c \in Classes : cache[c] = k
    BY <1>1, <1>3 DEF CallOK
<1>5. k # None /\ i \in Nat /\ i < Size(k)
    BY <1>1, <1>3 DEF CallOK, Call
<1>6. k \in Caches /\ BlockTyped(k) /\ Size(k) \in Nat \ {0}
    BY <1>4, <1>5, InstalledTyped DEF IInv
<1>7. Writes(k, i, None)
  <2>1. buckets' = [buckets EXCEPT ![k][i + 1] = None]
    BY <1>3 DEF Clear
  <2>2. QED
    BY <1>5, <1>6, <2>1 DEF Writes
<1>8. 4 * occupied[k] <= 3 * Size(k)
    BY <1>6 DEF IInv, BlocksOK
<1>9. /\ \A j \in 0..i - 1 : Bucket(k, j) = None
      /\ occupied[k] = IF call[t].entry = None THEN 0 ELSE 1
    BY <1>1, <1>3 DEF FillOK
<1>10. ASSUME call[t].entry # None
       PROVE  /\ c = call[t].cls /\ call[t].sel \in Sels /\ call[t].entry.sel = call[t].sel
              /\ call[t].todo = {} /\ call[t].then = "idle" /\ call[t].result # None
  <2>1. call[t].cls \in Classes /\ cache[call[t].cls] = k
        /\ call[t].todo = {} /\ call[t].then = "idle"
    BY <1>1, <1>3, <1>10 DEF CallOK
  <2>2. c = call[t].cls
    BY <1>4, <1>5, <2>1 DEF IInv, BlocksOK
  <2>3. call[t].sel \in Sels
    BY <1>1, <2>1, MethodCacheAssumption DEF CallOK, Call, MethodCacheAssumption
  <2>4. call[t].result \in Entry
    BY <1>1, <1>10 DEF ExpectOK, Call
  <2>5. QED
    BY <1>1, <1>10, <2>1, <2>2, <2>3, <2>4, NoMethod DEF FillOK
<1>11. Emptying(t, c, k, i)
    BY <1>1, <1>2, <1>3, <1>4, <1>5, <1>6, <1>7, <1>8, <1>9, <1>10 DEF Emptying
<1>12. QED
    BY <1>2, <1>11

LEMMA ClearIInv ==
    ASSUME IInv, NEW t \in Threads, Clear(t)
    PROVE  IInv'
<1>1. PICK c, k, i : Emptying(t, c, k, i)
    BY ClearFacts
<1>2. /\ version' = version /\ before' = before /\ lock' = lock /\ cache' = cache
      /\ grow' = grow /\ occupied' = occupied /\ garbage' = garbage
    BY DEF Clear
<1>3. /\ Writes(k, i, None) /\ TypeOK /\ k \in Caches /\ k # None /\ k = cache[c] /\ c \in Classes
      /\ lock = t /\ Size(k) \in Nat \ {0} /\ BlockTyped(k) /\ i \in 0..Size(k) - 1
      /\ call[t].block = k /\ call[t].index = i /\ call[t].at = "clear"
    BY <1>1 DEF Emptying, Writes, IInv
<1>4. /\ \A l \in Caches : Size(l)' = Size(l)
      /\ \A l \in Caches \ {k} : buckets'[l] = buckets[l]
      /\ \A j \in 0..Size(k) - 1 : Bucket(k, j)' = IF j = i THEN None ELSE Bucket(k, j)
      /\ buckets' \in [Caches -> Seq(Entry \cup {None})] /\ BlockTyped(k)'
    BY <1>3, WriteBucket
<1>5. /\ \A l \in Caches \ {k} : EntriesOf(l)' = EntriesOf(l)
      /\ \A f \in EntriesOf(k)' : f \in EntriesOf(k)
    BY <1>3, WriteEntries
<1>6. HasEmpty(k)' /\ (4 * occupied[k] <= 3 * Size(k))'
  <2>1. HasEmpty(k)'
    BY <1>3, FullAfterWrite
  <2>2. 4 * occupied[k] <= 3 * Size(k) /\ Size(k)' = Size(k)
    BY <1>1, <1>3, <1>4 DEF Emptying
  <2>3. QED
    BY <1>2, <2>1, <2>2
<1>7. PICK e, s, m : e = call[t].entry /\ s = call[t].sel /\ m = Size(k)
    OBVIOUS
<1>8. m \in Nat \ {0} /\ i \in 0..m - 1 /\ i \in Nat
    BY <1>3, <1>7
<1>9. \A j \in 0..i : Bucket(k, j)' = None
  <2> SUFFICES ASSUME NEW j \in 0..i
               PROVE  Bucket(k, j)' = None
    OBVIOUS
  <2>1. j \in 0..m - 1 /\ (j = i \/ j \in 0..i - 1)
    BY <1>8
  <2>2. \A l \in 0..i - 1 : Bucket(k, l) = None
    BY <1>1 DEF Emptying
  <2>3. QED
    BY <1>4, <1>7, <2>1, <2>2
<1>10. PICK j : j = IF e = None THEN 0 ELSE HASH[s] % m
    OBVIOUS
<1>11. j \in 0..m - 1 /\ j \in Nat
  <2>1. e # None => HASH[s] \in Nat
    BY <1>1, <1>7, HashIsNumber DEF Emptying
  <2>2. QED
    BY <1>8, <1>10, <2>1, Division
<1>12. PICK x : x = IF i + 1 < m THEN [call[t] EXCEPT !.index = i + 1]
                    ELSE IF e = None
                    THEN [call[t] EXCEPT !.at = "flush", !.index = 0, !.block = None]
                    ELSE [call[t] EXCEPT !.at = "insert", !.index = j, !.block = None]
    OBVIOUS
<1>13. call' = [call EXCEPT ![t] = x]
  <2>1. e # None => j = Slot(k, call[t].sel)
    BY <1>7, <1>10 DEF Slot
  <2>2. call' = [call EXCEPT ![t] =
                    IF i + 1 < Size(k) THEN [call[t] EXCEPT !.index = i + 1]
                    ELSE IF call[t].entry = None
                    THEN [call[t] EXCEPT !.at = "flush", !.index = 0, !.block = None]
                    ELSE [call[t] EXCEPT !.at = "insert", !.index = Slot(k, call[t].sel), !.block = None]]
    BY <1>3 DEF Clear
  <2>3. QED
    BY <1>7, <1>12, <2>1, <2>2
<1>14. /\ x \in Call /\ x.cls = call[t].cls /\ x.sel = s /\ x.entry = e
       /\ x.todo = call[t].todo /\ x.then = call[t].then
       /\ x.result = call[t].result /\ x.expected = call[t].expected
       /\ i + 1 < m => x.at = "clear" /\ x.block = k /\ x.index = i + 1
       /\ ~ (i + 1 < m) /\ e = None => x.at = "flush" /\ x.block = None /\ x.index = 0
       /\ ~ (i + 1 < m) /\ e # None => x.at = "insert" /\ x.block = None /\ x.index = j
  <2>1. call[t] \in Call /\ i + 1 \in Nat
    BY <1>1, <1>8 DEF Emptying
  <2>2. x \in Call
    BY <1>11, <1>12, <2>1 DEF Call
  <2>3. /\ x.cls = call[t].cls /\ x.sel = call[t].sel /\ x.entry = call[t].entry
        /\ x.todo = call[t].todo /\ x.then = call[t].then
        /\ x.result = call[t].result /\ x.expected = call[t].expected
    BY <1>12, <2>1 DEF Call
  <2>4. CASE i + 1 < m
    <3>1. x = [call[t] EXCEPT !.index = i + 1]
      BY <1>12, <2>4
    <3>2. x.at = call[t].at /\ x.block = call[t].block /\ x.index = i + 1
      BY <2>1, <3>1 DEF Call
    <3>3. QED
      BY <1>3, <1>7, <2>2, <2>3, <2>4, <3>2
  <2>5. CASE ~ (i + 1 < m)
    <3>1. e = None => x.at = "flush" /\ x.block = None /\ x.index = 0
      BY <1>12, <2>1, <2>5 DEF Call
    <3>2. e # None => x.at = "insert" /\ x.block = None /\ x.index = j
      BY <1>12, <2>1, <2>5 DEF Call
    <3>3. QED
      BY <1>7, <2>2, <2>3, <2>5, <3>1, <3>2
  <2>6. QED
    BY <2>4, <2>5
<1>15. Becomes(t, x)
    BY <1>13, <1>14 DEF Becomes
<1>16. x.at = "clear" \/ (x.at = "flush" /\ e = None) \/ (x.at = "insert" /\ e # None)
    BY <1>14
<1>17. /\ Holds(t, x) /\ call'[t] = x
       /\ \A u \in Threads \ {t} : call'[u] = call[u]
  <2>1. call'[t] = x /\ \A u \in Threads \ {t} : call'[u] = call[u]
    BY <1>15, BecomesTyped DEF IInv
  <2>2. e # None => x.result # None
    BY <1>1, <1>7, <1>14 DEF Emptying
  <2>3. x.at = "clear" => x.block # None
    BY <1>3, <1>14
  <2>4. QED
    BY <1>2, <1>3, <1>14, <1>15, <1>16, <2>1, <2>2, <2>3 DEF Holds, lists, Holding
<1>18. KeepsBlocks
  <2>1. cache' \in [Classes -> Caches \cup {None}] /\ grow' \in [Classes -> BOOLEAN]
        /\ garbage' \subseteq Caches /\ occupied' \in [Caches -> Nat]
    BY <1>2 DEF IInv, TypeOK
  <2>2. \A l \in InUse : Size(l)' = Size(l)
    BY <1>4 DEF InUse
  <2>3. QED
    BY <1>2, <1>4, <2>1, <2>2 DEF KeepsBlocks
<1>19. KeepsEntries
  <2> SUFFICES ASSUME NEW l \in InUse, NEW f \in EntriesOf(l)'
               PROVE  f \in EntriesOf(l)
    BY DEF KeepsEntries
  <2>1. CASE l = k
    BY <1>5, <2>1
  <2>2. CASE l # k
    <3>1. EntriesOf(l)' = EntriesOf(l)
      BY <1>5, <2>2 DEF InUse
    <3>2. QED
      BY <3>1
  <2>3. QED
    BY <2>1, <2>2
<1>20. CallOK(t)'
  <2>1. Size(k)' = Size(k) /\ Len(buckets'[k]) = m /\ cache'[c] = k
    BY <1>2, <1>3, <1>4, <1>7 DEF Size
  <2>2. CallOK(t)
    BY <1>1 DEF Emptying
  <2>3. e # None => c = call[t].cls /\ call[t].todo = {} /\ call[t].then = "idle"
    BY <1>1, <1>7 DEF Emptying
  <2>4. CASE x.at = "clear"
    <3>1. x.block = k /\ x.index = i + 1 /\ i + 1 < m
      BY <1>3, <1>14, <2>4
    <3>2. Len(buckets'[x.block]) = m
      BY <2>1, <3>1
    <3>3. QED
      BY <1>2, <1>3, <1>7, <1>14, <1>17, <2>1, <2>2, <2>3, <2>4, <3>1, <3>2 DEF CallOK, Size
  <2>5. CASE x.at = "flush"
    <3>1. x.block = None /\ x.index = 0 /\ e = None
      BY <1>3, <1>14, <1>16, <2>5
    <3>2. QED
      BY <1>3, <1>7, <1>14, <1>17, <2>2, <2>5, <3>1 DEF CallOK
  <2>6. CASE x.at = "insert"
    <3>1. x.block = None /\ x.index = j /\ e # None
      BY <1>3, <1>14, <1>16, <2>6
    <3>2. x.cls = c /\ Len(buckets'[cache'[x.cls]]) = m /\ j < m
      BY <1>8, <1>11, <1>14, <2>1, <2>3, <3>1
    <3>3. QED
      BY <1>3, <1>7, <1>14, <1>17, <2>1, <2>2, <2>3, <2>6, <3>1, <3>2 DEF CallOK, Size
  <2>7. QED
    BY <1>16, <2>4, <2>5, <2>6
<1>21. ASSUME x.at # "clear"
       PROVE  /\ \A l \in 0..m - 1 : Bucket(k, l)' = None
              /\ Absent(k, s)' /\ Orderly(k)' /\ Full(k)' = {} /\ EntriesOf(k)' = {}
  <2>1. i = m - 1 /\ Size(k)' = m
    BY <1>3, <1>4, <1>7, <1>8, <1>14, <1>21
  <2>2. \A l \in 0..m - 1 : Bucket(k, l)' = None
    BY <1>8, <1>9, <2>1
  <2>3. Absent(k, s)' /\ Orderly(k)'
    BY <2>1, <2>2 DEF Absent, Orderly
  <2>4. DOMAIN buckets'[k] = 1..m
    BY <1>4, <2>1 DEF BlockTyped, Size
  <2>5. \A l \in 1..m : buckets'[k][l] = None
    <3> SUFFICES ASSUME NEW l \in 1..m
                 PROVE  buckets'[k][l] = None
      OBVIOUS
    <3>1. l - 1 \in 0..m - 1 /\ (l - 1) + 1 = l
      BY <1>8
    <3>2. Bucket(k, l - 1)' = None
      BY <2>2, <3>1
    <3>3. QED
      BY <3>1, <3>2 DEF Bucket
  <2>6. QED
    BY <2>2, <2>3, <2>4, <2>5 DEF Full, EntriesOf
<1>22. occupied'[k] = IF e = None THEN 0 ELSE 1
    BY <1>1, <1>2, <1>7 DEF Emptying
<1>23. FillOK(t)'
  <2>1. e # None => c = call[t].cls /\ e.sel = s /\ s \in Sels
    BY <1>1, <1>7 DEF Emptying
  <2>2. CASE x.at = "clear"
    <3>1. x.block = k /\ x.index = i + 1 /\ \A l \in 0..(i + 1) - 1 : Bucket(k, l)' = None
      BY <1>3, <1>8, <1>9, <1>14, <2>2
    <3>2. \A l \in 0..x.index - 1 : (Bucket(x.block, l))' = None
      BY <3>1 DEF Bucket
    <3>3. QED
      BY <1>14, <1>17, <1>22, <2>1, <2>2, <3>1, <3>2 DEF FillOK, Bucket
  <2>3. CASE x.at = "flush"
    BY <1>17, <2>3 DEF FillOK
  <2>4. CASE x.at = "insert"
    <3>1. e # None /\ x.index = j /\ j = HASH[s] % m /\ x.cls = c
      BY <1>10, <1>14, <1>16, <2>1, <2>4
    <3>2. Reached(k, s, HASH[s] % Size(k))'
      BY <1>4, <2>1, <3>1, ReachedFirstNext
    <3>3. Size(k)' = m
      BY <1>3, <1>4, <1>7
    <3>4. Reached(k, s, j)' /\ Absent(k, s)' /\ cache'[c] = k
      BY <1>2, <1>3, <1>21, <2>4, <3>1, <3>2, <3>3 DEF Reached
    <3>5. QED
      BY <1>14, <1>17, <2>1, <2>4, <3>1, <3>4 DEF FillOK
  <2>5. QED
    BY <1>16, <2>2, <2>3, <2>4
<1>24. ExpectOK(t)'
    BY <1>1, <1>2, <1>7, <1>14, <1>16, <1>17 DEF ExpectOK, Emptying
<1>25. BlocksOK'
    BY <1>2, <1>4, <1>6, BlocksWritten DEF IInv
<1>26. TablesOK'
  <2>1. WorksAt(t, c) /\ WorksAt(t, c)'
    <3>1. WorksAt(t, c)
      BY <1>3 DEF WorksAt, At
    <3>2. x.at = "insert" => x.cls = c
      BY <1>1, <1>7, <1>14, <1>16 DEF Emptying
    <3>3. x.at = "clear" => x.block = cache'[c]
      BY <1>2, <1>3, <1>14
    <3>4. QED
      BY <1>17, <3>1, <3>2, <3>3 DEF WorksAt, At
  <2>2. \A d \in Classes \ {c} : /\ cache'[d] = cache[d]
                                 /\ cache[d] # None => /\ buckets'[cache[d]] = buckets[cache[d]]
                                                       /\ occupied'[cache[d]] = occupied[cache[d]]
                                                       /\ cache'[c] # cache[d]
    <3>1. \A d \in Classes \ {c} : cache[d] # None => cache[d] # k /\ cache[d] \in Caches
      BY <1>3 DEF IInv, BlocksOK, TypeOK
    <3>2. QED
      BY <1>2, <1>3, <1>4, <3>1
  <2>3. ASSUME ~ Clearing(c)'
        PROVE  TableOK(c, k)'
    <3>1. x.at # "clear"
      BY <1>2, <1>3, <1>14, <1>17, <2>3 DEF Clearing, At
    <3>2. Inserting(c)' <=> e # None
      <4>1. Inserting(c)' => x.at = "insert"
        BY <1>17, ClearFacts DEF Inserting, At, Holding
      <4>2. e # None => x.at = "insert" /\ x.cls = c
        BY <1>1, <1>7, <1>14, <1>16, <3>1 DEF Emptying
      <4>3. QED
        BY <1>16, <1>17, <4>1, <4>2 DEF Inserting, At
    <3>3. Cardinality({}) = 0
      BY FS_EmptySet
    <3>4. Orderly(k)' /\ Full(k)' = {}
      BY <1>21, <3>1
    <3>5. QED
      BY <1>22, <3>2, <3>3, <3>4 DEF TableOK
  <2>4. \A l \in Caches : cache'[c] = l /\ ~ Clearing(c)' => TableOK(c, l)'
    BY <1>2, <1>3, <2>3
  <2>5. QED
    BY <1>3, <1>17, <2>1, <2>2, <2>4, TablesHolder
<1>27. CurrencyOK'
  <2>1. CurrencyOK /\ version' = version /\ before' = before
    BY <1>2 DEF IInv
  <2>2. Changing(t) <=> e = None
    BY <1>3, <1>7 DEF Changing
  <2>3. Changing(t)' <=> e = None
    BY <1>14, <1>16, <1>17 DEF Changing
  <2>4. \A u \in Threads \ {t} : ~ Changing(u)
    BY ClearFacts DEF Changing, Holding
  <2>5. before' = version' \/ \E u \in Threads : Changing(u)'
    BY <2>1, <2>2, <2>3, <2>4 DEF CurrencyOK
  <2>6. ASSUME NEW d \in Classes
        PROVE  /\ Recent(d)' /\ (Current(d) => Current(d)')
               /\ Current(d)' \/ \E u \in Threads : ToFlush(u, d)'
    <3>1. PICK l : l = cache[d]
      OBVIOUS
    <3>2. cache'[d] = l /\ Recent(d) /\ (Current(d) \/ \E u \in Threads : ToFlush(u, d))
      BY <1>2, <2>1, <3>1 DEF CurrencyOK
    <3>3. l # None => \A f \in EntriesOf(l)' : f \in EntriesOf(l)
      <4>1. l # None => l \in Caches
        BY <3>1 DEF IInv, TypeOK
      <4>2. CASE l = k
        BY <1>5, <4>2
      <4>3. CASE l # None /\ l # k
        <5>1. EntriesOf(l)' = EntriesOf(l)
          BY <1>5, <4>1, <4>3
        <5>2. QED
          BY <5>1
      <4>4. QED
        BY <4>2, <4>3
    <3>4. EntriesOf(cache[d])' = EntriesOf(l)'
      BY <3>2 DEF EntriesOf
    <3>5. Recent(d)'
      BY <2>1, <3>1, <3>2, <3>3, <3>4 DEF Recent
    <3>6. Current(d) => Current(d)'
      BY <2>1, <3>1, <3>2, <3>3, <3>4 DEF Current
    <3>7. ASSUME ToFlush(t, d)
          PROVE  Current(d)' \/ ToFlush(t, d)'
      <4>1. e = None /\ (d \in call[t].todo \/ k = cache[d])
        BY <1>3, <2>2, <3>7 DEF ToFlush
      <4>2. CASE d \in call[t].todo
        BY <1>14, <1>17, <2>3, <4>1, <4>2 DEF ToFlush
      <4>3. CASE k = cache[d] /\ x.at = "clear"
        BY <1>2, <1>14, <1>17, <2>3, <4>1, <4>3 DEF ToFlush, At
      <4>4. CASE k = cache[d] /\ x.at # "clear"
        <5>1. EntriesOf(cache[d])' = {}
          BY <1>21, <3>1, <3>4, <4>4
        <5>2. QED
          BY <5>1 DEF Current
      <4>5. QED
        BY <4>1, <4>2, <4>3, <4>4
    <3>8. \A u \in Threads \ {t} : ~ ToFlush(u, d)
      BY <2>4 DEF ToFlush
    <3>9. QED
      BY <3>2, <3>5, <3>6, <3>7, <3>8
  <2>7. ASSUME NEW u \in Threads, (call[u].entry # None)'
        PROVE  (call[u].entry = Resolve(version, call[u].cls, call[u].entry.sel))'
    <3>1. call'[u].entry = call[u].entry /\ call'[u].cls = call[u].cls
      BY <1>7, <1>14, <1>17
    <3>2. QED
      BY <2>1, <2>7, <3>1 DEF CurrencyOK
  <2>8. QED
    BY <2>5, <2>6, <2>7 DEF CurrencyOK
<1>28. QED
    BY <1>17, <1>18, <1>19, <1>20, <1>23, <1>24, <1>25, <1>26, <1>27, HolderIInv

-----------------------------------------------------------------------------
(* Changes of method lists.                                                *)

LEMMA FlushIInv ==
    ASSUME IInv, NEW t \in Threads, Flush(t)
    PROVE  IInv'
<1>1. call[t] \in Call /\ CallOK(t) /\ ExpectOK(t) /\ call[t].at = "flush"
    BY DEF Flush, IInv, TypeOK, CallsOK, ExpectedOK, At
<1>2. PICK c \in call[t].todo :
        /\ call' = [call EXCEPT ![t].todo = @ \ {c},
                                ![t].at = IF cache[c] = None THEN "flush" ELSE "clear",
                                ![t].block = cache[c]]
        /\ occupied' = IF cache[c] = None THEN occupied
                       ELSE [occupied EXCEPT ![cache[c]] = 0]
    BY DEF Flush
<1>3. /\ version' = version /\ before' = before /\ lock' = lock /\ cache' = cache
      /\ grow' = grow /\ buckets' = buckets /\ garbage' = garbage
    BY DEF Flush
<1>4. c \in Classes /\ call[t].entry = None /\ call[t].block = None /\ call[t].index = 0
    BY <1>1, <1>2 DEF Call, CallOK
<1>5. lock = t /\ \A u \in Threads \ {t} : call[u].at \notin Holding
    BY <1>1, Others DEF IInv, LockOK, Holding
<1>6. PICK k : k = cache[c]
    OBVIOUS
<1>7. k # None => k \in Caches /\ BlockTyped(k) /\ Size(k) \in Nat \ {0}
    BY <1>4, <1>6, InstalledTyped DEF IInv
<1>8. k \in Caches \cup {None}
    BY <1>7
<1>9. PICK x : x = [call[t] EXCEPT !.todo = @ \ {c}, !.block = k,
                                   !.at = IF k = None THEN "flush" ELSE "clear"]
    OBVIOUS
<1>10. /\ x \in Call /\ x.cls = call[t].cls /\ x.sel = call[t].sel /\ x.entry = None
       /\ x.index = 0 /\ x.then = call[t].then /\ x.expected = call[t].expected
       /\ x.todo = call[t].todo \ {c} /\ x.block = k
       /\ x.at = IF k = None THEN "flush" ELSE "clear"
  <2>1. x \in Call /\ x.block = k /\ x.at = IF k = None THEN "flush" ELSE "clear"
    BY <1>1, <1>8, <1>9 DEF Call
  <2>2. /\ x.cls = call[t].cls /\ x.sel = call[t].sel /\ x.entry = call[t].entry
        /\ x.index = call[t].index /\ x.then = call[t].then /\ x.expected = call[t].expected
        /\ x.todo = call[t].todo \ {c}
    BY <1>1, <1>9 DEF Call
  <2>3. QED
    BY <1>4, <2>1, <2>2
<1>11. call' = [call EXCEPT ![t] = x]
    BY <1>2, <1>6, <1>9 DEF IInv, TypeOK
<1>12. Becomes(t, x)
    BY <1>10, <1>11 DEF Becomes
<1>13. x.at = "flush" \/ (x.at = "clear" /\ k # None)
    BY <1>10
<1>14. /\ Holds(t, x) /\ call'[t] = x
       /\ \A u \in Threads \ {t} : call'[u] = call[u]
  <2>1. call'[t] = x /\ \A u \in Threads \ {t} : call'[u] = call[u]
    BY <1>12, BecomesTyped DEF IInv
  <2>2. QED
    BY <1>3, <1>5, <1>10, <1>12, <1>13, <2>1 DEF Holds, lists, Holding
<1>15. /\ occupied' \in [Caches -> Nat] /\ (k # None => occupied'[k] = 0)
       /\ \A l \in Caches \ {k} : occupied'[l] = occupied[l]
  <2>1. occupied \in [Caches -> Nat]
    BY DEF IInv, TypeOK
  <2>2. CASE k = None
    BY <1>2, <1>6, <2>1, <2>2
  <2>3. CASE k # None
    BY <1>2, <1>6, <1>7, <2>1, <2>3
  <2>4. QED
    BY <2>2, <2>3
<1>16. KeepsBlocks
  <2>1. cache' \in [Classes -> Caches \cup {None}] /\ grow' \in [Classes -> BOOLEAN]
        /\ buckets' \in [Caches -> Seq(Entry \cup {None})] /\ garbage' \subseteq Caches
    BY <1>3 DEF IInv, TypeOK
  <2>2. \A l \in InUse : Size(l)' = Size(l)
    BY <1>3 DEF Size
  <2>3. QED
    BY <1>3, <1>15, <2>1, <2>2 DEF KeepsBlocks
<1>17. KeepsEntries
    BY <1>3 DEF KeepsEntries, EntriesOf
<1>18. CallOK(t)'
  <2>1. CASE x.at = "flush"
    BY <1>1, <1>10, <1>13, <1>14, <2>1 DEF CallOK
  <2>2. CASE x.at = "clear"
    <3>1. k # None /\ cache'[c] = k /\ 0 < Len(buckets'[k])
      BY <1>3, <1>6, <1>7, <1>13, <2>2 DEF Size
    <3>2. QED
      BY <1>1, <1>4, <1>10, <1>14, <2>2, <3>1 DEF CallOK, Size
  <2>3. QED
    BY <1>13, <2>1, <2>2
<1>19. FillOK(t)'
  <2>1. \A i \in 0..0 - 1 : FALSE
    OBVIOUS
  <2>2. QED
    BY <1>10, <1>13, <1>14, <1>15, <2>1 DEF FillOK
<1>20. ExpectOK(t)'
    BY <1>1, <1>3, <1>10, <1>13, <1>14 DEF ExpectOK
<1>21. BlocksOK'
  <2>1. CASE k = None
    <3>1. UNCHANGED caches
      BY <1>2, <1>3, <1>6, <2>1 DEF caches
    <3>2. QED
      BY <3>1, BlocksSame DEF IInv
  <2>2. CASE k # None
    <3>1. HasEmpty(k)
      BY <1>7, <2>2 DEF IInv, BlocksOK
    <3>2. HasEmpty(k)'
      BY <1>3, <3>1 DEF HasEmpty
    <3>3. Size(k)' = Size(k) /\ 4 * 0 <= 3 * Size(k)
      BY <1>3, <1>7, <2>2 DEF Size
    <3>4. (4 * occupied[k] <= 3 * Size(k))'
      BY <1>15, <2>2, <3>3
    <3>5. \A l \in Caches : Size(l)' = Size(l)
      BY <1>3 DEF Size
    <3>6. QED
      BY <1>3, <1>15, <3>2, <3>4, <3>5, BlocksWritten DEF IInv
  <2>3. QED
    BY <2>1, <2>2
<1>22. TablesOK'
  <2>1. WorksAt(t, c) /\ WorksAt(t, c)'
    <3>1. x.at = "clear" => x.block = cache'[c]
      BY <1>3, <1>6, <1>10
    <3>2. QED
      BY <1>1, <1>13, <1>14, <3>1 DEF WorksAt, At
  <2>2. \A d \in Classes \ {c} : /\ cache'[d] = cache[d]
                                 /\ cache[d] # None => /\ buckets'[cache[d]] = buckets[cache[d]]
                                                       /\ occupied'[cache[d]] = occupied[cache[d]]
                                                       /\ cache'[c] # cache[d]
    <3>1. \A d \in Classes \ {c} : cache[d] # None => cache[d] # k /\ cache[d] \in Caches
      BY <1>4, <1>6 DEF IInv, BlocksOK, TypeOK
    <3>2. QED
      BY <1>3, <1>6, <1>15, <3>1
  <2>3. k # None => Clearing(c)'
    BY <1>3, <1>6, <1>10, <1>14 DEF Clearing, At
  <2>4. \A l \in Caches : cache'[c] = l /\ ~ Clearing(c)' => TableOK(c, l)'
    BY <1>3, <1>6, <2>3, MethodCacheAssumption DEF MethodCacheAssumption
  <2>5. QED
    BY <1>4, <1>5, <1>14, <2>1, <2>2, <2>4, TablesHolder
<1>23. CurrencyOK'
  <2>1. CurrencyOK /\ version' = version /\ before' = before
    BY <1>3 DEF IInv
  <2>2. Changing(t) /\ Changing(t)'
    BY <1>1, <1>4, <1>10, <1>13, <1>14 DEF Changing
  <2>3. \A d \in Classes : (Recent(d)' <=> Recent(d)) /\ (Current(d)' <=> Current(d))
    BY <1>3 DEF Recent, Current, EntriesOf
  <2>4. ASSUME NEW d \in Classes
        PROVE  Current(d)' \/ \E u \in Threads : ToFlush(u, d)'
    <3>1. CASE Current(d)
      BY <2>3, <3>1
    <3>2. CASE ~ Current(d)
      <4>1. ToFlush(t, d)
        <5>1. \A u \in Threads \ {t} : ~ ToFlush(u, d)
          BY <1>5 DEF ToFlush, Changing, Holding
        <5>2. QED
          BY <2>1, <3>2, <5>1 DEF CurrencyOK
      <4>2. d \in call[t].todo /\ cache[d] # None
        BY <1>1, <3>2, <4>1 DEF ToFlush, At, Current
      <4>3. CASE d = c
        BY <1>3, <1>6, <1>10, <1>14, <2>2, <4>2, <4>3 DEF ToFlush, At
      <4>4. CASE d # c
        BY <1>10, <1>14, <2>2, <4>2, <4>4 DEF ToFlush
      <4>5. QED
        BY <4>3, <4>4
    <3>3. QED
      BY <3>1, <3>2
  <2>5. ASSUME NEW u \in Threads, (call[u].entry # None)'
        PROVE  (call[u].entry = Resolve(version, call[u].cls, call[u].entry.sel))'
    <3>1. call'[u] = call[u]
      BY <1>10, <1>14, <2>5
    <3>2. QED
      BY <2>1, <2>5, <3>1 DEF CurrencyOK
  <2>6. QED
    BY <2>1, <2>2, <2>3, <2>4, <2>5 DEF CurrencyOK
<1>24. QED
    BY <1>14, <1>16, <1>17, <1>18, <1>19, <1>20, <1>21, <1>22, <1>23, HolderIInv

LEMMA EndChangeIInv ==
    ASSUME IInv, NEW t \in Threads, EndChange(t)
    PROVE  IInv'
<1>1. call[t] \in Call /\ CallOK(t) /\ ExpectOK(t) /\ call[t].at = "flush" /\ call[t].todo = {}
    BY DEF EndChange, IInv, TypeOK, CallsOK, ExpectedOK, At
<1>2. /\ version' = version /\ before' = version /\ lock' = None /\ cache' = cache
      /\ buckets' = buckets /\ garbage' = garbage /\ UNCHANGED caches
    BY DEF EndChange, caches
<1>3. lock = t /\ \A u \in Threads \ {t} : call[u].at \notin Holding
    BY <1>1, Others DEF IInv, LockOK, Holding
<1>4. PICK x : x = IF call[t].then = "idle" THEN Idle
                   ELSE [call[t] EXCEPT !.at = "miss", !.then = "idle"]
    OBVIOUS
<1>5. call' = [call EXCEPT ![t] = x]
    BY <1>4 DEF EndChange
<1>6. /\ x \in Call /\ x.at \in {"idle", "miss"} /\ x.entry = None /\ x.block = None
      /\ x.index = 0 /\ x.todo = {} /\ x.then = "idle"
      /\ x.at = "idle" => x = Idle
      /\ x.cls = None <=> x.at = "idle"
      /\ x.cls = None <=> x.sel = None
      /\ x.cls # None => x.cls \in Classes /\ x.sel \in Sels
      /\ x.cls # None => x.cls = call[t].cls /\ x.sel = call[t].sel /\ x.expected = call[t].expected
  <2>1. CASE call[t].then = "idle"
    <3>1. x = Idle
      BY <1>4, <2>1
    <3>2. QED
      BY <3>1 DEF Idle, Call
  <2>2. CASE call[t].then # "idle"
    <3>1. /\ x \in Call /\ x.at = "miss" /\ x.then = "idle"
          /\ x.cls = call[t].cls /\ x.sel = call[t].sel /\ x.expected = call[t].expected
          /\ x.entry = call[t].entry /\ x.block = call[t].block /\ x.index = call[t].index
          /\ x.todo = call[t].todo
      BY <1>1, <1>4, <2>2 DEF Call
    <3>2. call[t].cls # None /\ call[t].entry = None /\ call[t].block = None /\ call[t].index = 0
      BY <1>1, <2>2 DEF CallOK
    <3>3. call[t].cls \in Classes /\ call[t].sel \in Sels /\ call[t].sel # None
      BY <1>1, <3>2 DEF Call, CallOK
    <3>4. QED
      BY <1>1, <3>1, <3>2, <3>3
  <2>3. QED
    BY <2>1, <2>2
<1>7. /\ call' \in [Threads -> Call] /\ call'[t] = x
      /\ \A u \in Threads \ {t} : call'[u] = call[u]
    BY <1>5, <1>6, BecomesTyped DEF Becomes, IInv
<1>8. TypeOK'
  <2>1. \A u \in Threads \ {t} :
            /\ call'[u].at \in {"probe", "clear"} => call'[u].block # None
            /\ call'[u].at \in {"fill", "insert"} => call'[u].entry # None
            /\ call'[u].at \in {"fill", "insert", "unlock", "dispatch"} => call'[u].result # None
    BY <1>7 DEF IInv, TypeOK
  <2>2. x.at \notin {"probe", "clear", "fill", "insert", "unlock", "dispatch"}
    BY <1>6
  <2>3. QED
    BY <1>2, <1>7, <2>1, <2>2 DEF IInv, TypeOK, caches
<1>9. LockOK'
  <2>1. lock = t /\ lock' = None /\ call'[t].at \notin Holding
    BY <1>2, <1>3, <1>6, <1>7 DEF Holding
  <2>2. \A u \in Threads \ {t} : call'[u].at = call[u].at
    BY <1>7
  <2>3. QED
    BY <2>1, <2>2, LockStep DEF IInv
<1>10. CallsOK'
  <2>1. CallOK(t)'
    BY <1>6, <1>7 DEF CallOK
  <2>2. \A k \in Caches : Size(k)' = Size(k)
    BY <1>2 DEF Size
  <2>3. QED
    BY <1>2, <1>7, <2>1, <2>2, CallsStep DEF IInv
<1>11. BlocksOK'
    BY <1>2, BlocksSame DEF IInv
<1>12. TablesOK'
  <2>1. \A u \in Threads : /\ At(u, "clear")' <=> At(u, "clear")
                           /\ At(u, "clear") => call'[u].block = call[u].block
                           /\ At(u, "insert")' <=> At(u, "insert")
                           /\ At(u, "insert") => call'[u].cls = call[u].cls
    BY <1>1, <1>6, <1>7 DEF At
  <2>2. QED
    BY <1>2, <2>1, TablesSame DEF IInv
<1>13. FillsOK'
  <2>1. FillOK(t)'
    BY <1>6, <1>7 DEF FillOK
  <2>2. QED
    BY <1>2, <1>7, <2>1, FillsStep DEF IInv
<1>14. CurrencyOK'
  <2>1. \A d \in Classes : Current(d)
    <3>1. \A u \in Threads, d \in Classes : ~ ToFlush(u, d)
      BY <1>1, <1>3 DEF ToFlush, Changing, Holding, At
    <3>2. QED
      BY <3>1 DEF IInv, CurrencyOK
  <2>2. \A d \in Classes : Current(d)'
    BY <1>2, <2>1 DEF Current, EntriesOf
  <2>3. \A d \in Classes : Recent(d)'
    BY <2>2 DEF Current, Recent
  <2>4. \A u \in Threads \ {t} : call[u].entry = None
    BY <1>3 DEF IInv, CallsOK, CallOK, Holding
  <2>5. \A u \in Threads : call'[u].entry = None
    BY <1>6, <1>7, <2>4
  <2>6. QED
    BY <1>2, <2>2, <2>3, <2>5 DEF CurrencyOK
<1>15. ExpectedOK'
  <2> SUFFICES ASSUME NEW u \in Threads
               PROVE  ExpectOK(u)'
    BY DEF ExpectedOK
  <2>1. ExpectOK(u)
    BY DEF IInv, ExpectedOK
  <2>2. \A k : EntriesOf(k)' = EntriesOf(k)
    BY <1>2 DEF EntriesOf
  <2>3. CASE u = t
    BY <1>2, <1>6, <1>7, <2>1, <2>3 DEF ExpectOK
  <2>4. CASE u # t
    <3>1. call'[u] = call[u]
      BY <1>7, <2>4
    <3>2. QED
      BY <1>2, <2>1, <2>2, <3>1 DEF ExpectOK
  <2>5. QED
    BY <2>3, <2>4
<1>16. QED
    BY <1>8, <1>9, <1>10, <1>11, <1>12, <1>13, <1>14, <1>15 DEF IInv

LEMMA ChangeIInv ==
    ASSUME IInv, NEW t \in Threads, NEW c \in Classes, NEW s \in Sels, NEW then \in {"idle", "miss"},
           (At(t, "idle") /\ then = "idle") \/ (At(t, "resolve") /\ then = "miss"),
           Change(t, c, s, then)
    PROVE  IInv'
<1>1. PICK v : v = [version EXCEPT ![c][s] = @ + 1]
    OBVIOUS
<1>2. PICK new : new = [u \in Threads |->
           IF u = t
           THEN [call[t] EXCEPT !.at = "flush", !.todo = Subclasses(c), !.then = then,
                     !.expected = IF then = "idle" THEN {}
                                  ELSE @ \cup {Resolve(v, call[t].cls, call[t].sel)}]
           ELSE IF At(u, "idle") \/ call[u].sel = None THEN call[u]
           ELSE [call[u] EXCEPT !.expected = @ \cup {Resolve(v, call[u].cls, call[u].sel)}]]
    OBVIOUS
<1>3. /\ lock = None /\ version[c][s] < MaxVersion /\ lock' = t /\ version' = v /\ call' = new
      /\ before' = before /\ cache' = cache /\ buckets' = buckets /\ garbage' = garbage
      /\ UNCHANGED caches
    BY <1>1, <1>2 DEF Change, caches
<1>4. /\ before = version /\ AllCurrent
      /\ \A u \in Threads : call[u].at \notin Holding
      /\ \A d \in Classes : ~ Clearing(d) /\ ~ Inserting(d)
    BY <1>3, WhenFree
<1>5. v \in Versions /\ version \in Versions /\ \A d \in Classes \ {c} : v[d] = version[d]
  <2>1. version \in [Classes -> [Sels -> 0..MaxVersion]] /\ MaxVersion \in Nat
    BY MethodCacheAssumption DEF IInv, TypeOK, MethodCacheAssumption
  <2>2. version[c] \in [Sels -> 0..MaxVersion] /\ version[c][s] \in 0..MaxVersion
    BY <2>1
  <2>3. version[c][s] + 1 \in 0..MaxVersion
    BY <1>3, <2>1, <2>2
  <2>4. [version[c] EXCEPT ![s] = version[c][s] + 1] \in [Sels -> 0..MaxVersion]
    BY <2>2, <2>3
  <2>5. v = [version EXCEPT ![c] = [version[c] EXCEPT ![s] = version[c][s] + 1]]
    BY <1>1, <2>1
  <2>6. QED
    BY <2>1, <2>4, <2>5 DEF Versions
<1>6. ASSUME NEW u \in Threads
      PROVE  /\ call[u] \in Call /\ CallOK(u) /\ ExpectOK(u) /\ call[u].entry = None
             /\ call[u].at \in {"idle", "probe", "miss", "resolve", "dispatch"}
             /\ call[u].cls # None => /\ call[u].cls \in Classes /\ call[u].sel \in Sels
                                      /\ call[u].sel # None
                                      /\ Resolve(v, call[u].cls, call[u].sel) \in Entry
  <2>1. call[u] \in Call /\ CallOK(u) /\ ExpectOK(u) /\ call[u].at \notin Holding
    BY <1>4 DEF IInv, TypeOK, CallsOK, ExpectedOK
  <2>2. call[u].at \in {"idle", "probe", "miss", "resolve", "dispatch"}
    BY <2>1 DEF Call, Holding
  <2>3. call[u].entry = None
    BY <2>1 DEF CallOK, Holding
  <2>4. call[u].cls # None => call[u].cls \in Classes /\ call[u].sel \in Sels /\ call[u].sel # None
    BY <2>1 DEF Call, CallOK
  <2>5. QED
    BY <1>5, <2>1, <2>2, <2>3, <2>4, ResolveRecurs
<1>7. ASSUME NEW u \in Threads \ {t}
      PROVE  /\ new[u] \in Call /\ new[u].at = call[u].at /\ new[u].cls = call[u].cls
             /\ new[u].sel = call[u].sel /\ new[u].block = call[u].block
             /\ new[u].index = call[u].index /\ new[u].entry = call[u].entry
             /\ new[u].result = call[u].result /\ new[u].todo = call[u].todo
             /\ new[u].then = call[u].then
             /\ call[u].at = "idle" => new[u] = call[u]
             /\ call[u].expected \subseteq new[u].expected
             /\ call[u].cls # None => Resolve(v, call[u].cls, call[u].sel) \in new[u].expected
  <2>1. call[u] \in Call /\ CallOK(u)
    BY <1>6
  <2>2. CASE call[u].at = "idle" \/ call[u].sel = None
    <3>1. new[u] = call[u]
      BY <1>2, <2>2 DEF At
    <3>2. call[u].cls = None
      BY <2>1, <2>2 DEF CallOK
    <3>3. QED
      BY <2>1, <3>1, <3>2
  <2>3. CASE ~ (call[u].at = "idle" \/ call[u].sel = None)
    <3>1. PICK r : r = Resolve(v, call[u].cls, call[u].sel)
      OBVIOUS
    <3>2. new[u] = [call[u] EXCEPT !.expected = call[u].expected \cup {r}]
      BY <1>2, <2>3, <3>1 DEF At
    <3>3. call[u].cls # None /\ r \in Entry
      BY <1>6, <2>1, <2>3, <3>1 DEF CallOK
    <3>4. QED
      BY <2>1, <2>3, <3>1, <3>2, <3>3 DEF Call
  <2>4. QED
    BY <2>2, <2>3
<1>8. /\ new[t] \in Call /\ new[t].at = "flush" /\ new[t].todo = Subclasses(c) /\ new[t].then = then
      /\ new[t].cls = call[t].cls /\ new[t].sel = call[t].sel /\ new[t].block = None
      /\ new[t].index = 0 /\ new[t].entry = None
      /\ then = "idle" => call[t].cls = None /\ call[t].sel = None
      /\ then = "miss" => /\ call[t].cls \in Classes /\ call[t].cls # None /\ call[t].sel # None
                          /\ call[t].expected \subseteq new[t].expected
                          /\ Resolve(v, call[t].cls, call[t].sel) \in new[t].expected
  <2>1. call[t] \in Call /\ CallOK(t) /\ Subclasses(c) \subseteq Classes
    BY <1>6 DEF Subclasses
  <2>2. CASE then = "idle"
    <3>1. call[t] = Idle
      BY <2>1, <2>2 DEF CallOK, At
    <3>2. new[t] = [call[t] EXCEPT !.at = "flush", !.todo = Subclasses(c), !.then = then,
                                   !.expected = {}]
      BY <1>2, <2>2
    <3>3. /\ call[t].cls = None /\ call[t].sel = None /\ call[t].block = None
          /\ call[t].index = 0 /\ call[t].entry = None
      BY <3>1 DEF Idle
    <3>4. /\ new[t].at = "flush" /\ new[t].todo = Subclasses(c) /\ new[t].then = then
          /\ new[t].cls = call[t].cls /\ new[t].sel = call[t].sel
          /\ new[t].block = call[t].block /\ new[t].index = call[t].index
          /\ new[t].entry = call[t].entry
      BY <2>1, <3>2 DEF Call
    <3>5. new[t] \in Call
      <4>1. PICK below : below = Subclasses(c)
        OBVIOUS
      <4>2. below \in SUBSET Classes
        BY <2>1, <4>1
      <4>3. new[t] = [call[t] EXCEPT !.at = "flush", !.todo = below, !.then = "idle",
                                     !.expected = {}]
        BY <2>2, <3>2, <4>1
      <4>4. QED
        BY <2>1, <4>2, <4>3 DEF Call
    <3>6. QED
      BY <2>2, <3>3, <3>4, <3>5
  <2>3. CASE then = "miss"
    <3>1. PICK r : r = Resolve(v, call[t].cls, call[t].sel)
      OBVIOUS
    <3>2. new[t] = [call[t] EXCEPT !.at = "flush", !.todo = Subclasses(c), !.then = then,
                                   !.expected = call[t].expected \cup {r}]
      BY <1>2, <2>3, <3>1
    <3>3. /\ call[t].cls \in Classes /\ call[t].cls # None /\ call[t].sel # None /\ r \in Entry
          /\ call[t].block = None /\ call[t].index = 0 /\ call[t].entry = None
      <4>1. call[t].at = "resolve"
        BY <2>3 DEF At
      <4>2. call[t].cls # None /\ call[t].block = None /\ call[t].index = 0
        BY <2>1, <4>1 DEF CallOK
      <4>3. QED
        BY <1>6, <3>1, <4>2
    <3>4. /\ new[t].at = "flush" /\ new[t].todo = Subclasses(c) /\ new[t].then = then
          /\ new[t].cls = call[t].cls /\ new[t].sel = call[t].sel
          /\ new[t].block = call[t].block /\ new[t].index = call[t].index
          /\ new[t].entry = call[t].entry /\ new[t].expected = call[t].expected \cup {r}
      BY <2>1, <3>2 DEF Call
    <3>5. new[t] \in Call
      <4>1. PICK below, e : below = Subclasses(c) /\ e = call[t].expected \cup {r}
        OBVIOUS
      <4>2. below \in SUBSET Classes /\ e \in SUBSET Entry
        BY <2>1, <3>3, <4>1 DEF Call
      <4>3. new[t] = [call[t] EXCEPT !.at = "flush", !.todo = below, !.then = "miss",
                                     !.expected = e]
        BY <2>3, <3>2, <4>1
      <4>4. QED
        BY <2>1, <4>2, <4>3 DEF Call
    <3>6. QED
      BY <2>3, <3>1, <3>3, <3>4, <3>5
  <2>4. QED
    BY <2>2, <2>3
<1>9. TypeOK'
  <2>1. call' \in [Threads -> Call]
    <3>1. \A u \in Threads : new[u] \in Call
      BY <1>7, <1>8
    <3>2. QED
      BY <1>2, <1>3, <3>1
  <2>2. \A u \in Threads :
            /\ call'[u].at \in {"probe", "clear"} => call'[u].block # None
            /\ call'[u].at \in {"fill", "insert"} => call'[u].entry # None
            /\ call'[u].at \in {"fill", "insert", "unlock", "dispatch"} => call'[u].result # None
    BY <1>3, <1>7, <1>8 DEF IInv, TypeOK
  <2>3. QED
    BY <1>3, <1>5, <2>1, <2>2 DEF IInv, TypeOK, caches, Versions
<1>10. LockOK'
  <2>1. \A u \in Threads \ {t} : call'[u].at = call[u].at
    BY <1>3, <1>7
  <2>2. call'[t].at \in Holding /\ lock \in Threads \cup {None}
    BY <1>3, <1>8 DEF Holding, IInv, TypeOK
  <2>3. QED
    BY <1>3, <2>1, <2>2, LockStep DEF IInv
<1>11. CallsOK'
  <2> SUFFICES ASSUME NEW u \in Threads
               PROVE  CallOK(u)'
    BY DEF CallsOK
  <2>1. CASE u = t
    BY <1>3, <1>8, <2>1 DEF CallOK
  <2>2. CASE u # t
    <3>1. PICK d, e : d = call[u] /\ e = new[u]
      OBVIOUS
    <3>2. /\ e.at = d.at /\ e.cls = d.cls /\ e.sel = d.sel /\ e.block = d.block
          /\ e.index = d.index /\ e.entry = d.entry /\ e.todo = d.todo /\ e.then = d.then
          /\ d.at = "idle" => e = d
      BY <1>7, <2>2, <3>1
    <3>3. /\ CallOK(u) /\ d.entry = None
          /\ d.at \in {"idle", "probe", "miss", "resolve", "dispatch"}
      BY <1>6, <3>1
    <3>4. Size(d.block)' = Size(d.block) /\ call'[u] = e
      BY <1>3, <3>1 DEF Size
    <3>5. QED
      BY <3>1, <3>2, <3>3, <3>4 DEF CallOK
  <2>3. QED
    BY <2>1, <2>2
<1>12. BlocksOK'
    BY <1>3, BlocksSame DEF IInv
<1>13. TablesOK'
  <2>1. \A u \in Threads : /\ At(u, "clear")' <=> At(u, "clear")
                           /\ At(u, "clear") => call'[u].block = call[u].block
                           /\ At(u, "insert")' <=> At(u, "insert")
                           /\ At(u, "insert") => call'[u].cls = call[u].cls
    BY <1>3, <1>6, <1>7, <1>8 DEF At
  <2>2. QED
    BY <1>3, <2>1, TablesSame DEF IInv
<1>14. FillsOK'
  <2>1. \A u \in Threads : call'[u].at \notin {"fill", "clear", "insert"}
    BY <1>3, <1>6, <1>7, <1>8
  <2>2. QED
    BY <2>1 DEF FillsOK, FillOK
<1>15. CurrencyOK'
  <2>1. Changing(t)'
    BY <1>3, <1>8 DEF Changing
  <2>2. ASSUME NEW d \in Classes
        PROVE  Recent(d)' /\ (Current(d)' \/ ToFlush(t, d)')
    <3>1. Current(d) /\ cache'[d] = cache[d] /\ EntriesOf(cache[d])' = EntriesOf(cache[d])
      BY <1>3, <1>4 DEF AllCurrent, EntriesOf
    <3>2. Recent(d)'
      BY <1>3, <1>4, <3>1 DEF Recent, Current
    <3>3. CASE d \in Subclasses(c)
      BY <1>3, <1>8, <2>1, <3>2, <3>3 DEF ToFlush
    <3>4. CASE d \notin Subclasses(c)
      <4>1. ASSUME cache[d] # None, NEW e \in EntriesOf(cache[d])
            PROVE  e = Resolve(v, d, e.sel)
        <5>1. e = Resolve(version, d, e.sel)
          BY <3>1, <4>1 DEF Current
        <5>2. e \in Entry
          <6>1. cache[d] \in Caches
            BY <4>1 DEF IInv, TypeOK
          <6>2. QED
            BY <4>1, <6>1, SizeIsLength DEF EntriesOf, IInv
        <5>3. e.sel \in Sels
          BY <5>2 DEF Entry
        <5>4. Resolve(v, d, e.sel) = Resolve(version, d, e.sel)
          BY <1>5, <3>4, <5>3, OthersMeanTheSame
        <5>5. QED
          BY <5>1, <5>4
      <4>2. Current(d)'
        BY <1>3, <3>1, <4>1 DEF Current
      <4>3. QED
        BY <3>2, <4>2
    <3>5. QED
      BY <3>3, <3>4
  <2>3. \A u \in Threads : call'[u].entry = None
    BY <1>3, <1>6, <1>7, <1>8
  <2>4. QED
    BY <2>1, <2>2, <2>3 DEF CurrencyOK
<1>16. ExpectedOK'
  <2> SUFFICES ASSUME NEW u \in Threads
               PROVE  ExpectOK(u)'
    BY DEF ExpectedOK
  <2>1. CASE u = t
    <3>1. ExpectOK(t)
      BY <1>6
    <3>2. CASE then = "idle"
      BY <1>3, <1>8, <2>1, <3>2 DEF ExpectOK
    <3>3. CASE then = "miss"
      BY <1>3, <1>8, <2>1, <3>1, <3>3 DEF ExpectOK
    <3>4. QED
      BY <3>2, <3>3
  <2>2. CASE u # t
    <3>1. PICK d, e : d = call[u] /\ e = new[u]
      OBVIOUS
    <3>2. /\ e.at = d.at /\ e.cls = d.cls /\ e.sel = d.sel /\ e.block = d.block
          /\ e.entry = d.entry /\ e.result = d.result /\ d.expected \subseteq e.expected
          /\ d.cls # None => Resolve(v, d.cls, d.sel) \in e.expected
      BY <1>7, <2>2, <3>1
    <3>3. ExpectOK(u) /\ call'[u] = e /\ \A k : EntriesOf(k)' = EntriesOf(k)
      BY <1>3, <1>6, <3>1 DEF EntriesOf
    <3>4. QED
      BY <1>3, <3>1, <3>2, <3>3 DEF ExpectOK
  <2>3. QED
    BY <2>1, <2>2
<1>17. QED
    BY <1>9, <1>10, <1>11, <1>12, <1>13, <1>14, <1>15, <1>16 DEF IInv

LEMMA NextIInv == IInv /\ [Next]_vars => IInv'
<1> SUFFICES ASSUME IInv, [Next]_vars
             PROVE  IInv'
    OBVIOUS
<1>1. ASSUME NEW t \in Threads, NEW c \in Classes, NEW s \in Sels, Send(t, c, s)
      PROVE  IInv'
    BY <1>1, SendIInv
<1>2. ASSUME NEW t \in Threads, NEW c \in Classes, NEW s \in Sels, NewMethod(t, c, s)
      PROVE  IInv'
  <2>1. PICK then \in {"idle", "miss"} : then = "idle"
    OBVIOUS
  <2>2. (At(t, "idle") /\ then = "idle") \/ (At(t, "resolve") /\ then = "miss")
    BY <1>2, <2>1 DEF NewMethod
  <2>3. Change(t, c, s, then)
    BY <1>2, <2>1 DEF NewMethod
  <2>4. QED
    BY <2>2, <2>3, ChangeIInv
<1>3. ASSUME NEW t \in Threads, ResolveMethod(t)
      PROVE  IInv'
  <2>1. call[t].at = "resolve" /\ call[t] \in Call /\ CallOK(t)
    BY <1>3 DEF ResolveMethod, At, IInv, TypeOK, CallsOK
  <2>2. call[t].cls \in Classes /\ call[t].sel \in Sels
    BY <2>1, MethodCacheAssumption DEF CallOK, Call, MethodCacheAssumption
  <2>3. QED
    BY <1>3, <2>2, ChangeIInv DEF ResolveMethod
<1>4. ASSUME NEW t \in Threads, Probe(t) \/ Dispatch(t) \/ Search(t) \/ NotResolved(t)
      PROVE  IInv'
    BY <1>4, ProbeIInv, DispatchIInv, SearchIInv, NotResolvedIInv
<1>5. ASSUME NEW t \in Threads, Fill(t) \/ Insert(t) \/ Unlock(t) \/ Flush(t) \/ EndChange(t) \/ Clear(t)
      PROVE  IInv'
    BY <1>5, FillIInv, InsertIInv, UnlockIInv, FlushIInv, EndChangeIInv, ClearIInv
<1>6. CASE UNCHANGED vars
  <2>1. /\ version' = version /\ before' = before /\ lock' = lock /\ cache' = cache
        /\ grow' = grow /\ buckets' = buckets /\ occupied' = occupied /\ garbage' = garbage
        /\ call' = call
    BY <1>6 DEF vars
  <2>2. TypeOK' /\ LockOK' /\ CallsOK'
    BY <2>1 DEF IInv, TypeOK, LockOK, CallsOK, CallOK, Size
  <2>3. BlocksOK' /\ TablesOK'
    <3>1. UNCHANGED caches
      BY <2>1 DEF caches
    <3>2. \A u \in Threads : /\ At(u, "clear")' <=> At(u, "clear")
                             /\ At(u, "clear") => call'[u].block = call[u].block
                             /\ At(u, "insert")' <=> At(u, "insert")
                             /\ At(u, "insert") => call'[u].cls = call[u].cls
      BY <2>1 DEF At
    <3>3. QED
      BY <3>1, <3>2, BlocksSame, TablesSame DEF IInv
  <2>4. FillsOK'
    BY <2>1 DEF IInv, FillsOK, FillOK, Absent, Reached, Bucket, Size
  <2>5. CurrencyOK' /\ ExpectedOK'
    BY <2>1 DEF IInv, CurrencyOK, Recent, Current, Changing, ToFlush, At, EntriesOf,
                ExpectedOK, ExpectOK
  <2>6. QED
    BY <2>2, <2>3, <2>4, <2>5 DEF IInv
<1>7. QED
    BY <1>1, <1>2, <1>3, <1>4, <1>5, <1>6 DEF Next, Client, Runtime

-----------------------------------------------------------------------------
(* Theorems.                                                               *)

\* The inductive invariant holds in every reachable state.
THEOREM InvariantHolds == Spec => []IInv
<1>1. Init => IInv
    BY InitIInv
<1>2. IInv /\ [Next]_vars => IInv'
    BY NextIInv
<1>3. QED
    BY <1>1, <1>2, PTL DEF Spec

\* The state of the caches, of the lock and of every call has its type.
THEOREM TypeCorrect == Spec => []TypeOK
<1>1. IInv => TypeOK
    BY DEF IInv
<1>2. QED
    BY <1>1, InvariantHolds, PTL

\* The messenger reads no cache that was freed (objc-cache.m, _cache_collect).
THEOREM ReadsNoFreedCacheCorrect == Spec => []ReadsNoFreedCache
<1>1. IInv => ReadsNoFreedCache
  <2> SUFFICES ASSUME IInv, NEW t \in Threads, At(t, "probe")
               PROVE  call[t].block \in garbage \cup {cache[c] : c \in Classes}
    BY DEF ReadsNoFreedCache
  <2>1. CallOK(t) /\ ExpectOK(t) /\ call[t].at = "probe"
    BY DEF IInv, CallsOK, ExpectedOK, At
  <2>2. call[t].cls \in Classes
    BY <2>1 DEF CallOK
  <2>3. QED
    BY <2>1, <2>2 DEF ExpectOK
<1>2. QED
    BY <1>1, InvariantHolds, PTL

\* A message is dispatched to what it meant at some moment since it was sent.
THEOREM DispatchesCurrentCorrect == Spec => []DispatchesCurrent
<1>1. IInv => DispatchesCurrent
    BY DEF IInv, ExpectedOK, ExpectOK, DispatchesCurrent, At
<1>2. QED
    BY <1>1, InvariantHolds, PTL

\* Outside changes of method lists no cache has an entry from before one.
THEOREM CachesAreCurrentCorrect == Spec => []CachesAreCurrent
<1>1. IInv => CachesAreCurrent
    BY WhenFree, CurrentLookup DEF IInv, AllCurrent, CachesAreCurrent
<1>2. QED
    BY <1>1, InvariantHolds, PTL

\* Every cache has an empty bucket at all times, so that every probe ends, and
\* between two fills its counter is right and every entry is found.
THEOREM CachesAreSoundCorrect == Spec => []CachesAreSound
<1>1. IInv => CachesAreSound
  <2> SUFFICES ASSUME IInv
               PROVE  CachesAreSound
    OBVIOUS
  <2>1. ASSUME NEW k \in Caches, buckets[k] # <<>>
        PROVE  \E i \in DOMAIN buckets[k] : buckets[k][i] = None
    <3>1. buckets[k] \in Seq(Entry \cup {None})
      BY SizeIsLength DEF IInv
    <3>2. Size(k) \in Nat /\ Size(k) > 0
      BY <2>1, <3>1 DEF Size
    <3>3. QED
      BY <3>2 DEF IInv, BlocksOK, HasEmpty
  <2>2. ASSUME lock = None, NEW c \in Classes, NEW k, k = cache[c], k # None,
               NEW full, full = {i \in DOMAIN buckets[k] : buckets[k][i] # None}
        PROVE  /\ occupied[k] = Cardinality(full)
               /\ \A i \in full : CacheLookup(c, buckets[k][i].sel) = buckets[k][i]
               /\ \A i, j \in full : buckets[k][i].sel = buckets[k][j].sel => i = j
    <3>1. ~ Clearing(c) /\ ~ Inserting(c)
      BY <2>2, WhenFree
    <3>2. /\ k \in Caches /\ BlockTyped(k) /\ Size(k) \in Nat \ {0}
          /\ DOMAIN buckets[k] = 1..Size(k)
      BY <2>2, InstalledTyped, SizeIsLength DEF IInv
    <3>3. TableOK(c, k)
      BY <2>2, <3>1, <3>2 DEF IInv, TablesOK
    <3>4. full = Full(k)
      BY <2>2 DEF Full
    <3>5. Cardinality(full) \in Nat
      BY <3>2, <3>4, FullIsFinite
    <3>6. occupied[k] = Cardinality(full)
      BY <3>1, <3>3, <3>4, <3>5 DEF TableOK
    <3>7. ASSUME NEW i \in full
          PROVE  /\ i - 1 \in 0..Size(k) - 1 /\ Bucket(k, i - 1) = buckets[k][i]
                 /\ buckets[k][i] # None /\ buckets[k][i].sel \in Sels
      <4>1. i \in 1..Size(k) /\ buckets[k][i] # None
        BY <2>2, <3>2
      <4>2. i - 1 \in 0..Size(k) - 1 /\ (i - 1) + 1 = i
        BY <3>2, <4>1
      <4>3. buckets[k][i] \in Entry \cup {None}
        BY <3>2, <4>1 DEF BlockTyped
      <4>4. QED
        BY <4>1, <4>2, <4>3 DEF Bucket, Entry
    <3>8. ASSUME NEW i \in full
          PROVE  CacheLookup(c, buckets[k][i].sel) = buckets[k][i]
      <4>1. Orderly(cache[c]) /\ cache[c] = k /\ TypeOK /\ BlocksOK
        BY <2>2, <3>3 DEF TableOK, IInv
      <4>2. PICK s \in Sels : s = buckets[k][i].sel
        BY <3>7
      <4>3. CacheLookup(c, s) = Bucket(k, i - 1)
        BY <2>2, <3>7, <4>1, <4>2, LookupFinds
      <4>4. QED
        BY <3>7, <4>2, <4>3
    <3>9. ASSUME NEW i \in full, NEW j \in full, buckets[k][i].sel = buckets[k][j].sel
          PROVE  i = j
      <4>1. j - 1 = i - 1
        BY <3>3, <3>7, <3>9 DEF TableOK, Orderly
      <4>2. i \in Int /\ j \in Int
        BY <2>2, <3>2
      <4>3. QED
        BY <4>1, <4>2
    <3>10. QED
      BY <3>6, <3>8, <3>9
  <2>3. QED
    BY <2>1, <2>2 DEF CachesAreSound
<1>2. QED
    BY <1>1, InvariantHolds, PTL

=============================================================================
