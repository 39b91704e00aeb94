------------------------------- MODULE SelSet -------------------------------
(***************************************************************************)
(* The set of selectors (objc-sel-set.m): a table with open addressing     *)
(* that is probed one bucket after the other and doubled when it is at its *)
(* capacity.  This is the version without mod, of the ARM build.           *)
(*                                                                         *)
(* A selector is the address of a string, represented by its string (name, *)
(* a sequence of bytes) and by who allocated it.                           *)
(***************************************************************************)
EXTENDS Naturals, Sequences, FiniteSets

CONSTANT NULL

__objc_sel_set_capacities ==
    <<3, 6, 12, 24, 48, 96, 192, 384, 768, 1536, 3072, 6144, 12288, 24576, 49152,
      98304, 196608, 393216, 786432, 1572864, 3145728, 6291456, 12582912, 25165824,
      50331648, 100663296, 201326592>>

__objc_sel_set_buckets ==
    <<4, 8, 16, 32, 64, 128, 256, 512, 1024, 2048, 4096, 8192, 16384, 32768, 65536,
      131072, 262144, 524288, 1048576, 2097152, 4194304, 8388608, 16777216, 33554432,
      67108864, 134217728, 268435456>>

SIZE == 27

\* The first set of all that is large enough.  Were there none, the code dies of it.
IndexFor(capacity) ==
    CHOOSE idx \in 1..SIZE :
        /\ __objc_sel_set_capacities[idx] >= capacity
        /\ \A i \in 1..idx - 1 : __objc_sel_set_capacities[i] < capacity

\* CONSTRAIN(_objc_strhash(s), n), for n a power of two up to 2^32: a step of
\* the hash is hash += (hash << 8) + a.
Constrained(s, n) ==
    LET hash[i \in 0..Len(s)] ==
            IF i = 0 THEN 0 ELSE (257 * hash[i - 1] + s[i]) % n
    IN  hash[Len(s)]

EmptySet(idx) ==
    LET nb == __objc_sel_set_buckets[idx] IN
    [count |-> 0, capacity |-> __objc_sel_set_capacities[idx], bucketsNum |-> nb,
     buckets |-> [i \in 0..nb - 1 |-> NULL]]

__objc_sel_set_create(capacity) == EmptySet(IndexFor(capacity))

\* How many buckets are looked at before an empty one: none if there is no
\* empty one, and then the loop has no end.
Ends(sset, name) ==
    LET start == Constrained(name, sset.bucketsNum)
        full(d) == sset.buckets[(start + d) % sset.bucketsNum] # NULL
    IN  {d \in 0..sset.bucketsNum - 1 : ~full(d) /\ \A e \in 0..d - 1 : full(e)}

\* __objc_sel_set_findBuckets.
FindBuckets(sset, name) ==
    LET start == Constrained(name, sset.bucketsNum)
        bucket(d) == (start + d) % sset.bucketsNum
        end == CHOOSE d \in Ends(sset, name) : TRUE
        same == {d \in 0..end - 1 : sset.buckets[bucket(d)].name = name}
    IN  [match |-> IF same = {} THEN NULL
                   ELSE sset.buckets[bucket(CHOOSE d \in same : \A e \in same : d <= e)],
         nomatch |-> bucket(end)]

__objc_sel_set_get(sset, name) == FindBuckets(sset, name).match

PutIn(sset, sel) ==
    [sset EXCEPT !.buckets[FindBuckets(sset, sel.name).nomatch] = sel]

\* All selectors are found new places, in the order of their old ones.
Grown(sset) ==
    LET new == EmptySet(IndexFor(sset.count + 1))
        moved[i \in 0..sset.bucketsNum] ==
            IF i = 0 THEN [new EXCEPT !.count = sset.count]
            ELSE IF sset.buckets[i - 1] = NULL THEN moved[i - 1]
            ELSE PutIn(moved[i - 1], sset.buckets[i - 1])
    IN  moved[sset.bucketsNum]

\* Seeded bug: the set grows when all its buckets are full.
FullAtBuckets(sset) == sset.count = sset.bucketsNum

IsFull(sset) == sset.count = sset.capacity

__objc_sel_set_add(sset, sel) ==
    LET roomy == IF IsFull(sset) THEN Grown(sset) ELSE sset
    IN  [PutIn(roomy, sel) EXCEPT !.count = roomy.count + 1]

=============================================================================
