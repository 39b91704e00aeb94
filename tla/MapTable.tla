------------------------------ MODULE MapTable ------------------------------
(***************************************************************************)
(* The hash table from keys to values of maptable.m: open addressing over  *)
(* 2^n - 1 buckets, no mark where a pair was removed.  The pairs of a      *)
(* chain, which is a run of full buckets, are moved to keep each of them   *)
(* reachable from the bucket that its key hashes to.                       *)
(*                                                                         *)
(* Hash[key] is the prototype's hash.  It stays below 2^16 here, where     *)
(* (hash & 0xffff) ^ (hash >> 16) is the hash itself and nothing wraps.    *)
(***************************************************************************)
EXTENDS Naturals, Sequences, FiniteSets

CONSTANTS NOTAKEY, NULL, Hash

\* What the implementation asks of its keys: "key != -1", and a hash for each
\* that does not vary.
ASSUME HashAssumption ==
    /\ NOTAKEY \notin DOMAIN Hash
    /\ \A key \in DOMAIN Hash : Hash[key] \in Nat /\ Hash[key] < 2^16

exp2m1(x) == 2^x - 1

log2u(x) == CHOOSE n \in 0..31 : x < 2^(n + 1) /\ (n > 0 => 2^n <= x)

bucketOf(table, key) == (65521 * Hash[key] + Hash[key]) % table.nbBuckets

NoPair == [key |-> NOTAKEY, value |-> NULL]

EmptyTable(nb) ==
    [count |-> 0, nbBuckets |-> nb, buckets |-> [i \in 0..nb - 1 |-> NoPair]]

NXCreateMapTable(capacity) == EmptyTable(exp2m1(log2u(capacity) + 1))

\* nextIndex, d times, from the bucket of the key.
Index(table, key, d) == (bucketOf(table, key) + d) % table.nbBuckets

Pair(table, key, d) == table.buckets[Index(table, key, d)]

\* How many full buckets there are in a row: all of them, when the probe is
\* back where it began.
Chain(table, key) ==
    CHOOSE n \in 0..table.nbBuckets :
        /\ \A d \in 0..n - 1 : Pair(table, key, d).key # NOTAKEY
        /\ n < table.nbBuckets => Pair(table, key, n).key = NOTAKEY

Holding(table, key) ==
    {d \in 0..Chain(table, key) - 1 : Pair(table, key, d).key = key}

NXMapGet(table, key) ==
    IF Holding(table, key) = {} THEN NULL
    ELSE Pair(table, key, CHOOSE d \in Holding(table, key) : TRUE).value

\* A new pair goes to the bucket its key hashes to, and shifts the chain that
\* it finds there by one bucket.
Pushed(table, key, value) ==
    LET n == Chain(table, key)
        at == [d \in 0..n |-> Index(table, key, d)]
        pushed(i) == CHOOSE d \in 0..n : at[d] = i
    IN  [table EXCEPT
            !.count = @ + 1,
            !.buckets = [i \in DOMAIN @ |->
                IF i \notin {at[d] : d \in 0..n} THEN @[i]
                ELSE IF pushed(i) = 0 THEN [key |-> key, value |-> value]
                ELSE @[at[pushed(i) - 1]]]]

\* _NXMapRehash.  The pairs have room in the larger table without another.
Rehashed(table) ==
    LET moved[i \in 0..table.nbBuckets] ==
            IF i = 0 THEN EmptyTable(2 * table.nbBuckets + 1)
            ELSE LET pair == table.buckets[i - 1]
                 IN  IF pair.key = NOTAKEY THEN moved[i - 1]
                     ELSE Pushed(moved[i - 1], pair.key, pair.value)
    IN  moved[table.nbBuckets]

\* A pair that met no other never makes the table grow.
Crowded(table) == 4 * table.count > 3 * table.nbBuckets

NXMapInsert(table, key, value) ==
    IF Pair(table, key, 0).key = key
    THEN [table EXCEPT !.buckets[Index(table, key, 0)].value = value]
    ELSE LET roomy == IF table.count = table.nbBuckets THEN Rehashed(table) ELSE table
             pushed == Pushed(roomy, key, value)
         IN  IF Holding(roomy, key) # {}
             THEN [roomy EXCEPT !.buckets[Index(roomy, key,
                                 CHOOSE d \in Holding(roomy, key) : TRUE)].value = value]
             ELSE IF Chain(roomy, key) > 0 /\ Crowded(pushed) THEN Rehashed(pushed)
             ELSE pushed

\* Seeded bug: the rest of the chain stays where it is.
RemovedAlone(table, key) ==
    IF Holding(table, key) = {} THEN table
    ELSE [table EXCEPT
            !.count = @ - 1,
            !.buckets[Index(table, key, CHOOSE d \in Holding(table, key) : TRUE)] = NoPair]

\* The whole chain is taken out, and what is not of the key put in again, the
\* last pair first.
NXMapRemove(table, key) ==
    LET n == Chain(table, key)
        at == {Index(table, key, d) : d \in 0..n - 1}
        cleared == [table EXCEPT
            !.count = @ - n,
            !.buckets = [i \in DOMAIN @ |-> IF i \in at THEN NoPair ELSE @[i]]]
        reinserted[d \in 0..n] ==
            IF d = n THEN cleared
            ELSE LET pair == Pair(table, key, d)
                 IN  IF pair.key = key THEN reinserted[d + 1]
                     ELSE NXMapInsert(reinserted[d + 1], pair.key, pair.value)
    IN  IF Holding(table, key) = {} THEN table ELSE reinserted[0]

=============================================================================
