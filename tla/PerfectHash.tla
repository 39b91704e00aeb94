---------------------------- MODULE PerfectHash ----------------------------
(***************************************************************************)
(* The search for a perfect hash of a set of selectors (objc-selopt.h,     *)
(* make_perfect and below; Bob Jenkins' perfect.c).                        *)
(*                                                                         *)
(* A salt gives every key a pair (a, b) from the two ends of its 64-bit    *)
(* hash.  Keys with the same b are one list and are placed together, the   *)
(* longest list first: a byte tab[b] is looked for such that the slots     *)
(* a ^ scramble[tab[b]] of the list's keys are all free.  Salts whose      *)
(* pairs are not distinct, and salts for which a list cannot be placed,    *)
(* are counted; a full count widens b.  When b cannot be widened, the      *)
(* search is begun once more with twice as many slots.                     *)
(*                                                                         *)
(* What lookup8 returns for a salt is any member of Hashes, so that the    *)
(* search is followed for lucky and for unlucky salts.  A key is opaque.   *)
(* Parts of a hash and exclusive or are parameters, with what the search   *)
(* relies on as assumptions; alen is smax throughout (alen = maxalen, so   *)
(* that the code's *alen *= 2 is never reached).                           *)
(***************************************************************************)
EXTENDS Integers, FiniteSets

CONSTANTS
    Keys,           \* selector names
    Inputs,          \* the sets of strings a table is asked for
    Hashes,          \* the hash functions salts can give, from names to hashes
    NoKey,           \* the empty slot
    RETRY_INITKEY,   \* salts without distinct pairs before b is widened
    RETRY_PERFECT,   \* salts without a perfect hash before b is widened
    SCRAMBLE_LEN,    \* values tab[b] can have
    CeilPow2(_),     \* 1 << log2u(n)
    Upper(_, _),     \* the upper log2u(n) bits of a hash
    Lower(_, _),     \* the lower log2u(n) bits of a hash
    Xor(_, _),
    Permute(_, _)    \* permute(i, log2u(n))

Codes == 0..SCRAMBLE_LEN - 1

HashValues == UNION {{h[k] : k \in Keys} : h \in Hashes}

ASSUME PerfectHashAssumption ==
    /\ NoKey \notin Keys
    /\ \A S \in Inputs : S \subseteq Keys /\ IsFiniteSet(S) /\ S # {}
    /\ Hashes # {} /\ \A h \in Hashes : DOMAIN h = Keys
    /\ RETRY_INITKEY \in Nat \ {0} /\ RETRY_PERFECT \in Nat \ {0}
    /\ SCRAMBLE_LEN \in Nat \ {0}

\* A table has n or 2n slots, where n is CeilPow2 of the number of strings, and
\* fewer than 4n values of b.
ASSUME ArithmeticAssumption ==
    \A S \in Inputs : LET n == CeilPow2(Cardinality(S)) IN
        /\ n \in Nat /\ n >= Cardinality(S)
        /\ \A m \in 1..4 * n, v \in HashValues :
              Upper(v, m) \in 0..m - 1 /\ Lower(v, m) \in 0..m - 1
        /\ \A m \in 1..2 * n, v, w \in HashValues :
              Lower(v, 2 * m) = Lower(w, 2 * m) => Lower(v, m) = Lower(w, m)
        /\ \A m \in {n, 2 * n} :
              /\ \A i \in Codes : Permute(i, m) \in 0..m - 1
              /\ \A a, c \in 0..m - 1 : Xor(a, c) \in 0..m - 1
              /\ \A a, b, c \in 0..m - 1 : Xor(a, c) = Xor(b, c) => a = b

VARIABLES
    strings,     \* the keys
    smax,        \* number of slots
    blen,        \* number of b values
    hash,        \* hash_k of each key, under the present salt
    sameSalt,    \* --si: the next round has the same salt again
    badInitkey,  \* bad_initkey
    badPerfect,  \* bad_perfect
    val,         \* tabb[b].val_b
    tabh,        \* the key in each slot
    mapped,      \* the lists that perfect() has been through
    stage           \* where the search is, or how it ended

hashVars == <<strings, smax, blen, hash, sameSalt, badInitkey, badPerfect,
              val, tabh, mapped, stage>>

HTypeOK ==
    /\ strings \in Inputs
    /\ smax \in {CeilPow2(Cardinality(strings)), 2 * CeilPow2(Cardinality(strings))}
    /\ blen \in Nat \ {0}
    /\ hash \in Hashes
    /\ sameSalt \in BOOLEAN
    /\ badInitkey \in 0..RETRY_INITKEY - 1
    /\ badPerfect \in 0..RETRY_PERFECT - 1
    /\ stage \in {"salt", "inittab", "perfect", "done", "failed"}
    /\ stage \in {"perfect", "done"} =>
          /\ val \in [0..blen - 1 -> Codes]
          /\ tabh \in [0..smax - 1 -> strings \cup {NoKey}]
          /\ mapped \in SUBSET (0..blen - 1)

-----------------------------------------------------------------------------
(* Keys, pairs and lists.                                                  *)

\* initnorm.
A(k) == Upper(hash[k], smax)
B(k) == Lower(hash[k], blen)

\* tabb[b].list_b
KeysOf(b) == {k \in strings : B(k) = b}

\* The first guess at the number of b values.
initalen(slots, nkeys) ==
    LET guess == IF 10 * nkeys <= 6 * slots THEN slots \div 16
                 ELSE IF 10 * nkeys <= 8 * slots THEN slots \div 8
                 ELSE slots \div 4
    IN  IF guess < 1 THEN 1 ELSE guess

\* inittab: no two keys have the same pair.
DistinctPairs ==
    \A k, l \in strings : A(k) = A(l) /\ B(k) = B(l) => k = l

-----------------------------------------------------------------------------
(* augment and apply: place one list.                                      *)

\* scramble[i]
Scramble(i) == Permute(i, smax)

Slot(k, i) == Xor(A(k), Scramble(i))

\* hash(key) with the table as it is.
Index(k) == Slot(k, val[B(k)])

\* The lists in whose keys' way the keys of b would be with tab[b] = i.
Hits(b, i) ==
    {B(tabh[Slot(k, i)]) : k \in {l \in KeysOf(b) : tabh[Slot(l, i)] # NoKey}}

InBounds(b, i) == \A k \in KeysOf(b) : Slot(k, i) < smax

\* Seeded bug: a slot that is taken is used all the same.
Overwrites(b, i) == InBounds(b, i)

Fits(b, i) == InBounds(b, i) /\ Hits(b, i) = {}

\* Seeded bug: every value with one list in the way enters it in the queue.
Revisits(b, i) ==
    {j \in 0..i - 1 : InBounds(b, j) /\ \E c \in mapped : Hits(b, j) = {c}}

\* The lists that are entered in the queue by values below i, each once: by
\* the first value with which it is the only one in the way (water_b).
Children(b, i) ==
    {c \in mapped : \E j \in 0..i - 1 : InBounds(b, j) /\ Hits(b, j) = {c}}

\* The queue is walked no further than its root (q == 1), so that the path
\* that is applied is always the root itself with its new value.
Apply(b, i) ==
    /\ val' = [val EXCEPT ![b] = i]
    /\ tabh' = [s \in DOMAIN tabh |->
                    IF \E k \in KeysOf(b) : Slot(k, i) = s
                    THEN CHOOSE k \in KeysOf(b) : Slot(k, i) = s
                    ELSE IF \E k \in KeysOf(b) : Index(k) = s /\ tabh[s] = k
                    THEN NoKey
                    ELSE tabh[s]]

HInit ==
    /\ strings \in Inputs
    /\ smax = CeilPow2(Cardinality(strings))
    /\ blen = initalen(smax, Cardinality(strings))
    /\ hash = CHOOSE h \in Hashes : TRUE
    /\ sameSalt = FALSE
    /\ badInitkey = 0 /\ badPerfect = 0
    /\ val = <<>> /\ tabh = <<>> /\ mapped = {}
    /\ stage = "salt"

-----------------------------------------------------------------------------
(* findhash: salts.                                                        *)

\* initnorm with the next salt, or with the same one and longer b's.
NewSalt ==
    /\ stage = "salt"
    /\ hash' \in IF sameSalt THEN {hash} ELSE Hashes
    /\ stage' = "inittab"
    /\ UNCHANGED <<strings, smax, blen, sameSalt, badInitkey, badPerfect,
                   val, tabh, mapped>>

\* inittab succeeds; perfect() clears what earlier attempts left.
StartPerfect ==
    /\ stage = "inittab" /\ DistinctPairs
    /\ val' = [b \in 0..blen - 1 |-> 0]
    /\ tabh' = [s \in 0..smax - 1 |-> NoKey]
    /\ mapped' = {}
    /\ sameSalt' = FALSE
    /\ stage' = "perfect"
    /\ UNCHANGED <<strings, smax, blen, hash, badInitkey, badPerfect>>

\* "Try to put more bits in (A,B)": when b is as wide as it may be, only the
\* counts begin again.
Wider == IF blen < smax THEN 2 * blen ELSE blen

\* Seeded bug: the same salt is tried again with longer b's.
KeepsSalt ==
    /\ stage = "inittab" /\ ~DistinctPairs
    /\ IF badInitkey + 1 >= RETRY_INITKEY
       THEN /\ blen' = Wider
            /\ badInitkey' = 0 /\ badPerfect' = 0
            /\ sameSalt' = TRUE
       ELSE /\ badInitkey' = badInitkey + 1
            /\ sameSalt' = FALSE
            /\ UNCHANGED <<blen, badPerfect>>
    /\ stage' = "salt"
    /\ UNCHANGED <<strings, smax, hash, val, tabh, mapped>>

SamePair ==
    /\ stage = "inittab" /\ ~DistinctPairs
    /\ IF badInitkey + 1 >= RETRY_INITKEY
       THEN /\ blen' = Wider
            /\ badInitkey' = 0 /\ badPerfect' = 0
       ELSE /\ badInitkey' = badInitkey + 1
            /\ UNCHANGED <<blen, badPerfect>>
    /\ sameSalt' = FALSE
    /\ stage' = "salt"
    /\ UNCHANGED <<strings, smax, hash, val, tabh, mapped>>

-----------------------------------------------------------------------------
(* perfect: all lists, the longest first and the lower b first among       *)
(* lists of a length.                                                      *)

Unmapped == {b \in 0..blen - 1 : KeysOf(b) # {} /\ b \notin mapped}

Before(b, c) ==
    \/ Cardinality(KeysOf(b)) > Cardinality(KeysOf(c))
    \/ Cardinality(KeysOf(b)) = Cardinality(KeysOf(c)) /\ b <= c

\* augment finds a value for the next list.
Place ==
    /\ stage = "perfect"
    /\ \E b \in Unmapped, i \in Codes :
          /\ \A c \in Unmapped : Before(b, c)
          /\ Fits(b, i)
          /\ \A j \in 0..i - 1 : ~Fits(b, j)
          /\ Apply(b, i)
          /\ mapped' = mapped \cup {b}
          /\ stage' = IF Unmapped = {b} THEN "done" ELSE "perfect"
    /\ UNCHANGED <<strings, smax, blen, hash, sameSalt, badInitkey, badPerfect>>

NoPlace ==
    /\ stage = "perfect"
    /\ \E b \in Unmapped :
          /\ \A c \in Unmapped : Before(b, c)
          /\ \A i \in Codes : ~Fits(b, i)

CountFailure ==
    /\ NoPlace
    /\ badPerfect + 1 < RETRY_PERFECT
    /\ badPerfect' = badPerfect + 1
    /\ stage' = "salt"
    /\ UNCHANGED <<strings, smax, blen, hash, sameSalt, badInitkey, val, tabh, mapped>>

\* "we know this salt got distinct (A,B)"
WidenB ==
    /\ NoPlace
    /\ badPerfect + 1 >= RETRY_PERFECT /\ blen < smax
    /\ blen' = 2 * blen
    /\ sameSalt' = TRUE
    /\ badPerfect' = 0
    /\ stage' = "salt"
    /\ UNCHANGED <<strings, smax, hash, badInitkey, val, tabh, mapped>>

\* findhash returns 0.  make_perfect calls it once more with smax doubled;
\* the second time it returns the zeroed result.
Exhausted ==
    /\ NoPlace
    /\ badPerfect + 1 >= RETRY_PERFECT /\ blen >= smax
    /\ UNCHANGED <<strings, hash, sameSalt, val, tabh, mapped>>

DoubleSlots ==
    /\ Exhausted
    /\ smax = CeilPow2(Cardinality(strings))
    /\ smax' = 2 * smax
    /\ blen' = initalen(2 * smax, Cardinality(strings))
    /\ badInitkey' = 0 /\ badPerfect' = 0
    /\ stage' = "salt"

Fail ==
    /\ Exhausted
    /\ smax # CeilPow2(Cardinality(strings))
    /\ stage' = "failed"
    /\ UNCHANGED <<smax, blen, badInitkey, badPerfect>>

HSearch ==
    \/ NewSalt \/ StartPerfect \/ SamePair \/ Place \/ CountFailure
    \/ WidenB \/ DoubleSlots \/ Fail

-----------------------------------------------------------------------------
(* Properties.                                                             *)

\* When the search has succeeded, all keys have slots of the table, no two
\* of them the same one.
IsPerfect ==
    stage = "done" =>
        \A k, l \in strings :
            /\ Index(k) \in 0..smax - 1
            /\ Index(k) = Index(l) => k = l

\* tabh and tab[] agree while lists are placed: the keys of the lists that
\* have been mapped are in the slots they hash to, and nothing else is in
\* tabh.  A list that is placed later takes no slot away from them.
SlotsAgree ==
    stage \in {"perfect", "done"} =>
        /\ \A k \in strings :
              B(k) \in mapped => Index(k) \in 0..smax - 1 /\ tabh[Index(k)] = k
        /\ \A s \in 0..smax - 1 : tabh[s] # NoKey => B(tabh[s]) \in mapped

\* A salt that is tried again with longer b's still gives distinct pairs, as
\* the comment at "--si" claims: findhash cannot lose it to inittab.
RetriedSaltIsDistinct == sameSalt => DistinctPairs

\* The queue that augment fills for the next list, its root and the value
\* that fits included, has room in tabq, which was allocated with blen + 1
\* entries.
QueueFits ==
    stage = "perfect" =>
        \A b \in Unmapped :
            \A i \in 0..SCRAMBLE_LEN :
                (\A j \in 0..i - 1 : ~Fits(b, j)) =>
                    1 + Cardinality(Children(b, i))
                      + (IF i \in Codes /\ Fits(b, i) THEN 1 ELSE 0) <= blen + 1

=============================================================================
