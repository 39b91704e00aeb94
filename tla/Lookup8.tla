------------------------------ MODULE Lookup8 ------------------------------
(***************************************************************************)
(* lookup8, the 64-bit hash of a string under a salt, and the arithmetic   *)
(* of the perfect hash (objc-selopt.h).                                    *)
(*                                                                         *)
(* A word is four limbs of 16 bits, the lowest first: TLC has no integers  *)
(* of 64 bits.  A key is a sequence of bytes.                              *)
(***************************************************************************)
EXTENDS Naturals, Sequences, Bitwise

Radix == 65536

Word == [1..4 -> 0..Radix - 1]

Zero == <<0, 0, 0, 0>>

Small(n) == <<n, 0, 0, 0>>

\* x + y, modulo 2^64.
Plus(x, y) ==
    LET s1 == x[1] + y[1]
        s2 == x[2] + y[2] + (s1 \div Radix)
        s3 == x[3] + y[3] + (s2 \div Radix)
        s4 == x[4] + y[4] + (s3 \div Radix)
    IN  <<s1 % Radix, s2 % Radix, s3 % Radix, s4 % Radix>>

\* The function f of limb numbers, as a word.
AsWord(f(_)) == <<f(1), f(2), f(3), f(4)>>

\* x - y: x plus the complement of y plus one.
Minus(x, y) ==
    LET complement(i) == Radix - 1 - y[i]
    IN  Plus(x, Plus(AsWord(complement), Small(1)))

XorWord(x, y) == LET limb(i) == x[i] ^^ y[i] IN AsWord(limb)

Limb(x, i) == IF i \in 1..4 THEN x[i] ELSE 0

ShiftLeft(x, n) ==
    LET q == n \div 16
        r == n % 16
        limb(i) == ((Limb(x, i - q) * 2^r) % Radix)
                       + (Limb(x, i - q - 1) \div 2^(16 - r))
    IN  AsWord(limb)

ShiftRight(x, n) ==
    LET q == n \div 16
        r == n % 16
        limb(i) == (Limb(x, i + q) \div 2^r)
                       + ((Limb(x, i + q + 1) * 2^(16 - r)) % Radix)
    IN  AsWord(limb)

-----------------------------------------------------------------------------
(* mix64: twelve rounds.  Each takes the other two words from one word and *)
(* adds a shifted word by exclusive or; the three take turns.              *)

Shifts == <<<<"right", 43>>, <<"left", 9>>, <<"right", 8>>,
            <<"right", 38>>, <<"left", 23>>, <<"right", 5>>,
            <<"right", 35>>, <<"left", 49>>, <<"right", 11>>,
            <<"right", 12>>, <<"left", 18>>, <<"right", 22>>>>

Shift(x, s) == IF s[1] = "left" THEN ShiftLeft(x, s[2]) ELSE ShiftRight(x, s[2])

Round(t, s) ==
    <<t[2], t[3], XorWord(Minus(Minus(t[1], t[2]), t[3]), Shift(t[3], s))>>

mix64(t) ==
    LET after[i \in 0..12] == IF i = 0 THEN t ELSE Round(after[i - 1], Shifts[i])
    IN  after[12]

-----------------------------------------------------------------------------
(* lookup8.                                                                *)

\* Eight bytes from the i-th on, the bytes after the end of the key being 0.
BytesAt(k, i) ==
    LET byte(j) == IF i + j <= Len(k) THEN k[i + j] ELSE 0
        limb(w) == byte(2 * w - 2) + 256 * byte(2 * w - 1)
    IN  AsWord(limb)

\* a, b and c after all blocks of 24 bytes.
Blocks(k, level) ==
    LET golden == <<31763, 32586, 31161, 40503>>
        after[n \in 0..Len(k) \div 24] ==
            IF n = 0 THEN <<level, level, golden>>
            ELSE LET t == after[n - 1]
                     o == 24 * n - 24
                 IN  mix64(<<Plus(t[1], BytesAt(k, o + 1)),
                             Plus(t[2], BytesAt(k, o + 9)),
                             Plus(t[3], BytesAt(k, o + 17))>>)
    IN  after[Len(k) \div 24]

\* Seeded bug: the last bytes are added over the length.
OverLength(k, level) ==
    LET t == Blocks(k, level)  o == 24 * (Len(k) \div 24)
    IN  <<Plus(t[1], BytesAt(k, o + 1)), Plus(t[2], BytesAt(k, o + 1)),
          Plus(t[3], Small(Len(k)))>>

\* The last 0 to 23 bytes; the lowest byte of c is for the length.
Loaded(k, level) ==
    LET t == Blocks(k, level)  o == 24 * (Len(k) \div 24)
    IN  <<Plus(t[1], BytesAt(k, o + 1)),
          Plus(t[2], BytesAt(k, o + 9)),
          Plus(Plus(t[3], Small(Len(k))), ShiftLeft(BytesAt(k, o + 17), 8))>>

lookup8(k, level) == mix64(Loaded(k, level))[3]

-----------------------------------------------------------------------------
(* What the search makes of a hash.                                        *)

log2u(n) == CHOOSE i \in 0..32 : 2^i >= n /\ \A j \in 0..i - 1 : 2^j < n

permute(x, nbits) ==
    LET after[i \in 0..20] ==
            IF i = 0 THEN x
            ELSE LET y == (after[i - 1] * (1 + 2^(1 + nbits \div 2))) % 2^nbits
                     z == y ^^ (y \div 2^(1 + nbits \div 3))
                     u == (z * (1 + 2^(1 + nbits \div 4))) % 2^nbits
                 IN  u ^^ (u \div 2^(1 + nbits \div 5))
    IN  after[20]

-----------------------------------------------------------------------------
(* Properties.                                                             *)

\* mix64 read backwards.
Unround(t, s) == <<Plus(Plus(XorWord(t[3], Shift(t[2], s)), t[1]), t[2]), t[1], t[2]>>

Unmix(t) ==
    LET before[i \in 0..12] ==
            IF i = 0 THEN t ELSE Unround(before[i - 1], Shifts[13 - i])
    IN  before[12]

\* No two of the keys are loaded into the same three words, wherever they
\* differ and whatever their lengths; and "mix 3 64-bit values reversibly":
\* the words can be had back from the mixed ones.  So keys of less than 24
\* bytes differ in what the hash is taken from.
LosesNothing(keys, level) ==
    LET loaded == [k \in keys |-> Loaded(k, level)] IN
    \A k \in keys :
        /\ \A l \in keys : k # l => loaded[k] # loaded[l]
        /\ Unmix(mix64(loaded[k])) = loaded[k]

=============================================================================
