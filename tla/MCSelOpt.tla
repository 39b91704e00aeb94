------------------------------ MODULE MCSelOpt ------------------------------
(***************************************************************************)
(* Tables of up to four selectors.  Hashes have six bits, as many as       *)
(* tables of eight slots look at: the upper and the lower three bits of    *)
(* lookup8 under the first salts, and hashes that are drawn from a few     *)
(* values, with which lists get long and are in each other's way.          *)
(***************************************************************************)
EXTENDS SelOpt, Sequences, TLC

L8 == INSTANCE Lookup8

CONSTANT Unlucky

MCKeys == {"of 3", "of 8", "of 16", "of 24"}

Text(n) == [i \in 1..n |-> 97 + (i % 26)]

Samples ==
    {Text(n) : n \in {1, 7, 8, 9, 16, 17, 24, 25, 48}}
        \cup {[Text(23) EXCEPT ![i] = 65] : i \in 1..23}

\* si * golden ratio
Salt[si \in Nat] ==
    IF si = 0 THEN L8!Zero ELSE L8!Plus(Salt[si - 1], <<31763, 32586, 31161, 40503>>)

SixBits(x) == 8 * (x[4] \div 8192) + (x[1] % 8)

\* lookup8 of the names under the first four salts; written out here and
\* compared with lookup8 below, because it takes TLC long to work them out.
Lucky == <<<<37, 17, 50, 10>>, <<8, 35, 20, 63>>, <<25, 15, 3, 56>>, <<19, 4, 48, 22>>>>

AsHash(h) == ("of 3" :> h[1]) @@ ("of 8" :> h[2]) @@ ("of 16" :> h[3]) @@ ("of 24" :> h[4])

MCHashes ==
    {AsHash(Lucky[si]) : si \in 1..4}
        \cup {AsHash(<<1, u, v, w>>) : u, v, w \in Unlucky}

MCInputs == {MCKeys, MCKeys \ {"of 24"}, {"of 3", "of 8"}}

MCCeilPow2(n) == 2^L8!log2u(n)

MCUpper(v, n) == (v * n) \div 64

MCLower(v, n) == v % n

MCXor(a, c) ==
    LET bit(i) == ((a \div i) + (c \div i)) % 2
    IN  bit(1) + 2 * bit(2) + 4 * bit(4)

PermuteTable ==
    LET row(nbits) ==
            <<L8!permute(0, nbits), L8!permute(1, nbits), L8!permute(2, nbits)>>
    IN  <<row(0), row(1), row(2), row(3)>>

MCPermute(i, n) == PermuteTable[L8!log2u(n) + 1][i + 1]

\* Some machines take the shift modulo 64 and shift by nothing; on some it
\* yields 0.
MCOverShift(h) == {0, h}

\* What the search starts from: lookup8 takes in every byte of a key and its
\* length, and mixes them reversibly; it gives the hashes of this instance.
HashLosesNothing ==
    HInit =>
        /\ L8!LosesNothing(Samples, Salt[1])
        /\ \A si \in 1..4 :
              LET h(n) == SixBits(L8!lookup8(Text(n), Salt[si]))
              IN  Lucky[si] = <<h(3), h(8), h(16), h(24)>>

=============================================================================
