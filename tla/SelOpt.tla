------------------------------- MODULE SelOpt -------------------------------
(***************************************************************************)
(* The selector table of the shared cache (objc-selopt.h): write_selopt    *)
(* builds it from a perfect hash, objc_selopt_t::get looks selectors up.   *)
(*                                                                         *)
(* Before it is written, the table is the empty one that the library is    *)
(* compiled with.  The writer fills a buffer and copies it over the table  *)
(* last, or returns a message and leaves the table alone.  An offset is    *)
(* represented by the string it leads to, NoKey being "", and a table by   *)
(* its numbers as the machine it is written for reads them, which is what  *)
(* the byte swap at the end of write_selopt brings about.                  *)
(***************************************************************************)
EXTENDS PerfectHash

CONSTANTS
    Sizes,          \* room there may be for the table, in bytes
    Far,            \* for each base, the strings too far from it for an offset
    OverShift(_)    \* what a hash may become when it is shifted by 64 bits

\* The numbers of the table that is compiled in: one bit of a, two of b.
ASSUME EmptyTableAssumption ==
    /\ \A v \in HashValues : Upper(v, 2) \in 0..1 /\ Lower(v, 4) \in 0..3
    /\ \A a \in 0..1 : Xor(a, 0) = a

VARIABLES
    dstSize,        \* room for the table
    table,          \* the table
    message         \* what write_selopt returned

SVars == <<strings, smax, blen, hash, sameSalt, badInitkey, badPerfect, val,
          tabh, mapped, stage, dstSize, table, message>>

\* sizeof(objc_selopt_t): six words, salt and base, and scramble.
HeaderSize == 6 * 4 + 2 * 8 + 256 * 4

\* The table compiled in (SELOPT_INITIALIZER).  alen stands for the shift, which
\* is 64 - log2u(alen), and blen for mask + 1.
EmptyTable(h) ==
    [capacity |-> 4, occupied |-> 4, alen |-> 2, blen |-> 4, hash |-> h,
     scramble |-> [i \in Codes |-> 0],
     tab |-> [b \in 0..3 |-> 0],
     offsets |-> [s \in 0..3 |-> NoKey]]

\* val >> shift.  A shift by 64 bits is undefined; machines differ in it.
Shifted(h, n) == IF n = 1 THEN OverShift(h) ELSE {Upper(h, n)}

\* objc_selopt_t::hash.
Indices(t, key) ==
    {Xor(a, t.scramble[t.tab[Lower(t.hash[key], t.blen)]]) :
        a \in Shifted(t.hash[key], t.alen)}

\* objc_selopt_t::get.
Find(t, key) ==
    {IF i \in DOMAIN t.offsets /\ t.offsets[i] = key THEN key ELSE NoKey :
        i \in Indices(t, key)}

\* objc_selopt_t::set, for each string.
Set(t) ==
    [t EXCEPT !.offsets =
        [s \in 0..t.capacity - 1 |->
            IF \E k \in strings : s \in Indices(t, k)
            THEN CHOOSE k \in strings : s \in Indices(t, k)
            ELSE NoKey]]

SInit ==
    /\ HInit
    /\ dstSize \in Sizes
    /\ table = EmptyTable(hash)
    /\ message = "none"

TooBig == HeaderSize + blen + 4 * smax > dstSize

Returns(m) ==
    /\ message = "none"
    /\ message' = m
    /\ UNCHANGED hashVars
    /\ UNCHANGED dstSize

NoHash ==
    /\ stage = "failed"
    /\ Returns("perfect hash failed")
    /\ UNCHANGED table

NoRoom ==
    /\ stage = "done" /\ TooBig
    /\ Returns("selector section too small")
    /\ UNCHANGED table

TooFar ==
    /\ stage = "done" /\ ~TooBig
    /\ \E far \in Far : strings \cap far # {}
    /\ Returns("selector offset too big")
    /\ UNCHANGED table

\* Seeded bug: the shift is that of blen.
ShiftOfB ==
    [capacity |-> smax, occupied |-> Cardinality(strings),
     alen |-> blen, blen |-> blen, hash |-> hash,
     scramble |-> [i \in Codes |-> Scramble(i)],
     tab |-> val,
     offsets |-> [s \in 0..smax - 1 |-> NoKey]]

\* struct perfect_hash, in a table with all offsets those of "".
Result ==
    [capacity |-> smax, occupied |-> Cardinality(strings),
     alen |-> smax, blen |-> blen, hash |-> hash,
     scramble |-> [i \in Codes |-> Scramble(i)],
     tab |-> val,
     offsets |-> [s \in 0..smax - 1 |-> NoKey]]

Write ==
    /\ stage = "done" /\ ~TooBig
    /\ \E far \in Far : strings \cap far = {}
    /\ Returns("written")
    /\ table' = Set(Result)

Searching == UNCHANGED <<dstSize, table, message>>

SNext ==
    \/ NewSalt /\ Searching
    \/ StartPerfect /\ Searching
    \/ SamePair /\ Searching
    \/ Place /\ Searching
    \/ CountFailure /\ Searching
    \/ WidenB /\ Searching
    \/ DoubleSlots /\ Searching
    \/ Fail /\ Searching
    \/ NoHash \/ NoRoom \/ TooFar \/ Write

SSpec == SInit /\ [][SNext]_SVars

-----------------------------------------------------------------------------
(* Properties.                                                             *)

STypeOK ==
    /\ HTypeOK
    /\ dstSize \in Sizes
    /\ DOMAIN table.offsets = 0..table.capacity - 1
    /\ DOMAIN table.tab = 0..table.blen - 1
    /\ table.occupied <= table.capacity
    /\ message \in {"none", "written", "perfect hash failed",
                     "selector section too small", "selector offset too big"}

\* Whatever selector is asked for, the table is read within its bounds, and
\* it answers with exactly the strings it was written with: with none of them
\* before it is written or when writing fails, however far that got.
FindsExactly ==
    \A key \in Keys :
        /\ Indices(table, key) \subseteq DOMAIN table.offsets
        /\ Find(table, key) =
              {IF message = "written" /\ key \in strings THEN key ELSE NoKey}

=============================================================================
