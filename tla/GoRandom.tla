----------------------------- MODULE GoRandom ------------------------------
(***************************************************************************)
(* The additive lagged Fibonacci generator of Go's math/rand, as           *)
(* src/go_random.cpp reproduces it.  The sizes of the generator are        *)
(* constants; the seeding generator has its real size.  Words of the state *)
(* vector are added as signed 64-bit integers, where the language leaves   *)
(* an overflow undefined; the sum wraps in the builds made of it.          *)
(***************************************************************************)
EXTENDS Integers, Sequences, SequencesExt

CONSTANTS
    rng_len,   \* words of the state vector (607 in the code)
    rng_tap,   \* distance between the two positions (273)
    WordSize,  \* number of values of a word (2^64)
    IntSize    \* number of values of Int31 (2^31), a power of two

ASSUME GeneratorAssumption ==
    /\ rng_len \in Nat /\ rng_tap \in 1 .. rng_len - 1
    /\ WordSize \in Nat \ {0}
    /\ IntSize \in Nat /\ \E k \in 1 .. 31 : IntSize = 2 ^ k

int32_max == 2147483647

(***************************************************************************)
(* One step of the seeding generator, by Schrage's method.                 *)
(***************************************************************************)
SeedRand(x) ==
    LET next == 48271 * (x % 44488) - 3399 * (x \div 44488)
    IN  IF next < 0 THEN next + int32_max ELSE next

(***************************************************************************)
(* The seed as the seeding generator takes it.  C++'s % has the sign of    *)
(* its left operand.                                                       *)
(***************************************************************************)
SeedValue(seed) ==
    LET remainder == IF seed < 0 THEN -((-seed) % int32_max) ELSE seed % int32_max
        positive == IF remainder < 0 THEN remainder + int32_max ELSE remainder
    IN  IF positive = 0 THEN 89482311 ELSE positive

-----------------------------------------------------------------------------
(***************************************************************************)
(* The generator as Seed leaves it, for a vector of words.                 *)
(***************************************************************************)
Seeded(words) == [tap |-> 0, feed |-> rng_len - rng_tap, vec |-> words, out |-> <<>>]

StepBack(i) == IF i = 0 THEN rng_len - 1 ELSE i - 1

(***************************************************************************)
(* Both positions step back and the sum of the words there replaces the    *)
(* one at feed; it is also the value returned.                             *)
(***************************************************************************)
Uint64(rng) ==
    LET tap == StepBack(rng.tap)
        feed == StepBack(rng.feed)
        x == (rng.vec[feed] + rng.vec[tap]) % WordSize
    IN  [tap |-> tap, feed |-> feed, vec |-> [rng.vec EXCEPT ![feed] = x], out |-> Append(rng.out, x)]

-----------------------------------------------------------------------------
Again == -1

(***************************************************************************)
(* Mutant: no value is drawn again.                                        *)
(***************************************************************************)
Int31nBiased(v, n) == v % n

(***************************************************************************)
(* What Int31n(n) does with a value v of Int31: values above the largest   *)
(* multiple of n are drawn again.  For a power of two, a divisor of        *)
(* IntSize, the code masks v instead.                                      *)
(***************************************************************************)
Int31n(v, n) ==
    LET max == (IntSize - 1) - (IntSize % n)
    IN  IF IntSize % n # 0 /\ v > max THEN Again ELSE v % n
=============================================================================
