------------------------------- MODULE SeqNum -------------------------------
(***************************************************************************)
(* uint32_t sequence numbers and compare_u32 (cpp/util.c), at a width      *)
(* scaled down from 32 bits: Half stands for 2^31.                         *)
(***************************************************************************)
EXTENDS Integers

CONSTANT Half  \* the number of non-negative values of an int

ASSUME HalfAssumption == Half \in Nat /\ Half > 1

Wrap == 2 * Half

Seq32 == 0 .. Wrap - 1

\* Mutant: a wider type, which does not wrap.
Uint_wider(x) == x

\* Arithmetic on uint32_t.
Uint(x) == x % Wrap

\* An expression of type int: the subtraction overflows into the sign bit.
Int32(x) == ((x + Half) % Wrap) - Half

\* A comparison that orders serial numbers the way RFC 1982 does.
SerialLess(s1, s2) == Uint(s2 - s1) \in 1 .. Half - 1

\* compare_u32 as RFC 1982, named in its comment, would have it.
compare_rfc1982(s1, s2) ==
  IF s1 = s2 THEN 0 ELSE IF SerialLess(s1, s2) THEN -1 ELSE 1

\* compare_u32 as it is written: the differences of the two ints are themselves
\* ints, so the one that should exceed 0x7FFFFFFF (= Half - 1) never does.  Where
\* a difference overflows (undefined in C), a build that wraps and one that supposes
\* it does not, and so only asks whether it is 0x7FFFFFFF, decide alike.
compare_u32(s1, s2) ==
  LET i1 == Int32(s1)
      i2 == Int32(s2)
  IN  IF s1 = s2 THEN 0
      ELSE IF \/ i1 < i2 /\ Int32(i2 - i1) < Half - 1
              \/ i1 > i2 /\ Int32(i1 - i2) > Half - 1
           THEN -1
           ELSE 1
=============================================================================
