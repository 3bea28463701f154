----------------------------- MODULE GteDivide -------------------------------
(***************************************************************************)
(* The division of the GTE (src/cpu/gte/divider.rs): a 1.16 fixed point    *)
(* quotient of two 16 bit numbers, from a reciprocal computed with one     *)
(* step of the Newton-Raphson method, against the exact quotient.          *)
(*                                                                         *)
(* Products of more than 31 bits are computed in two halves, which is      *)
(* exact.                                                                  *)
(***************************************************************************)
EXTENDS Integers

CONSTANTS Divisors,       \* divisors to check
          Numerators(_)   \* numerators to check with one

Max == 131071     \* 0x1ffff

----------------------------------------------------------------------------
\* 16 minus the number of bits of d, which the GTE never makes 0
Shift(d) == CHOOSE s \in 0 .. 15 : 2^15 <= d * 2^s /\ d * 2^s < 2^16

\* The values the table holds (test validate_unr_table)
UnrTable(i) ==
  IF i = 256 THEN 0 ELSE (262144 \div (i + 256) + 1) \div 2 - 257

\* Mutant: without the rounding of the index, which then stays inside the
\* first 256 entries
reciprocal_truncated(d) ==
  LET factor == UnrTable((d % 32768) \div 128) + 257
      norm == (d % 32768) + 32768
      tmp == (128 - norm * factor) \div 256
  IN (factor * (131072 + tmp) + 128) \div 256

reciprocal(d) ==
  LET factor == UnrTable(((d % 32768) + 64) \div 128) + 257
      norm == (d % 32768) + 32768
      tmp == (128 - norm * factor) \div 256
  IN (factor * (131072 + tmp) + 128) \div 256

\* (a * b + 0x8000) >> 16
MulRound(a, b) ==
  ((a \div 256) * b + ((a % 256) * b + 32768) \div 256) \div 256

divide(n, d) ==
  LET q == MulRound(n * 2^Shift(d), reciprocal(d * 2^Shift(d)))
  IN IF q <= Max THEN q ELSE Max

\* floor(n * 65536 / d), eight bits at a time
Exact(n, d) ==
  LET r0 == n % d
      r1 == (r0 * 256) % d
  IN (n \div d) * 65536 + ((r0 * 256) \div d) * 256 + (r1 * 256) \div d

----------------------------------------------------------------------------
(* Where the GTE divides (numerator < 2 * divisor, cpu/gte/mod.rs:1286) the
   quotient is at most two units below and three units above the exact one,
   and never above 0x1ffff: the table, its rounded index, the Newton-Raphson
   step and the two roundings lose no more than that for any divisor. *)
DivisionsAccurate ==
  \A d \in Divisors : \A n \in Numerators(d) :
    /\ divide(n, d) <= Max
    /\ divide(n, d) - Exact(n, d) \in -2 .. 3
=============================================================================
