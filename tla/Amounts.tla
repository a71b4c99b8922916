------------------------------ MODULE Amounts -------------------------------
(***************************************************************************)
(* The Amount type of core/amount.cpp: non-negative int64 units whose      *)
(* operations throw instead of wrapping, and the fee split built on them.  *)
(* MaxAmount stands for the largest int64; instances choose it small so    *)
(* that the overflow checks are reached.                                   *)
(***************************************************************************)
EXTENDS Integers

CONSTANT MaxAmount

ASSUME MaxAmountAssumption == MaxAmount \in Nat

Amount == 0 .. MaxAmount

\* Faulty variant: an addition that is not checked.
AddFitsAny(a, b) == TRUE

\* checked_add throws ArithmeticOverflow exactly when this is false.
AddFits(a, b) == a + b <= MaxAmount

BpsScale == 10000

\* split_fee: the fee is rounded down and the net is what remains.
FeeOf(gross, bps) == (gross * bps) \div BpsScale
NetOf(gross, bps) == gross - FeeOf(gross, bps)

(***************************************************************************)
(* The outcomes of split_fee.  The overflow test of mul_bps_floor divides  *)
(* by bps before it asks whether bps is zero, so a zero fee is undefined   *)
(* behaviour: a build may die on the division (x86), may read the quotient *)
(* as zero and go on (AArch64), or may drop the test "bps != 0" that the   *)
(* division makes redundant and report an overflow.                        *)
(***************************************************************************)
QuoteResults(gross, bps) ==
  IF bps \notin 0 .. BpsScale THEN {"PolicyViolation"}
  ELSE IF bps = 0
       THEN {"none", "Trap"} \cup (IF gross > 0 THEN {"ArithmeticOverflow"} ELSE {})
  ELSE IF gross > MaxAmount \div bps THEN {"ArithmeticOverflow"}
  ELSE {"none"}
=============================================================================
