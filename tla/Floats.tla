------------------------------- MODULE Floats -------------------------------
(***************************************************************************)
(* Floating-point arithmetic on amounts, as the capital model             *)
(* (economics/capital_model.cpp) does it in long doubles and the SDK       *)
(* (client/src/risk.ts) in doubles: every result is rounded to the nearest *)
(* number of the format, and of two that are equally near to the one whose *)
(* last digit is even.  A format is known by its mantissa, the power of    *)
(* two up to which it tells all integers apart.  Amounts are not negative, *)
(* and far below the largest exponent.                                     *)
(***************************************************************************)
EXTENDS Integers

CONSTANTS
  LongMantissa,   \* of a long double: 2^64 on x86-64, 2^113 or 2^53 elsewhere
  DoubleMantissa  \* of a number of JavaScript: 2^53

PowerOfTwo(n) == \A d \in 2 .. n : n % d = 0 => d % 2 = 0

\* Wide enough for a ratio near par to err by less than a basis point, and for the
\* basis points themselves.
ASSUME MantissaAssumption ==
  /\ LongMantissa \in Nat /\ LongMantissa > 70000 /\ PowerOfTwo(LongMantissa)
  /\ DoubleMantissa \in Nat /\ DoubleMantissa > 10000 /\ PowerOfTwo(DoubleMantissa)

\* A format, and the powers of two up to its mantissa, which are its divisors.
Format(M) == [mantissa |-> M, units |-> {u \in 1 .. M : M % u = 0}]

LongDouble == Format(LongMantissa)
Double     == Format(DoubleMantissa)

\* The integer nearest to a / b.
Nearest(a, b) ==
  LET q == a \div b
      r == a % b
  IN  IF 2 * r < b \/ (2 * r = b /\ q % 2 = 0) THEN q ELSE q + 1

\* The least power of two by which n is divided to less than m.
Scale(n, m, F) == CHOOSE u \in F.units : n \div u < m /\ (u = 1 \/ n \div (u \div 2) >= m)

\* How far apart the numbers of a format are that lie around n.
Unit(n, F) == Scale(n, F.mantissa, F)

\* An integer as a number of the format.
Rounded(n, F) == Unit(n, F) * Nearest(n, Unit(n, F))

\* The quotient of two integers as a number of the format, rounded down.  It is a
\* multiple of u when it is large; otherwise it lies below the power of two v,
\* where the format has M \div v numbers to the unit.  (Below one half it has
\* more, all of which are rounded down to zero.)
FlooredQuotient(a, b, F) ==
  LET u == Unit(a \div b, F)
      v == Scale(a \div (u * b), 1, F)
  IN  u * (Nearest(a * (F.mantissa \div v), u * b) \div (F.mantissa \div v))
=============================================================================
