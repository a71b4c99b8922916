-------------------------------- MODULE Sums --------------------------------
(***************************************************************************)
(* Sums of natural-number weights over a finite set.  The ledger and the   *)
(* reports add amounts over accounts and over packets; here such a sum is  *)
(* the number of weight units, each unit being a pair <<element, index>>.  *)
(* Counting units needs no recursion, so every law of the sum that the     *)
(* proofs use follows from the laws of cardinality.                        *)
(***************************************************************************)
EXTENDS Integers, FiniteSets

\* The units that the weight function w gives to the element x.
UnitsOf(x, w) == {x} \X (1 .. w[x])

\* All the units of the elements of S.
Units(S, w) == UNION {UnitsOf(x, w) : x \in S}

\* The sum of w over S.
Total(S, w) == Cardinality(Units(S, w))
=============================================================================
