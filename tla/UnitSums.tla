------------------------------ MODULE UnitSums ------------------------------
(***************************************************************************)
(* Sums of amounts of money.  An amount is a natural number of units, and  *)
(* the sum of the amounts of a finite set S of payments is the number of   *)
(* units they hold together: the units of a payment s are the pairs        *)
(* <<s, 1>>, ..., <<s, amount[s]>>.  Stated this way, and not as a fold,   *)
(* the facts about sums follow from the library's facts about cardinality, *)
(* without an induction.                                                   *)
(***************************************************************************)
EXTENDS Naturals, FiniteSets

UnitsOf(amount, s) == {s} \X (1 .. amount[s])

Units(amount, S) == UNION { UnitsOf(amount, s) : s \in S }

SumOf(amount, S) == Cardinality(Units(amount, S))

=============================================================================
