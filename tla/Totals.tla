------------------------------- MODULE Totals -------------------------------
(***************************************************************************)
(* The total of a ledger: the sum of a function with natural values,       *)
(* counted rather than folded.  A balance f[d] owns the units <<d, 1>> to  *)
(* <<d, f[d]>>, and the total is the number of units.  In this form the    *)
(* effect of one update on the total follows from facts about cardinality, *)
(* without an induction over the domain (TotalsProofs).                    *)
(***************************************************************************)
EXTENDS Integers, FiniteSets

Units(f) == UNION {{d} \X (1 .. f[d]) : d \in DOMAIN f}

Total(f) == Cardinality(Units(f))
=============================================================================
