------------------------------- MODULE Totals -------------------------------
(***************************************************************************)
(* SUM over the rows of a query, or over the entries of a map: f gives     *)
(* each row its amount.  A total is the number of units there are, f[x] of *)
(* them to each x, so that what the library proves of cardinalities can be *)
(* used of sums (a fold over a set has no induction to reason about it).   *)
(***************************************************************************)
EXTENDS Integers, FiniteSets

Units(f) == UNION {{x} \X (1..f[x]) : x \in DOMAIN f}

Total(f) == Cardinality(Units(f))

=============================================================================
