--------------------------- MODULE MCSpendLedger ---------------------------
(* SpendLedger on a small instance, and its refinement of SpendCap. *)
EXTENDS LedgerTotals, TLC

Symmetry == Permutations(Handle)

\* The totals are those the community modules compute.
ASSUME TotalIsSum ==
    \A f \in [{"x", "y", "z"} -> 0..3] :
        Total(f) = MapThenSumSet(LAMBDA x : f[x], DOMAIN f)
=============================================================================
