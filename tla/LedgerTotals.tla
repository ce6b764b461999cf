---------------------------- MODULE LedgerTotals ----------------------------
(* The totals of one alias in SpendLedger, and the cap they keep: SpendCap. *)
EXTENDS SpendLedger, FiniteSetsExt

CONSTANTS
    Tracked,            \* the alias whose totals are followed
    Amount              \* what one step may move on them

ASSUME TotalsAssumption == Tracked \in Alias /\ Amount \subseteq Nat

LimitOf(a) == IF caps_seen[a] = {} THEN 0 ELSE Max(caps_seen[a])

Cap == INSTANCE SpendCap WITH
          committed <- Committed(Tracked),
          held      <- Held(Tracked),
          limit     <- LimitOf(Tracked),
          excess    <- Excess(Tracked)

(***************************************************************************)
(* Row by row, the ledger keeps the promise of SpendCap for each alias:    *)
(* what is charged plus what is held never exceeds the highest configured  *)
(* cap by more than what was charged without a hold.  A sum read outside   *)
(* the transaction, a hold dropped before its charge is written or a      *)
(* charge written twice breaks it.                                         *)
(***************************************************************************)
ImplementsCap == Cap!Spec

=============================================================================
