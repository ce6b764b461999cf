---------------------------- MODULE MCLedgerConn ----------------------------
(* LedgerConn with two coroutines. *)
EXTENDS LedgerConn

Symmetry == Permutations(Task)
=============================================================================
