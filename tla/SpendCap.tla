------------------------------ MODULE SpendCap ------------------------------
(***************************************************************************)
(* What the spend cap of ONE alias promises, told with running totals.     *)
(*                                                                         *)
(* The proxy admits a request only after holding its estimated cost        *)
(* against the alias's cap, and turns the hold into a charge (or drops it)  *)
(* once the upstream call is over.  This module forgets requests, rows and *)
(* handles: it keeps what is charged, what is held, the highest cap the    *)
(* operator ever configured, and the excess: what was put on the books      *)
(* without having been held first (a charge above its estimate, or the      *)
(* spend of a request that ran while no cap was configured).               *)
(*                                                                         *)
(* SpendLedger (rows of pending_charges and spend_log) implements it, one  *)
(* instance per alias.                                                     *)
(***************************************************************************)
EXTENDS Integers

CONSTANT Amount         \* the token amounts a step may move, numbers from Nat

VARIABLES
    committed,          \* sum of the alias's spend_log rows
    held,               \* sum of the alias's pending_charges estimates
    limit,              \* the highest spend_cap configured so far
    excess              \* tokens charged that no hold had set aside

vars == <<committed, held, limit, excess>>

TypeOK ==
    /\ committed \in Nat
    /\ held \in Nat
    /\ limit \in Nat
    /\ excess \in Nat

Init ==
    /\ committed = 0
    /\ held = 0
    /\ excess = 0
    /\ limit \in Amount

-----------------------------------------------------------------------------
\* A request is admitted: its estimate fits under a cap that was configured.
Admit ==
    \E e \in Amount :
        /\ committed + held + e <= limit
        /\ held' = held + e
        /\ UNCHANGED <<committed, limit, excess>>

\* Holds worth freed leave the table and paid tokens are charged for them
\* (paid = 0: they were refunded).  over is the part no hold had set aside.
Resolve ==
    \E freed \in Amount :
        /\ freed <= held
        /\ held' = held - freed
        /\ \E paid \in Amount :
              /\ committed' = committed + paid
              /\ \E over \in Amount :
                    /\ paid - freed <= over
                    /\ excess' = excess + over
        /\ UNCHANGED limit

\* A request that ran without a cap leaves its usage in the log.
Record ==
    \E paid \in Amount :
        /\ committed' = committed + paid
        /\ excess' = excess + paid
        /\ UNCHANGED <<held, limit>>

\* The operator sets a cap; the limit remembers the highest one.
Configure ==
    \E c \in Amount :
        /\ limit' = IF c > limit THEN c ELSE limit
        /\ UNCHANGED <<committed, held, excess>>

\* Log rows older than the retention period are pruned, with their excess.
Forget ==
    \E gone \in Amount :
        /\ gone <= committed
        /\ committed' = committed - gone
        /\ \E over \in Amount :
              /\ over <= gone
              /\ over <= excess
              /\ excess' = excess - over
        /\ UNCHANGED <<held, limit>>

Next ==
    \/ Admit
    \/ Resolve
    \/ Record
    \/ Configure
    \/ Forget

Spec == Init /\ [][Next]_vars

-----------------------------------------------------------------------------
(***************************************************************************)
(* The cap is a limit on commitments, not only on charges: whatever the    *)
(* interleaving of admissions, settlements, refunds and sweeps, what is    *)
(* charged plus what is held never exceeds the highest cap configured by   *)
(* more than what was charged without having been held.  While every       *)
(* charge stays at or below its estimate the cap is a hard limit.          *)
(***************************************************************************)
WithinLimit == committed + held <= limit + excess

=============================================================================
