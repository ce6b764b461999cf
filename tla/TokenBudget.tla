---------------------------- MODULE TokenBudget ----------------------------
(***************************************************************************)
(* The daily, weekly and monthly token budgets of one alias                *)
(* (TokenBudgetRule in proxy/rules.py) and the in-memory reservation that  *)
(* proxy_request (proxy/app.py) releases when a request ends.              *)
(*                                                                         *)
(* evaluate and release_reservation run under the connection's lock: each  *)
(* is one step.  Reservations of different aliases never meet, so one      *)
(* alias is enough.                                                        *)
(***************************************************************************)
EXTENDS Integers, FiniteSetsExt, Totals

CONSTANTS
    Request,
    Estimate,       \* max_tokens of the request bodies
    Actual,         \* tokens a request really uses
    BudgetValue,    \* configured budgets
    NULL,           \* no budget configured
    MayEscape       \* may an exception leave the handler uncaught?

ASSUME BudgetAssumption ==
    /\ IsFiniteSet(Request)
    /\ Estimate \subseteq Nat \ {0}
    /\ Actual \subseteq Nat
    /\ BudgetValue \subseteq Nat
    /\ NULL \notin BudgetValue
    /\ MayEscape \in BOOLEAN

Period == {"daily", "weekly", "monthly"}

VARIABLES
    budget,         \* enrollment_config.token_budget_*
    log,            \* spend_log, as tokens per age class
    reserved,       \* TokenBudgetRule._reserved[alias]
    stage,          \* where each request is
    estimate,       \* what it will hand to release_spend_reservation
    got             \* history: what evaluate really reserved for it

budgetVars == <<budget, log, reserved, stage, estimate, got>>

\* Age classes of log rows: up to a day, up to a week, up to a month.
Age == 1..3

Window == [daily |-> 1, weekly |-> 2, monthly |-> 3]

BudgetTypeOK ==
    /\ budget \in [Period -> BudgetValue \cup {NULL}]
    /\ log \in [Age -> Nat]
    /\ reserved \in Nat
    /\ stage \in [Request -> {"new", "running", "release", "done", "lost"}]
    /\ estimate \in [Request -> Estimate \cup {0}]
    /\ got \in [Request -> Nat]

BudgetInit ==
    /\ budget \in [Period -> BudgetValue \cup {NULL}]
    /\ log = [age \in Age |-> 0]
    /\ reserved = 0
    /\ stage = [r \in Request |-> "new"]
    /\ estimate = [r \in Request |-> 0]
    /\ got = [r \in Request |-> 0]

-----------------------------------------------------------------------------
Used(p) == Total([age \in 1..Window[p] |-> log[age]])

Active == {p \in Period : budget[p] # NULL}

\* Some budget is already used up by the log and the reservations in flight.
Exhausted == \E p \in Active : Used(p) + reserved >= budget[p]

\* Room under the most constrained budget.
MinRemaining == Min({budget[p] - Used(p) - reserved : p \in Active})

Reservation(e) == IF e < MinRemaining THEN e ELSE MinRemaining

Evaluate(r) ==
    /\ stage[r] = "new"
    /\ \E e \in Estimate :
          /\ estimate' = [estimate EXCEPT ![r] = e]
          /\ \/ /\ Active = {}
                /\ stage' = [stage EXCEPT ![r] = "running"]
                /\ UNCHANGED <<reserved, got>>
             \/ /\ Active # {} /\ Exhausted
                /\ stage' = [stage EXCEPT ![r] = "release"]
                /\ UNCHANGED <<reserved, got>>
             \/ /\ Active # {} /\ ~Exhausted
                /\ stage' = [stage EXCEPT ![r] = "running"]
                /\ reserved' = reserved + Reservation(e)
                /\ got' = [got EXCEPT ![r] = Reservation(e)]
    /\ UNCHANGED <<budget, log>>

\* A database error denies the request; nothing was reserved.
EvaluateRaises(r) ==
    /\ stage[r] = "new"
    /\ \E e \in Estimate : estimate' = [estimate EXCEPT ![r] = e]
    /\ stage' = [stage EXCEPT ![r] = "release"]
    /\ UNCHANGED <<budget, log, reserved, got>>

\* Mutant: a denial by a later rule releases nothing.
FailUnreleased(r) ==
    /\ stage[r] = "running"
    /\ stage' = [stage EXCEPT ![r] = "done"]
    /\ UNCHANGED <<budget, log, reserved, estimate, got>>

\* A later rule denies or raises, or the request fails before it is answered.
Fail(r) ==
    /\ stage[r] = "running"
    /\ stage' = [stage EXCEPT ![r] = "release"]
    /\ UNCHANGED <<budget, log, reserved, estimate, got>>

\* The background task settles or records what the request used ...
RecordUsage(r) ==
    /\ stage[r] = "running"
    /\ \E tokens \in Actual : log' = [log EXCEPT ![1] = @ + tokens]
    /\ stage' = [stage EXCEPT ![r] = "release"]
    /\ UNCHANGED <<budget, reserved, estimate, got>>

\* An exception no handler catches while the answer is relayed, or a refund
\* that raises on the failure exit: the reservation is not released.
Escape(r) ==
    /\ MayEscape
    /\ stage[r] = "running"
    /\ stage' = [stage EXCEPT ![r] = "lost"]
    /\ UNCHANGED <<budget, log, reserved, estimate, got>>

\* Mutant: no floor at zero.
ReleasedBelowZero(amount) == reserved - amount

\* _release_into: by the full estimate, never below zero.
Released(amount) == IF reserved > amount THEN reserved - amount ELSE 0

\* ... and then releases; so does every failure and denial exit.
ReleaseReservation(r) ==
    /\ stage[r] = "release"
    /\ reserved' = Released(estimate[r])
    /\ stage' = [stage EXCEPT ![r] = "done"]
    /\ UNCHANGED <<budget, log, estimate, got>>

\* Log rows grow older and in the end leave the windows.
TimePasses ==
    /\ \/ log' = [log EXCEPT ![1] = 0, ![2] = @ + log[1]]
       \/ log' = [log EXCEPT ![2] = 0, ![3] = @ + log[2]]
       \/ log' = [log EXCEPT ![3] = 0]
    /\ UNCHANGED <<budget, reserved, stage, estimate, got>>

BudgetNext ==
    \/ \E r \in Request :
          \/ Evaluate(r) \/ EvaluateRaises(r) \/ Fail(r) \/ RecordUsage(r)
          \/ Escape(r) \/ ReleaseReservation(r)
    \/ TimePasses

BudgetSpec == BudgetInit /\ [][BudgetNext]_budgetVars

-----------------------------------------------------------------------------
InFlight == {r \in Request : stage[r] \in {"running", "release"}}

Outstanding(requests) == Total([r \in requests |-> got[r]])

(***************************************************************************)
(* The budget never counts more than what live (or lost) requests really   *)
(* reserved: whatever the order of evaluations, denials and releases, a    *)
(* request is not denied for tokens nobody holds.                          *)
(***************************************************************************)
NothingReservedTwice ==
    reserved <= Outstanding(InFlight \cup {r \in Request : stage[r] = "lost"})

(***************************************************************************)
(* "it must be released [...], or it leaks forever (no sweeper exists for  *)
(* it)" (app.py:656-658): once every request has ended, through a handler  *)
(* that catches it, no reservation is left to count against the next one.  *)
(***************************************************************************)
QuietMeansEmpty ==
    (InFlight = {} /\ \A r \in Request : stage[r] # "lost") => reserved = 0

(***************************************************************************)
(* The in-memory reservation stands for requests under way and for nothing *)
(* else: never for more than they reserved, and for nothing when all have  *)
(* ended.                                                                  *)
(***************************************************************************)
ReservationsReal == NothingReservedTwice /\ QuietMeansEmpty

=============================================================================
