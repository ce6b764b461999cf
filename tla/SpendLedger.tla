---------------------------- MODULE SpendLedger ----------------------------
(***************************************************************************)
(* The durable write-ahead spend ledger (storage/spend_ledger.py): the     *)
(* pending_charges and spend_log tables, the two enrollment_config columns *)
(* the ledger reads, and the five operations of SpendLedger.               *)
(*                                                                         *)
(* Every operation runs in one transaction under the connection's lock and *)
(* rolls back on error, so each is one step here; LedgerConn opens them up *)
(* into statements.  The clients call in any order: settling twice,        *)
(* refunding what the sweeper billed and settling what was refunded are    *)
(* all legal calls.                                                        *)
(***************************************************************************)
EXTENDS Integers, FiniteSets, Totals

CONSTANTS
    Alias,                  \* enrolled key aliases
    Handle,                 \* hold handles (128-bit random: never reused)
    DirectRow,              \* ids of rows written by record_spend, no hold
    Estimate,               \* admission estimates
    Usage,                  \* token counts a provider may report
    CapValue,               \* values an operator sets spend_cap to
    OverrideValue,          \* integers found in ceiling_override
    NULL,                   \* SQL NULL, and a value int() cannot convert
    GLOBAL_CEILING_TOKENS,  \* the audited floor of a fail-closed charge
    SQLITE_INT64_MAX        \* largest integer a column can store

ASSUME LedgerAssumption ==
    /\ Estimate \subseteq Nat
    /\ Usage \subseteq Nat
    /\ CapValue \subseteq Nat /\ CapValue # {}
    /\ OverrideValue \subseteq Nat
    /\ NULL \notin CapValue \cup OverrideValue \cup Usage
    /\ GLOBAL_CEILING_TOKENS \in Nat
    /\ SQLITE_INT64_MAX \in Nat
    /\ GLOBAL_CEILING_TOKENS <= SQLITE_INT64_MAX
    /\ Handle \cap DirectRow = {}

VARIABLES
    pending,            \* table pending_charges
    stale,              \* handles held for longer than sweep_max_age_seconds
    spend_log,          \* table spend_log
    spend_cap,          \* enrollment_config.spend_cap, per alias
    ceiling_override,   \* enrollment_config.ceiling_override, per alias
    \* history, for the properties only
    issued,             \* handles hold() has returned
    refunded,           \* handles whose hold refund() deleted
    charged,            \* how many spend_log rows each hold has produced
    caps_seen           \* every cap configured so far, per alias

config  == <<spend_cap, ceiling_override, caps_seen>>
ledgerVars == <<pending, stale, spend_log, issued, refunded, charged, config>>

Origin == Handle \cup DirectRow

HoldRow == [handle : Handle, alias : Alias, estimate : Nat]

\* origin, nth and estimate are history: which hold the row settles, how
\* many rows that hold had before, and what had been set aside for it.
LogRow == [origin : Origin, nth : Nat, alias : Alias,
           tokens : Nat, estimate : Nat]

LedgerTypeOK ==
    /\ pending \subseteq HoldRow
    /\ stale \subseteq Handle
    /\ spend_log \subseteq LogRow
    /\ spend_cap \in [Alias -> CapValue \cup {NULL}]
    /\ ceiling_override \in [Alias -> OverrideValue \cup {NULL}]
    /\ issued \subseteq Handle
    /\ refunded \subseteq Handle
    /\ charged \in [Origin -> Nat]
    /\ caps_seen \in [Alias -> SUBSET CapValue]

LedgerInit ==
    /\ pending = {}
    /\ stale = {}
    /\ spend_log = {}
    /\ spend_cap \in [Alias -> CapValue \cup {NULL}]
    /\ ceiling_override \in [Alias -> OverrideValue \cup {NULL}]
    /\ issued = {}
    /\ refunded = {}
    /\ charged = [o \in Origin |-> 0]
    /\ caps_seen = [a \in Alias |-> {spend_cap[a]} \ {NULL}]

-----------------------------------------------------------------------------
(* Sums the transactions read *)

Committed(a) ==
    Total([row \in {r \in spend_log : r.alias = a} |-> row.tokens])

Held(a) ==
    Total([row \in {r \in pending : r.alias = a} |-> row.estimate])

\* What a charge comes to beyond what its hold had set aside.
Over(row) == IF row.tokens > row.estimate THEN row.tokens - row.estimate ELSE 0

\* The part of the log no hold had set aside.
Excess(a) ==
    Total([row \in {r \in spend_log : r.alias = a} |-> Over(row)])

(* Rows *)

Rows(h) == {row \in pending : row.handle = h}

ChargeRow(row, tokens) ==
    [origin |-> row.handle, nth |-> charged[row.handle], alias |-> row.alias,
     tokens |-> tokens, estimate |-> row.estimate]

MaxOf(m, n) == IF m > n THEN m ELSE n

\* NULL and unconvertible values fall back to the floor, and so does a value
\* too large to be stored as a charge: the override can only raise the floor.
EffectiveCeiling(override) ==
    IF override = NULL THEN GLOBAL_CEILING_TOKENS
    ELSE IF override > SQLITE_INT64_MAX THEN GLOBAL_CEILING_TOKENS
    ELSE MaxOf(override, GLOBAL_CEILING_TOKENS)

\* Mutant: the stored estimate, however small, with no ceiling under it.
ChargeTheEstimate(row) == row.estimate

FailClosedCharge(row) ==
    MaxOf(row.estimate, EffectiveCeiling(ceiling_override[row.alias]))

FailClosedCharges(rows) == [row \in rows |-> FailClosedCharge(row)]

-----------------------------------------------------------------------------
(* Operations *)

\* Mutant: what other requests hold is not counted.
FitsIgnoringHeld(a, estimate, cap) == Committed(a) + estimate <= cap

\* The whole hold fits: committed + held + estimate stays within the cap the
\* caller read.
Fits(a, estimate, cap) == Committed(a) + Held(a) + estimate <= cap

Hold(h, a, estimate, cap) ==
    /\ h \notin issued
    /\ Fits(a, estimate, cap)
    /\ pending' = pending \cup {[handle |-> h, alias |-> a, estimate |-> estimate]}
    /\ issued' = issued \cup {h}
    /\ UNCHANGED <<stale, spend_log, refunded, charged, config>>

\* Mutant: the INSERT without the DELETE.
BillKeepingHolds(rows, tokens) ==
    /\ spend_log' = spend_log \cup {ChargeRow(row, tokens[row]) : row \in rows}
    /\ charged' = [o \in Origin |->
                      IF \E row \in rows : row.handle = o
                      THEN charged[o] + 1 ELSE charged[o]]
    /\ UNCHANGED <<pending, stale, issued, refunded, config>>

\* Swap the holds in rows for one log row each; nothing if there is no hold.
Bill(rows, tokens) ==
    /\ pending' = pending \ rows
    /\ stale' = stale \ {row.handle : row \in rows}
    /\ spend_log' = spend_log \cup {ChargeRow(row, tokens[row]) : row \in rows}
    /\ charged' = [o \in Origin |->
                      IF \E row \in rows : row.handle = o
                      THEN charged[o] + 1 ELSE charged[o]]
    /\ UNCHANGED <<issued, refunded, config>>

Settle(h, actual) == Bill(Rows(h), [row \in Rows(h) |-> actual])

SettleAtEstimate(h) == Bill(Rows(h), FailClosedCharges(Rows(h)))

Refund(h) ==
    /\ pending' = pending \ Rows(h)
    /\ stale' = stale \ {h}
    /\ refunded' = IF Rows(h) # {} THEN refunded \cup {h} ELSE refunded
    /\ UNCHANGED <<spend_log, issued, charged, config>>

\* Mutant: the age comparison the wrong way round.
FreshRows == {row \in pending : row.handle \notin stale}

\* The sweeper bills every hold older than max_age, fail-closed.
StaleRows == {row \in pending : row.handle \in stale}

Sweep == Bill(StaleRows, FailClosedCharges(StaleRows))

-----------------------------------------------------------------------------
(* The rest of the system *)

\* A hold outlives sweep_max_age_seconds.
GrowOld(h) ==
    /\ Rows(h) # {}
    /\ h \notin stale
    /\ stale' = stale \cup {h}
    /\ UNCHANGED <<pending, spend_log, issued, refunded, charged, config>>

\* A request that found no cap records its usage without a hold.
RecordSpend(o, a, tokens) ==
    /\ charged[o] = 0
    /\ spend_log' = spend_log \cup
          {[origin |-> o, nth |-> 0, alias |-> a, tokens |-> tokens, estimate |-> 0]}
    /\ charged' = [charged EXCEPT ![o] = 1]
    /\ UNCHANGED <<pending, stale, issued, refunded, config>>

SetSpendCap(a, cap) ==
    /\ spend_cap' = [spend_cap EXCEPT ![a] = cap]
    /\ caps_seen' = [caps_seen EXCEPT ![a] = @ \cup ({cap} \ {NULL})]
    /\ UNCHANGED <<pending, stale, spend_log, ceiling_override,
                   issued, refunded, charged>>

SetCeilingOverride(a, override) ==
    /\ ceiling_override' = [ceiling_override EXCEPT ![a] = override]
    /\ UNCHANGED <<pending, stale, spend_log, spend_cap, caps_seen,
                   issued, refunded, charged>>

\* migrate_db, at every start, drops the log rows older than 90 days: any
\* subset of the log may be that old.
PruneOldSpendLog(old) ==
    /\ spend_log' = spend_log \ old
    /\ UNCHANGED <<pending, stale, issued, refunded, charged, config>>

LedgerNext ==
    \/ \E h \in Handle, a \in Alias, e \in Estimate :
          \E cap \in caps_seen[a] : Hold(h, a, e, cap)
    \/ \E h \in issued, actual \in Usage : Settle(h, actual)
    \/ \E h \in issued : SettleAtEstimate(h)
    \/ \E h \in issued : Refund(h)
    \/ Sweep
    \/ \E h \in issued : GrowOld(h)
    \/ \E o \in DirectRow, a \in Alias, t \in Usage \cup {0} : RecordSpend(o, a, t)
    \/ \E a \in Alias, cap \in CapValue \cup {NULL} : SetSpendCap(a, cap)
    \/ \E a \in Alias, v \in OverrideValue \cup {NULL} : SetCeilingOverride(a, v)
    \/ \E old \in SUBSET spend_log : PruneOldSpendLog(old)

LedgerSpec == LedgerInit /\ [][LedgerNext]_ledgerVars

-----------------------------------------------------------------------------
HeldHandles == {row.handle : row \in pending}

(***************************************************************************)
(* However settlements, fail-closed settlements, refunds, retries and      *)
(* sweeps of one hold interleave, the first of them wins and the others    *)
(* find no row: a handle that hold() returned is still held, or was        *)
(* refunded, or produced exactly one spend_log row, and no two of these.   *)
(***************************************************************************)
ResolvedOnce ==
    /\ HeldHandles \cup refunded \subseteq issued
    /\ HeldHandles \cap refunded = {}
    /\ \A h \in Handle :
          charged[h] = IF h \in issued \ (HeldHandles \cup refunded) THEN 1 ELSE 0

(***************************************************************************)
(* The tables are sets of rows, which is faithful only while no two rows   *)
(* coincide: pending_charges has one row per handle (its PRIMARY KEY), and *)
(* a row about to enter spend_log is never already there.                  *)
(***************************************************************************)
RowsDistinct ==
    /\ \A r1, r2 \in pending : r1.handle = r2.handle => r1 = r2
    /\ \A row \in spend_log : row.nth < charged[row.origin]

=============================================================================
