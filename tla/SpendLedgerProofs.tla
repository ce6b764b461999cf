------------------------- MODULE SpendLedgerProofs -------------------------
(***************************************************************************)
(* Every hold is resolved once, for every set of handles, aliases and      *)
(* amounts and every order of calls.  The sums over rows, and with them    *)
(* the refinement of SpendCap, are the subject of LedgerTotalsProofs.      *)
(***************************************************************************)
EXTENDS SpendLedger, TLAPS

\* ResolvedOnce is inductive only together with the types and with the
\* one-row-per-handle shape of the tables: a sweep charges a handle once
\* because no two rows carry it.
LedgerInv == LedgerTypeOK /\ ResolvedOnce /\ RowsDistinct

USE LedgerAssumption

-----------------------------------------------------------------------------
(* The fail-closed charge of a hold is an amount that can be stored. *)
LEMMA ChargeIsNat ==
    ASSUME LedgerTypeOK, NEW row \in HoldRow
    PROVE  /\ FailClosedCharge(row) \in Nat
           /\ FailClosedCharge(row) >= GLOBAL_CEILING_TOKENS
           /\ FailClosedCharge(row) >= row.estimate
<1>1. row.alias \in Alias /\ row.estimate \in Nat
  BY DEF HoldRow
<1>2. ceiling_override[row.alias] \in OverrideValue \cup {NULL}
  BY <1>1 DEF LedgerTypeOK
<1>3. ASSUME NEW v \in OverrideValue \cup {NULL}
      PROVE  EffectiveCeiling(v) \in Nat /\ EffectiveCeiling(v) >= GLOBAL_CEILING_TOKENS
  <2>1. CASE v = NULL
    BY <2>1 DEF EffectiveCeiling
  <2>2. CASE v # NULL
    BY <2>2 DEF EffectiveCeiling, MaxOf
  <2>3. QED
    BY <2>1, <2>2
<1> DEFINE c == EffectiveCeiling(ceiling_override[row.alias])
<1>4. c \in Nat /\ c >= GLOBAL_CEILING_TOKENS
  BY <1>2, <1>3
<1>5. FailClosedCharge(row) = IF row.estimate > c THEN row.estimate ELSE c
  BY DEF FailClosedCharge, MaxOf
<1> HIDE DEF c
<1>6. QED
  BY <1>1, <1>4, <1>5

(* Billing any set of holds keeps the invariant: each of them leaves the
   table and produces its first log row. *)
LEMMA BillStep ==
    ASSUME LedgerInv, NEW rows, rows \subseteq pending, NEW tokens \in [rows -> Nat],
           Bill(rows, tokens)
    PROVE  LedgerInv'
<1> DEFINE billed == {row.handle : row \in rows}
<1>1. pending \subseteq HoldRow
  BY DEF LedgerInv, LedgerTypeOK
<1>2. billed \subseteq HeldHandles
  BY DEF HeldHandles
<1>3. \A h \in Handle : charged'[h] = IF h \in billed THEN charged[h] + 1 ELSE charged[h]
  BY DEF Bill, Origin
<1>4. HeldHandles' = HeldHandles \ billed
  <2>1. ASSUME NEW row \in pending, row \notin rows PROVE row.handle \notin billed
    BY <2>1 DEF LedgerInv, RowsDistinct
  <2>2. QED
    BY <2>1 DEF HeldHandles, Bill
<1>5. LedgerTypeOK'
  <2>1. \A row \in rows : ChargeRow(row, tokens[row]) \in LogRow
    BY <1>1 DEF ChargeRow, LogRow, HoldRow, LedgerInv, LedgerTypeOK, Origin
  <2>2. spend_log' \subseteq LogRow
    BY <2>1 DEF Bill, LedgerInv, LedgerTypeOK
  <2>3. charged' \in [Origin -> Nat]
    BY DEF Bill, LedgerInv, LedgerTypeOK
  <2>4. QED
    BY <2>2, <2>3 DEF Bill, LedgerInv, LedgerTypeOK, config
<1>6. ResolvedOnce'
  <2>1. issued' = issued /\ refunded' = refunded
    BY DEF Bill
  <2>2. ASSUME NEW h \in Handle
        PROVE  charged'[h] = IF h \in issued \ (HeldHandles' \cup refunded) THEN 1 ELSE 0
    <3>1. CASE h \in billed
      <4>1. h \in HeldHandles /\ h \in issued /\ h \notin refunded /\ charged[h] = 0
        BY <3>1, <1>2 DEF LedgerInv, ResolvedOnce
      <4>2. charged'[h] = 1
        BY <4>1, <3>1, <1>3
      <4>3. h \in issued \ (HeldHandles' \cup refunded)
        BY <4>1, <1>4, <3>1
      <4>4. QED
        BY <4>2, <4>3
    <3>2. CASE h \notin billed
      BY <3>2, <1>3, <1>4 DEF LedgerInv, ResolvedOnce
    <3>3. QED
      BY <3>1, <3>2
  <2>3. QED
    BY <2>1, <2>2, <1>4 DEF LedgerInv, ResolvedOnce
<1>7. RowsDistinct'
  <2>1. \A r1, r2 \in pending' : r1.handle = r2.handle => r1 = r2
    BY DEF Bill, LedgerInv, RowsDistinct
  <2>2. ASSUME NEW row \in spend_log' PROVE row.nth < charged'[row.origin]
    <3>1. CASE row \in spend_log
      <4>1. row.origin \in Origin /\ row.nth \in Nat /\ charged[row.origin] \in Nat
        BY <3>1 DEF LedgerInv, LedgerTypeOK, LogRow
      <4>2. row.nth < charged[row.origin]
        BY <3>1 DEF LedgerInv, RowsDistinct
      <4>3. charged'[row.origin] \in {charged[row.origin], charged[row.origin] + 1}
        BY <4>1 DEF Bill
      <4>4. QED
        BY <4>1, <4>2, <4>3
    <3>2. CASE row \notin spend_log
      <4>1. PICK r \in rows : row = ChargeRow(r, tokens[r])
        BY <3>2 DEF Bill
      <4>2. r.handle \in Origin /\ charged[r.handle] \in Nat
        BY <1>1 DEF HoldRow, Origin, LedgerInv, LedgerTypeOK
      <4>3. charged'[r.handle] = charged[r.handle] + 1
        BY <4>2 DEF Bill
      <4>4. row.nth = charged[r.handle] /\ row.origin = r.handle
        BY <4>1 DEF ChargeRow
      <4>5. QED
        BY <4>2, <4>3, <4>4
    <3>3. QED
      BY <3>1, <3>2
  <2>3. QED
    BY <2>1, <2>2 DEF RowsDistinct
<1>8. QED
  BY <1>5, <1>6, <1>7 DEF LedgerInv

-----------------------------------------------------------------------------
(* A new hold takes a handle nobody had. *)
LEMMA HoldStep ==
    ASSUME LedgerInv, NEW h \in Handle, NEW a \in Alias, NEW e \in Estimate,
           NEW cap, Hold(h, a, e, cap)
    PROVE  LedgerInv'
<1> DEFINE new == [handle |-> h, alias |-> a, estimate |-> e]
<1>1. h \notin issued /\ pending' = pending \cup {new} /\ issued' = issued \cup {h}
  BY DEF Hold
<1>2. HeldHandles' = HeldHandles \cup {h}
  <2>1. new.handle = h
    OBVIOUS
  <2>2. HeldHandles' = {row.handle : row \in pending \cup {new}}
    BY <1>1 DEF HeldHandles
  <2> HIDE DEF new
  <2>3. QED
    BY <2>1, <2>2 DEF HeldHandles
<1>3. LedgerTypeOK'
  BY <1>1 DEF Hold, LedgerInv, LedgerTypeOK, HoldRow, config
<1>4. ResolvedOnce'
  BY <1>1, <1>2 DEF Hold, LedgerInv, ResolvedOnce
<1>5. RowsDistinct'
  <2>1. \A row \in pending : row.handle # h
    BY <1>1 DEF LedgerInv, ResolvedOnce, HeldHandles
  <2>2. QED
    BY <1>1, <2>1 DEF Hold, LedgerInv, RowsDistinct
<1>6. QED
  BY <1>3, <1>4, <1>5 DEF LedgerInv

(* A refund removes the hold, or finds it gone and changes nothing. *)
LEMMA RefundStep ==
    ASSUME LedgerInv, NEW h \in issued, Refund(h)
    PROVE  LedgerInv'
<1>1. h \in Handle
  BY DEF LedgerInv, LedgerTypeOK
<1>2. HeldHandles' = HeldHandles \ {h}
  BY DEF Refund, HeldHandles, Rows
<1>3. refunded' = IF h \in HeldHandles THEN refunded \cup {h} ELSE refunded
  BY DEF Refund, HeldHandles, Rows
<1>4. LedgerTypeOK'
  BY <1>1 DEF Refund, LedgerInv, LedgerTypeOK, config
<1>5. ResolvedOnce'
  BY <1>1, <1>2, <1>3 DEF Refund, LedgerInv, ResolvedOnce
<1>6. RowsDistinct'
  BY DEF Refund, LedgerInv, RowsDistinct
<1>7. QED
  BY <1>4, <1>5, <1>6 DEF LedgerInv

(* A direct row is new: its id was never charged. *)
LEMMA RecordStep ==
    ASSUME LedgerInv, NEW o \in DirectRow, NEW a \in Alias, NEW t \in Usage \cup {0},
           RecordSpend(o, a, t)
    PROVE  LedgerInv'
<1> DEFINE new == [origin |-> o, nth |-> 0, alias |-> a, tokens |-> t, estimate |-> 0]
<1>1. /\ o \in Origin
      /\ o \notin Handle
      /\ charged[o] = 0
      /\ spend_log' = spend_log \cup {new}
      /\ charged' = [charged EXCEPT ![o] = 1]
  BY DEF RecordSpend, Origin
<1>2. HeldHandles' = HeldHandles
  BY DEF RecordSpend, HeldHandles
<1>3. LedgerTypeOK'
  <2>1. new \in LogRow
    BY <1>1 DEF LogRow
  <2>2. charged' \in [Origin -> Nat]
    BY <1>1 DEF LedgerInv, LedgerTypeOK
  <2>3. QED
    BY <1>1, <2>1, <2>2 DEF RecordSpend, LedgerInv, LedgerTypeOK, config
<1>4. ResolvedOnce'
  <2>1. \A h \in Handle : charged'[h] = charged[h]
    BY <1>1 DEF LedgerInv, LedgerTypeOK, Origin
  <2>2. QED
    BY <1>2, <2>1 DEF RecordSpend, LedgerInv, ResolvedOnce
<1>5. RowsDistinct'
  <2>1. ASSUME NEW row \in spend_log' PROVE row.nth < charged'[row.origin]
    <3>1. CASE row \in spend_log
      <4>1. row.origin \in Origin /\ row.nth \in Nat /\ row.nth < charged[row.origin]
        BY <3>1 DEF LedgerInv, LedgerTypeOK, LogRow, RowsDistinct
      <4>2. row.origin # o
        BY <4>1, <1>1
      <4>3. QED
        BY <4>1, <4>2, <1>1 DEF LedgerInv, LedgerTypeOK
    <3>2. CASE row = new
      BY <3>2, <1>1 DEF LedgerInv, LedgerTypeOK
    <3>3. QED
      BY <3>1, <3>2, <1>1
  <2>2. QED
    BY <2>1 DEF RecordSpend, LedgerInv, RowsDistinct
<1>6. QED
  BY <1>3, <1>4, <1>5 DEF LedgerInv

-----------------------------------------------------------------------------
(* Ageing, configuration and pruning leave the holds' fate alone. *)
LEMMA EnvironmentStep ==
    ASSUME LedgerInv,
           \/ \E h \in issued : GrowOld(h)
           \/ \E a \in Alias, cap \in CapValue \cup {NULL} : SetSpendCap(a, cap)
           \/ \E a \in Alias, v \in OverrideValue \cup {NULL} : SetCeilingOverride(a, v)
           \/ \E old \in SUBSET spend_log : PruneOldSpendLog(old)
           \/ UNCHANGED ledgerVars
    PROVE  LedgerInv'
<1>1. /\ pending' = pending /\ issued' = issued /\ refunded' = refunded
      /\ charged' = charged /\ spend_log' \subseteq spend_log
  BY DEF GrowOld, SetSpendCap, SetCeilingOverride, PruneOldSpendLog, ledgerVars
<1>2. LedgerTypeOK'
  <2>1. CASE \E h \in issued : GrowOld(h)
    BY <2>1 DEF GrowOld, config, LedgerInv, LedgerTypeOK
  <2>2. CASE \E a \in Alias, cap \in CapValue \cup {NULL} : SetSpendCap(a, cap)
    BY <2>2 DEF SetSpendCap, LedgerInv, LedgerTypeOK
  <2>3. CASE \E a \in Alias, v \in OverrideValue \cup {NULL} : SetCeilingOverride(a, v)
    BY <2>3 DEF SetCeilingOverride, LedgerInv, LedgerTypeOK
  <2>4. CASE \E old \in SUBSET spend_log : PruneOldSpendLog(old)
    BY <2>4 DEF PruneOldSpendLog, config, LedgerInv, LedgerTypeOK
  <2>5. CASE UNCHANGED ledgerVars
    BY <2>5 DEF ledgerVars, config, LedgerInv, LedgerTypeOK
  <2>6. QED
    BY <2>1, <2>2, <2>3, <2>4, <2>5
<1>3. ResolvedOnce'
  BY <1>1 DEF LedgerInv, ResolvedOnce, HeldHandles
<1>4. RowsDistinct'
  BY <1>1 DEF LedgerInv, RowsDistinct
<1>5. QED
  BY <1>2, <1>3, <1>4 DEF LedgerInv

LEMMA LedgerInvInit == LedgerInit => LedgerInv
BY DEF LedgerInit, LedgerInv, LedgerTypeOK, ResolvedOnce, RowsDistinct, HeldHandles, Origin

LEMMA LedgerInvStep == LedgerInv /\ [LedgerNext]_ledgerVars => LedgerInv'
<1> SUFFICES ASSUME LedgerInv, [LedgerNext]_ledgerVars
             PROVE  LedgerInv'
  OBVIOUS
<1>1. CASE \E h \in Handle, a \in Alias, e \in Estimate :
              \E cap \in caps_seen[a] : Hold(h, a, e, cap)
  BY <1>1, HoldStep
<1>2. CASE \E h \in issued, actual \in Usage : Settle(h, actual)
  <2>1. PICK h \in issued, actual \in Usage : Settle(h, actual)
    BY <1>2
  <2> DEFINE tokens == [row \in Rows(h) |-> actual]
  <2>2. Rows(h) \subseteq pending /\ tokens \in [Rows(h) -> Nat]
    BY DEF Rows
  <2>3. Bill(Rows(h), tokens)
    BY <2>1 DEF Settle
  <2> HIDE DEF tokens
  <2>4. QED
    BY <2>2, <2>3, BillStep
<1>3. CASE \E h \in issued : SettleAtEstimate(h)
  <2>1. PICK h \in issued : Bill(Rows(h), FailClosedCharges(Rows(h)))
    BY <1>3 DEF SettleAtEstimate
  <2>2. Rows(h) \subseteq pending /\ Rows(h) \subseteq HoldRow
    BY DEF Rows, LedgerInv, LedgerTypeOK
  <2>3. FailClosedCharges(Rows(h)) \in [Rows(h) -> Nat]
    BY <2>2, ChargeIsNat DEF LedgerInv, FailClosedCharges
  <2>4. QED
    BY <2>1, <2>2, <2>3, BillStep
<1>4. CASE \E h \in issued : Refund(h)
  BY <1>4, RefundStep
<1>5. CASE Sweep
  <2>1. Bill(StaleRows, FailClosedCharges(StaleRows))
    BY <1>5 DEF Sweep
  <2>2. StaleRows \subseteq pending /\ StaleRows \subseteq HoldRow
    BY DEF StaleRows, LedgerInv, LedgerTypeOK
  <2>3. FailClosedCharges(StaleRows) \in [StaleRows -> Nat]
    BY <2>2, ChargeIsNat DEF LedgerInv, FailClosedCharges
  <2>4. QED
    BY <2>1, <2>2, <2>3, BillStep
<1>6. CASE \E o \in DirectRow, a \in Alias, t \in Usage \cup {0} : RecordSpend(o, a, t)
  BY <1>6, RecordStep
<1>7. QED
  BY <1>1, <1>2, <1>3, <1>4, <1>5, <1>6, EnvironmentStep DEF LedgerNext

(* A handle that hold() returned is still held, was refunded, or was charged
   exactly once, for any number of holds, aliases and calls in any order. *)
THEOREM HoldsResolvedOnce == LedgerSpec => [](LedgerTypeOK /\ ResolvedOnce)
<1>1. LedgerInv => LedgerTypeOK /\ ResolvedOnce
  BY DEF LedgerInv
<1>2. QED
  BY <1>1, LedgerInvInit, LedgerInvStep, PTL DEF LedgerSpec

=============================================================================
