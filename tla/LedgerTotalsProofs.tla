------------------------- MODULE LedgerTotalsProofs -------------------------
(***************************************************************************)
(* The ledger's rows keep the cap of every alias: SpendLedger implements   *)
(* SpendCap, for any handles, aliases, estimates, usage and caps.  Each    *)
(* call moves rows in or out of the two tables; what that does to the sums *)
(* is one step of SpendCap, or none.  Then what SpendCap promises holds of *)
(* the rows.                                                               *)
(***************************************************************************)
EXTENDS LedgerTotals, SpendLedgerProofs, CountingTheorems

USE LedgerAssumption, TotalsAssumption

\* The sums are over finite tables, and of the caps seen one is the highest.
CapsBounded ==
    \A a \in Alias : caps_seen[a] # {} =>
        \E top \in caps_seen[a] : \A c \in caps_seen[a] : c <= top

TotalsInv ==
    /\ LedgerInv
    /\ IsFiniteSet(pending) /\ IsFiniteSet(spend_log)
    /\ CapsBounded

HoldsOf(a) == {row \in pending : row.alias = a}
ChargesOf(a) == {row \in spend_log : row.alias = a}

Tokens(rows) == [row \in rows |-> row.tokens]
Estimates(rows) == [row \in rows |-> row.estimate]
Overs(rows) == [row \in rows |-> Over(row)]

-----------------------------------------------------------------------------
(* Sums over rows *)

(* What is charged beyond the estimate is an amount, and covers the rest. *)
LEMMA OverType ==
    ASSUME NEW row \in LogRow
    PROVE  /\ row.tokens \in Nat /\ row.estimate \in Nat /\ Over(row) \in Nat
           /\ Over(row) <= row.tokens
           /\ row.tokens <= row.estimate + Over(row)
BY DEF LogRow, Over

(* The three columns of finitely many rows can be added up. *)
LEMMA ColumnsAddUp ==
    ASSUME NEW rows, IsFiniteSet(rows)
    PROVE  /\ rows \subseteq LogRow =>
                 Amounts(Tokens(rows)) /\ Amounts(Estimates(rows)) /\ Amounts(Overs(rows))
           /\ rows \subseteq HoldRow => Amounts(Estimates(rows))
<1>1. rows \subseteq HoldRow => \A row \in rows : row.estimate \in Nat
  BY DEF HoldRow
<1>2. QED
  BY <1>1, OverType DEF Amounts, Tokens, Estimates, Overs

(* Rows that join or leave a set of log rows carry their amounts with them. *)
LEMMA LogRowsMove ==
    ASSUME NEW all, NEW some, IsFiniteSet(all), all \subseteq LogRow, some \subseteq all
    PROVE  /\ Total(Tokens(all)) = Total(Tokens(all \ some)) + Total(Tokens(some))
           /\ Total(Overs(all)) = Total(Overs(all \ some)) + Total(Overs(some))
           /\ Total(Tokens(all \ some)) \in Nat /\ Total(Tokens(some)) \in Nat
           /\ Total(Overs(all \ some)) \in Nat /\ Total(Overs(some)) \in Nat
<1>1. Amounts(Tokens(all)) /\ Amounts(Overs(all))
  BY ColumnsAddUp
<1>2. /\ Amounts(Tokens(all \ some)) /\ Amounts(Tokens(some))
      /\ Total(Tokens(all)) = Total(Tokens(all \ some)) + Total(Tokens(some))
  <2>1. /\ DOMAIN Tokens(all) = DOMAIN Tokens(all \ some) \cup DOMAIN Tokens(some)
        /\ DOMAIN Tokens(all \ some) \cap DOMAIN Tokens(some) = {}
        /\ \A x \in DOMAIN Tokens(all \ some) : Tokens(all \ some)[x] = Tokens(all)[x]
        /\ \A x \in DOMAIN Tokens(some) : Tokens(some)[x] = Tokens(all)[x]
    BY DEF Tokens
  <2>2. QED
    BY <1>1, <2>1, TotalSplit
<1>3. /\ Amounts(Overs(all \ some)) /\ Amounts(Overs(some))
      /\ Total(Overs(all)) = Total(Overs(all \ some)) + Total(Overs(some))
  <2>1. /\ DOMAIN Overs(all) = DOMAIN Overs(all \ some) \cup DOMAIN Overs(some)
        /\ DOMAIN Overs(all \ some) \cap DOMAIN Overs(some) = {}
        /\ \A x \in DOMAIN Overs(all \ some) : Overs(all \ some)[x] = Overs(all)[x]
        /\ \A x \in DOMAIN Overs(some) : Overs(some)[x] = Overs(all)[x]
    BY DEF Overs
  <2>2. QED
    BY <1>1, <2>1, TotalSplit
<1>4. QED
  BY <1>2, <1>3, TotalType

(* The same for holds and their estimates. *)
LEMMA HoldRowsMove ==
    ASSUME NEW all, NEW some, IsFiniteSet(all), all \subseteq HoldRow, some \subseteq all
    PROVE  /\ Total(Estimates(all)) = Total(Estimates(all \ some)) + Total(Estimates(some))
           /\ Total(Estimates(all \ some)) \in Nat /\ Total(Estimates(some)) \in Nat
<1>1. Amounts(Estimates(all))
  BY ColumnsAddUp
<1>2. /\ DOMAIN Estimates(all) = DOMAIN Estimates(all \ some) \cup DOMAIN Estimates(some)
      /\ DOMAIN Estimates(all \ some) \cap DOMAIN Estimates(some) = {}
      /\ \A x \in DOMAIN Estimates(all \ some) : Estimates(all \ some)[x] = Estimates(all)[x]
      /\ \A x \in DOMAIN Estimates(some) : Estimates(some)[x] = Estimates(all)[x]
  BY DEF Estimates
<1>3. /\ Amounts(Estimates(all \ some)) /\ Amounts(Estimates(some))
      /\ Total(Estimates(all)) = Total(Estimates(all \ some)) + Total(Estimates(some))
  BY <1>1, <1>2, TotalSplit
<1>4. QED
  BY <1>3, TotalType

(* An alias's holds and charges are finitely many rows of the tables. *)
LEMMA RowsOf ==
    ASSUME TotalsInv, NEW a
    PROVE  /\ IsFiniteSet(HoldsOf(a)) /\ HoldsOf(a) \subseteq HoldRow
           /\ IsFiniteSet(ChargesOf(a)) /\ ChargesOf(a) \subseteq LogRow
           /\ Held(a) = Total(Estimates(HoldsOf(a)))
           /\ Committed(a) = Total(Tokens(ChargesOf(a)))
           /\ Excess(a) = Total(Overs(ChargesOf(a)))
           /\ Held(a) \in Nat /\ Committed(a) \in Nat /\ Excess(a) \in Nat
<1>1. HoldsOf(a) \in SUBSET pending /\ ChargesOf(a) \in SUBSET spend_log
  BY DEF HoldsOf, ChargesOf
<1>2. IsFiniteSet(HoldsOf(a)) /\ IsFiniteSet(ChargesOf(a))
  BY <1>1, FS_Subset DEF TotalsInv
<1>3. HoldsOf(a) \subseteq HoldRow /\ ChargesOf(a) \subseteq LogRow
  BY <1>1 DEF TotalsInv, LedgerInv, LedgerTypeOK
<1>4. /\ Held(a) = Total(Estimates(HoldsOf(a)))
      /\ Committed(a) = Total(Tokens(ChargesOf(a)))
      /\ Excess(a) = Total(Overs(ChargesOf(a)))
  BY DEF Held, Committed, Excess, Estimates, Tokens, Overs, HoldsOf, ChargesOf
<1>5. QED
  BY <1>2, <1>3, <1>4, ColumnsAddUp, TotalType

(* The limit is the highest of the caps seen, and zero when there was none. *)
LEMMA LimitIs ==
    ASSUME TotalsInv, NEW a \in Alias
    PROVE  /\ LimitOf(a) \in Nat
           /\ \A c \in caps_seen[a] : c <= LimitOf(a)
           /\ caps_seen[a] # {} => LimitOf(a) \in caps_seen[a]
           /\ caps_seen[a] = {} => LimitOf(a) = 0
<1>1. caps_seen[a] \subseteq Nat
  BY DEF TotalsInv, LedgerInv, LedgerTypeOK
<1>2. CASE caps_seen[a] = {}
  BY <1>2 DEF LimitOf
<1>3. CASE caps_seen[a] # {}
  <2>1. \E top \in caps_seen[a] : \A c \in caps_seen[a] : top >= c
    BY <1>1, <1>3 DEF TotalsInv, CapsBounded
  <2>2. LimitOf(a) \in caps_seen[a] /\ \A c \in caps_seen[a] : LimitOf(a) >= c
    BY <1>3, <2>1 DEF LimitOf, Max
  <2>3. QED
    BY <1>1, <1>3, <2>2
<1>4. QED
  BY <1>2, <1>3

-----------------------------------------------------------------------------
(* The invariant *)

LEMMA TotalsInvInit == LedgerInit => TotalsInv
<1> SUFFICES ASSUME LedgerInit PROVE TotalsInv
  OBVIOUS
<1>1. LedgerInv
  BY LedgerInvInit
<1>2. IsFiniteSet(pending) /\ IsFiniteSet(spend_log)
  BY FS_EmptySet DEF LedgerInit
<1>3. ASSUME NEW a \in Alias, caps_seen[a] # {}
      PROVE  \E top \in caps_seen[a] : \A c \in caps_seen[a] : c <= top
  <2>1. caps_seen[a] = {spend_cap[a]} \ {NULL}
    BY DEF LedgerInit
  <2>2. spend_cap[a] \in caps_seen[a] /\ spend_cap[a] \in Nat
    BY <1>3, <2>1 DEF LedgerInit
  <2>3. QED
    BY <2>1, <2>2
<1>4. QED
  BY <1>1, <1>2, <1>3 DEF TotalsInv, CapsBounded

(* A billing writes finitely many rows. *)
LEMMA ChargesFinite ==
    ASSUME NEW rows, NEW tokens, IsFiniteSet(rows)
    PROVE  IsFiniteSet({ChargeRow(row, tokens[row]) : row \in rows})
<1> DEFINE new == {ChargeRow(row, tokens[row]) : row \in rows}
           f == [row \in rows |-> ChargeRow(row, tokens[row])]
<1>1. f \in Surjection(rows, new)
  BY Fun_IsSurj
<1>2. QED
  BY <1>1, FS_Surjection

(* Billing leaves both tables finite. *)
LEMMA BillFinite ==
    ASSUME TotalsInv, NEW rows, rows \subseteq pending, NEW tokens, Bill(rows, tokens)
    PROVE  IsFiniteSet(pending') /\ IsFiniteSet(spend_log') /\ caps_seen' = caps_seen
<1>1. rows \in SUBSET pending /\ pending' \in SUBSET pending
  BY DEF Bill
<1>2. IsFiniteSet(rows) /\ IsFiniteSet(pending')
  BY <1>1, FS_Subset DEF TotalsInv
<1>3. IsFiniteSet(spend_log')
  <2> DEFINE new == {ChargeRow(row, tokens[row]) : row \in rows}
  <2>1. IsFiniteSet(new)
    BY <1>2, ChargesFinite
  <2>2. spend_log' = spend_log \cup new
    BY DEF Bill
  <2> HIDE DEF new
  <2>3. QED
    BY <2>1, <2>2, FS_Union DEF TotalsInv
<1>4. QED
  BY <1>2, <1>3 DEF Bill, config

(* What a call bills are holds, at amounts that are numbers. *)
LEMMA BillingCalls ==
    ASSUME TotalsInv,
           \/ \E h \in issued, actual \in Usage : Settle(h, actual)
           \/ \E h \in issued : SettleAtEstimate(h)
           \/ Sweep
    PROVE  \E rows \in SUBSET pending : \E tokens \in [rows -> Nat] : Bill(rows, tokens)
<1>0. LedgerTypeOK /\ pending \subseteq HoldRow
  BY DEF TotalsInv, LedgerInv, LedgerTypeOK
<1>1. CASE \E h \in issued, actual \in Usage : Settle(h, actual)
  <2>1. PICK h \in issued, actual \in Usage : Bill(Rows(h), [row \in Rows(h) |-> actual])
    BY <1>1 DEF Settle
  <2>2. Rows(h) \in SUBSET pending /\ [row \in Rows(h) |-> actual] \in [Rows(h) -> Nat]
    BY DEF Rows
  <2>3. QED
    BY <2>1, <2>2
<1>2. CASE \E h \in issued : SettleAtEstimate(h)
  <2>1. PICK h \in issued : Bill(Rows(h), FailClosedCharges(Rows(h)))
    BY <1>2 DEF SettleAtEstimate
  <2>2. Rows(h) \in SUBSET pending
    BY DEF Rows
  <2>3. FailClosedCharges(Rows(h)) \in [Rows(h) -> Nat]
    BY <1>0, <2>2, ChargeIsNat DEF FailClosedCharges
  <2>4. QED
    BY <2>1, <2>2, <2>3
<1>3. CASE Sweep
  <2>1. Bill(StaleRows, FailClosedCharges(StaleRows))
    BY <1>3 DEF Sweep
  <2>2. StaleRows \in SUBSET pending
    BY DEF StaleRows
  <2>3. FailClosedCharges(StaleRows) \in [StaleRows -> Nat]
    BY <1>0, <2>2, ChargeIsNat DEF FailClosedCharges
  <2>4. QED
    BY <2>1, <2>2, <2>3
<1>4. QED
  BY <1>1, <1>2, <1>3

(* A new cap, or none, leaves a highest cap. *)
LEMMA CapsStayBounded ==
    ASSUME TotalsInv, NEW a \in Alias, NEW cap \in CapValue \cup {NULL}, SetSpendCap(a, cap)
    PROVE  CapsBounded'
<1>1. SUFFICES ASSUME NEW b \in Alias, caps_seen'[b] # {}
               PROVE  \E top \in caps_seen'[b] : \A c \in caps_seen'[b] : c <= top
  BY DEF CapsBounded
<1>2. /\ caps_seen'[b] = IF b = a THEN caps_seen[b] \cup ({cap} \ {NULL}) ELSE caps_seen[b]
      /\ caps_seen[b] \subseteq Nat
      /\ caps_seen[b] # {} => \E top \in caps_seen[b] : \A c \in caps_seen[b] : c <= top
  BY DEF SetSpendCap, TotalsInv, LedgerInv, LedgerTypeOK, CapsBounded
<1>3. CASE caps_seen'[b] = caps_seen[b]
  BY <1>1, <1>2, <1>3
<1>4. CASE caps_seen'[b] # caps_seen[b]
  <2>1. cap \in Nat /\ caps_seen'[b] = caps_seen[b] \cup {cap}
    BY <1>2, <1>4
  <2>2. CASE caps_seen[b] = {}
    BY <2>1, <2>2
  <2>3. CASE caps_seen[b] # {}
    <3>1. PICK top \in caps_seen[b] : \A c \in caps_seen[b] : c <= top
      BY <1>2, <2>3
    <3>2. CASE cap <= top
      BY <2>1, <3>1, <3>2
    <3>3. CASE ~(cap <= top)
      <4>1. \A c \in caps_seen'[b] : c <= cap
        BY <1>2, <2>1, <3>1, <3>3
      <4>2. QED
        BY <2>1, <4>1
    <3>4. QED
      BY <3>2, <3>3
  <2>4. QED
    BY <2>2, <2>3
<1>5. QED
  BY <1>3, <1>4

LEMMA TotalsInvStep == TotalsInv /\ [LedgerNext]_ledgerVars => TotalsInv'
<1> SUFFICES ASSUME TotalsInv, [LedgerNext]_ledgerVars
             PROVE  TotalsInv'
  OBVIOUS
<1>1. LedgerInv'
  BY LedgerInvStep DEF TotalsInv
<1>2. /\ IsFiniteSet(pending') /\ IsFiniteSet(spend_log')
      /\ CapsBounded'
  <2>0. IsFiniteSet(pending) /\ IsFiniteSet(spend_log) /\ CapsBounded
    BY DEF TotalsInv
  <2>1. CASE \E h \in Handle, a \in Alias, e \in Estimate :
                \E cap \in caps_seen[a] : Hold(h, a, e, cap)
    <3>1. PICK h \in Handle, a \in Alias, e \in Estimate :
             /\ pending' = pending \cup {[handle |-> h, alias |-> a, estimate |-> e]}
             /\ UNCHANGED <<spend_log, caps_seen>>
      BY <2>1 DEF Hold, config
    <3>2. IsFiniteSet(pending')
      BY <2>0, <3>1, FS_AddElement
    <3>3. QED
      BY <2>0, <3>1, <3>2 DEF CapsBounded
  <2>2. CASE \/ \E h \in issued, actual \in Usage : Settle(h, actual)
             \/ \E h \in issued : SettleAtEstimate(h)
             \/ Sweep
    <3>1. PICK rows \in SUBSET pending : \E tokens \in [rows -> Nat] : Bill(rows, tokens)
      BY <2>2, BillingCalls
    <3>2. QED
      BY <2>0, <3>1, BillFinite DEF CapsBounded
  <2>3. CASE \E h \in issued : Refund(h)
    <3>1. pending' \in SUBSET pending /\ UNCHANGED <<spend_log, caps_seen>>
      BY <2>3 DEF Refund, config
    <3>2. QED
      BY <2>0, <3>1, FS_Subset DEF CapsBounded
  <2>4. CASE \E o \in DirectRow, a \in Alias, t \in Usage \cup {0} : RecordSpend(o, a, t)
    <3>1. PICK row : spend_log' = spend_log \cup {row} /\ UNCHANGED <<pending, caps_seen>>
      BY <2>4 DEF RecordSpend, config
    <3>2. IsFiniteSet(spend_log')
      BY <2>0, <3>1, FS_AddElement
    <3>3. QED
      BY <2>0, <3>1, <3>2 DEF CapsBounded
  <2>5. CASE \E a \in Alias, cap \in CapValue \cup {NULL} : SetSpendCap(a, cap)
    BY <2>0, <2>5, CapsStayBounded DEF SetSpendCap
  <2>6. CASE \E old \in SUBSET spend_log : PruneOldSpendLog(old)
    <3>1. spend_log' \in SUBSET spend_log /\ UNCHANGED <<pending, caps_seen>>
      BY <2>6 DEF PruneOldSpendLog, config
    <3>2. QED
      BY <2>0, <3>1, FS_Subset DEF CapsBounded
  <2>7. CASE \/ \E h \in issued : GrowOld(h)
             \/ \E a \in Alias, v \in OverrideValue \cup {NULL} : SetCeilingOverride(a, v)
             \/ UNCHANGED ledgerVars
    BY <2>0, <2>7 DEF GrowOld, SetCeilingOverride, ledgerVars, config, CapsBounded
  <2>8. QED
    BY <2>1, <2>2, <2>3, <2>4, <2>5, <2>6, <2>7 DEF LedgerNext
<1>3. QED
  BY <1>1, <1>2 DEF TotalsInv

-----------------------------------------------------------------------------
(* Each call is a step of SpendCap *)

\* What a step of SpendCap may move is not bounded.
Unbounded == Amount = Nat

(* The sums that a step leaves alone. *)
LEMMA SameSums ==
    ASSUME NEW a
    PROVE  /\ HoldsOf(a)' = HoldsOf(a) => Held(a)' = Held(a)
           /\ ChargesOf(a)' = ChargesOf(a) =>
                 Committed(a)' = Committed(a) /\ Excess(a)' = Excess(a)
           /\ caps_seen' = caps_seen => LimitOf(a)' = LimitOf(a)
BY DEF HoldsOf, ChargesOf, Held, Committed, Excess, LimitOf

(* A hold of the alias is an admission under the cap. *)
LEMMA HoldRefines ==
    ASSUME TotalsInv, TotalsInv', Unbounded,
           NEW h \in Handle, NEW a \in Alias, NEW e \in Estimate,
           NEW cap \in caps_seen[a], Hold(h, a, e, cap)
    PROVE  Cap!Next \/ UNCHANGED Cap!vars
<1> DEFINE t == Tracked
           new == [handle |-> h, alias |-> a, estimate |-> e]
<1>1. /\ pending' = pending \cup {new} /\ UNCHANGED <<spend_log, caps_seen>>
      /\ h \notin issued /\ Fits(a, e, cap)
  BY DEF Hold, config
<1>2. /\ Committed(t)' = Committed(t) /\ Excess(t)' = Excess(t)
      /\ LimitOf(t)' = LimitOf(t)
  BY <1>1, SameSums DEF ChargesOf
<1>3. CASE a # t
  <2>1. HoldsOf(t)' = HoldsOf(t)
    BY <1>1, <1>3 DEF HoldsOf
  <2>2. QED
    BY <1>2, <2>1, SameSums DEF Cap!vars
<1>4. CASE a = t
  <2>1. \A row \in pending : row.handle # h
    BY <1>1 DEF TotalsInv, LedgerInv, ResolvedOnce, HeldHandles
  <2>2. HoldsOf(t)' = HoldsOf(t) \cup {new} /\ new \notin pending
    BY <1>1, <1>4, <2>1 DEF HoldsOf
  <2>3. new \in HoldsOf(t)' /\ HoldsOf(t)' \ {new} = HoldsOf(t)
    BY <2>2 DEF HoldsOf
  <2>4. Total(Estimates({new})) = e
    <3>1. DOMAIN Estimates({new}) = {new} /\ Estimates({new})[new] = e /\ e \in Nat
      BY DEF Estimates
    <3>2. QED
      BY <3>1, TotalOfOne
  <2>5. /\ Held(t)' = Total(Estimates(HoldsOf(t)')) /\ Held(t) = Total(Estimates(HoldsOf(t)))
        /\ IsFiniteSet(HoldsOf(t)') /\ HoldsOf(t)' \subseteq HoldRow
    <3>1. Held(t)' = Total(Estimates(HoldsOf(t)'))
      BY DEF Held, Estimates, HoldsOf
    <3>2. HoldsOf(t)' \in SUBSET pending' /\ pending' \subseteq HoldRow /\ IsFiniteSet(pending')
      BY DEF HoldsOf, TotalsInv, LedgerInv, LedgerTypeOK
    <3>3. QED
      BY <3>1, <3>2, RowsOf, FS_Subset
  <2>6. Held(t)' = Held(t) + e
    BY <2>3, <2>4, <2>5, HoldRowsMove
  <2>7. Committed(t) + Held(t) + e <= LimitOf(t)
    <3>1. cap \in Nat /\ cap <= LimitOf(t) /\ LimitOf(t) \in Nat
      BY <1>4, LimitIs DEF TotalsInv, LedgerInv, LedgerTypeOK
    <3>2. Committed(t) + Held(t) + e <= cap
      BY <1>1, <1>4 DEF Fits
    <3>3. QED
      BY <3>1, <3>2, RowsOf
  <2>8. Cap!Admit
    BY <1>2, <2>6, <2>7 DEF Cap!Admit, Unbounded
  <2>9. QED
    BY <2>8 DEF Cap!Next
<1>5. QED
  BY <1>3, <1>4

OfAlias(rows, a) == {row \in rows : row.alias = a}
NewCharges(rows, tokens) == {ChargeRow(row, tokens[row]) : row \in rows}

(* What a billing does to the rows of an alias: some of its holds leave and
   as many charges enter, each for the estimate that had been held. *)
LEMMA BilledRows ==
    ASSUME TotalsInv, NEW rows, rows \subseteq pending, NEW tokens \in [rows -> Nat],
           Bill(rows, tokens), NEW a,
           NEW freed, freed = OfAlias(rows, a),
           NEW new, new = NewCharges(freed, tokens)
    PROVE  /\ freed \subseteq HoldsOf(a) /\ HoldsOf(a)' = HoldsOf(a) \ freed
           /\ new \subseteq ChargesOf(a)' /\ ChargesOf(a)' \ new = ChargesOf(a)
           /\ Total(Estimates(new)) = Total(Estimates(freed))
<1>1. pending' = pending \ rows
      /\ spend_log' = spend_log \cup {ChargeRow(row, tokens[row]) : row \in rows}
  BY DEF Bill
<1> USE DEF OfAlias, NewCharges
<1>2. freed \subseteq HoldsOf(a) /\ HoldsOf(a)' = HoldsOf(a) \ freed
  BY <1>1 DEF HoldsOf
<1>3. ASSUME NEW row \in rows
      PROVE  /\ ChargeRow(row, tokens[row]).alias = row.alias
             /\ ChargeRow(row, tokens[row]).origin = row.handle
             /\ ChargeRow(row, tokens[row]).estimate = row.estimate
             /\ ChargeRow(row, tokens[row]) \notin spend_log
  <2>1. row.handle \in Origin /\ charged[row.handle] \in Nat
    BY DEF TotalsInv, LedgerInv, LedgerTypeOK, HoldRow, Origin
  <2>2. ASSUME ChargeRow(row, tokens[row]) \in spend_log PROVE FALSE
    <3>1. ChargeRow(row, tokens[row]).nth < charged[ChargeRow(row, tokens[row]).origin]
      BY <2>2 DEF TotalsInv, LedgerInv, RowsDistinct
    <3>2. charged[row.handle] < charged[row.handle]
      BY <3>1 DEF ChargeRow
    <3>3. QED
      BY <2>1, <3>2
  <2>3. QED
    BY <2>2 DEF ChargeRow
<1>4. new \subseteq ChargesOf(a)' /\ ChargesOf(a)' \ new = ChargesOf(a)
  <2>1. ChargesOf(a)' = ChargesOf(a) \cup new
    BY <1>1, <1>3 DEF ChargesOf
  <2>2. new \cap ChargesOf(a) = {}
    BY <1>3 DEF ChargesOf
  <2>3. QED
    BY <2>1, <2>2
<1>5. Total(Estimates(new)) = Total(Estimates(freed))
  <2> DEFINE b == [row \in freed |-> ChargeRow(row, tokens[row])]
  <2>1. \A x \in freed : b[x].origin = x.handle /\ b[x].estimate = x.estimate
    BY <1>3
  <2>2. b \in [freed -> new] /\ \A z \in new : \E x \in freed : b[x] = z
    OBVIOUS
  <2> HIDE DEF b
  <2>3. \A x, y \in freed : b[x] = b[y] => x = y
    BY <2>1 DEF TotalsInv, LedgerInv, RowsDistinct
  <2>4. b \in Bijection(freed, new)
    BY <2>2, <2>3, Fun_IsBij
  <2>5. /\ DOMAIN Estimates(freed) = freed /\ DOMAIN Estimates(new) = new
        /\ \A x \in freed : Estimates(new)[b[x]] = Estimates(freed)[x]
    BY <2>1, <2>2 DEF Estimates
  <2>6. Amounts(Estimates(freed))
    <3>1. freed \in SUBSET pending /\ freed \subseteq HoldRow
      BY DEF TotalsInv, LedgerInv, LedgerTypeOK
    <3>2. IsFiniteSet(freed)
      BY <3>1, FS_Subset DEF TotalsInv
    <3>3. QED
      BY <3>1, <3>2, ColumnsAddUp
  <2>7. /\ b \in Bijection(DOMAIN Estimates(freed), DOMAIN Estimates(new))
        /\ \A x \in DOMAIN Estimates(freed) : Estimates(new)[b[x]] = Estimates(freed)[x]
    BY <2>4, <2>5
  <2>8. QED
    BY <2>6, <2>7, TotalRenamed
<1>6. QED
  BY <1>2, <1>4, <1>5

(* The sums once a step has been taken. *)
LEMMA RowsOfNext ==
    ASSUME TotalsInv', NEW a
    PROVE  /\ IsFiniteSet(ChargesOf(a)') /\ ChargesOf(a)' \subseteq LogRow
           /\ Held(a)' = Total(Estimates(HoldsOf(a)'))
           /\ Committed(a)' = Total(Tokens(ChargesOf(a)'))
           /\ Excess(a)' = Total(Overs(ChargesOf(a)'))
<1>1. ChargesOf(a)' \in SUBSET spend_log' /\ spend_log' \subseteq LogRow /\ IsFiniteSet(spend_log')
  BY DEF ChargesOf, TotalsInv, LedgerInv, LedgerTypeOK
<1>2. IsFiniteSet(ChargesOf(a)')
  BY <1>1, FS_Subset
<1>3. Held(a)' = Total(Estimates(HoldsOf(a)'))
  BY DEF Held, Estimates, HoldsOf
<1>4. Committed(a)' = Total(Tokens(ChargesOf(a)'))
  BY DEF Committed, Tokens, ChargesOf
<1>5. Excess(a)' = Total(Overs(ChargesOf(a)'))
  BY DEF Excess, Overs, ChargesOf
<1>6. QED
  BY <1>1, <1>2, <1>3, <1>4, <1>5

(* Settling and sweeping free what was held and charge for it; only what no
   hold had set aside is excess. *)
LEMMA BillRefines ==
    ASSUME TotalsInv, TotalsInv', Unbounded,
           NEW rows \in SUBSET pending, NEW tokens \in [rows -> Nat], Bill(rows, tokens)
    PROVE  Cap!Next
<1> DEFINE t == Tracked
           freed == OfAlias(rows, t)
           new == NewCharges(freed, tokens)
           free == Total(Estimates(freed))
           paid == Total(Tokens(new))
           over == Total(Overs(new))
<1>1. /\ freed \subseteq HoldsOf(t) /\ HoldsOf(t)' = HoldsOf(t) \ freed
      /\ new \subseteq ChargesOf(t)' /\ ChargesOf(t)' \ new = ChargesOf(t)
      /\ Total(Estimates(new)) = free
  BY BilledRows
<1> HIDE DEF new, freed
<1>2. Held(t) = Held(t)' + free /\ Held(t)' \in Nat /\ free \in Nat
  <2>1. /\ Total(Estimates(HoldsOf(t))) = Total(Estimates(HoldsOf(t)')) + free
        /\ Total(Estimates(HoldsOf(t)')) \in Nat /\ free \in Nat
    BY <1>1, RowsOf, HoldRowsMove
  <2>2. QED
    BY <2>1, RowsOf, RowsOfNext
<1>3. /\ Committed(t)' = Committed(t) + paid /\ paid \in Nat
      /\ Excess(t)' = Excess(t) + over /\ over \in Nat
  <2>1. IsFiniteSet(ChargesOf(t)') /\ ChargesOf(t)' \subseteq LogRow
    BY RowsOfNext
  <2>2. /\ Total(Tokens(ChargesOf(t)')) = Total(Tokens(ChargesOf(t))) + paid
        /\ Total(Overs(ChargesOf(t)')) = Total(Overs(ChargesOf(t))) + over
        /\ paid \in Nat /\ over \in Nat
    BY <1>1, <2>1, LogRowsMove
  <2>3. QED
    BY <2>2, RowsOf, RowsOfNext
<1>4. paid <= free + over
  <2>1. new \subseteq LogRow
    BY <1>1, RowsOfNext
  <2>2. IsFiniteSet(new)
    BY <1>1, RowsOfNext, FS_Subset
  <2>3. Amounts(Tokens(new)) /\ Amounts(Estimates(new)) /\ Amounts(Overs(new))
    BY <2>1, <2>2, ColumnsAddUp
  <2>4. /\ DOMAIN Tokens(new) = DOMAIN Estimates(new) /\ DOMAIN Tokens(new) = DOMAIN Overs(new)
        /\ \A x \in DOMAIN Tokens(new) : Tokens(new)[x] <= Estimates(new)[x] + Overs(new)[x]
    BY <2>1, OverType DEF Tokens, Estimates, Overs
  <2>5. Total(Tokens(new)) <= Total(Estimates(new)) + Total(Overs(new))
    BY <2>3, <2>4, TotalCovered
  <2>6. QED
    BY <1>1, <2>5
<1>5. LimitOf(t)' = LimitOf(t)
  BY SameSums DEF Bill, config
<1> HIDE DEF free, paid, over
<1>6. Held(t)' = Held(t) - free /\ free <= Held(t) /\ paid - free <= over
  BY <1>2, <1>3, <1>4
<1>7. Cap!Resolve
  BY <1>2, <1>3, <1>5, <1>6 DEF Cap!Resolve, Unbounded
<1>8. QED
  BY <1>7 DEF Cap!Next

(* A refund frees what was held and charges nothing. *)
LEMMA RefundRefines ==
    ASSUME TotalsInv, TotalsInv', Unbounded, NEW h \in issued, Refund(h)
    PROVE  Cap!Next
<1> DEFINE t == Tracked
           freed == {row \in Rows(h) : row.alias = t}
           free == Total(Estimates(freed))
<1>1. freed \subseteq HoldsOf(t) /\ HoldsOf(t)' = HoldsOf(t) \ freed
  BY DEF HoldsOf, Rows, Refund
<1> HIDE DEF freed
<1>2. Held(t) = Held(t)' + free /\ Held(t)' \in Nat /\ free \in Nat
  BY <1>1, RowsOf, RowsOfNext, HoldRowsMove
<1>3. /\ Committed(t)' = Committed(t) /\ Excess(t)' = Excess(t) /\ LimitOf(t)' = LimitOf(t)
      /\ Committed(t) \in Nat /\ Excess(t) \in Nat
  BY RowsOf, SameSums DEF Refund, config, ChargesOf
<1> HIDE DEF free
<1>4. /\ Held(t)' = Held(t) - free /\ free <= Held(t) /\ 0 - free <= 0
      /\ Committed(t)' = Committed(t) + 0 /\ Excess(t)' = Excess(t) + 0
  BY <1>2, <1>3
<1>5. Cap!Resolve
  BY <1>2, <1>3, <1>4 DEF Cap!Resolve, Unbounded
<1>6. QED
  BY <1>5 DEF Cap!Next

(* A request that ran without a cap leaves its usage as excess. *)
LEMMA RecordRefines ==
    ASSUME TotalsInv, TotalsInv', Unbounded,
           NEW o \in DirectRow, NEW a \in Alias, NEW n \in Usage \cup {0}, RecordSpend(o, a, n)
    PROVE  Cap!Next \/ UNCHANGED Cap!vars
<1> DEFINE t == Tracked
           new == [origin |-> o, nth |-> 0, alias |-> a, tokens |-> n, estimate |-> 0]
<1>1. /\ spend_log' = spend_log \cup {new} /\ charged[o] = 0
      /\ UNCHANGED <<pending, caps_seen>> /\ n \in Nat
  BY DEF RecordSpend, config
<1>2. Held(t)' = Held(t) /\ LimitOf(t)' = LimitOf(t)
  BY <1>1, SameSums DEF HoldsOf
<1>3. CASE a # t
  <2>1. ChargesOf(t)' = ChargesOf(t)
    BY <1>1, <1>3 DEF ChargesOf
  <2>2. QED
    BY <1>2, <2>1, SameSums DEF Cap!vars
<1>4. CASE a = t
  <2>1. new \notin spend_log
    BY <1>1 DEF TotalsInv, LedgerInv, RowsDistinct
  <2>2. new \in ChargesOf(t)' /\ ChargesOf(t)' \ {new} = ChargesOf(t)
    BY <1>1, <1>4, <2>1 DEF ChargesOf
  <2>3. Over(new) = n
    BY <1>1 DEF Over
  <2>4. Total(Tokens({new})) = n /\ Total(Overs({new})) = n
    <3>1. /\ DOMAIN Tokens({new}) = {new} /\ Tokens({new})[new] = n
          /\ DOMAIN Overs({new}) = {new} /\ Overs({new})[new] = n
      BY <2>3 DEF Tokens, Overs
    <3>2. QED
      BY <1>1, <3>1, TotalOfOne
  <2> HIDE DEF new
  <2>5. Committed(t)' = Committed(t) + n /\ Excess(t)' = Excess(t) + n
    BY <2>2, <2>4, RowsOf, RowsOfNext, LogRowsMove
  <2>6. Cap!Record
    BY <1>1, <1>2, <2>5 DEF Cap!Record, Unbounded
  <2>7. QED
    BY <2>6 DEF Cap!Next
<1>5. QED
  BY <1>3, <1>4

(* A new cap may raise the limit; no cap, or that of another alias, does not. *)
LEMMA SetCapRefines ==
    ASSUME TotalsInv, TotalsInv', Unbounded,
           NEW a \in Alias, NEW cap \in CapValue \cup {NULL}, SetSpendCap(a, cap)
    PROVE  Cap!Next \/ UNCHANGED Cap!vars
<1> DEFINE t == Tracked
<1>1. /\ Held(t)' = Held(t) /\ Committed(t)' = Committed(t) /\ Excess(t)' = Excess(t)
  BY SameSums DEF SetSpendCap, HoldsOf, ChargesOf
<1>2. caps_seen[t]' = IF a = t THEN caps_seen[t] \cup ({cap} \ {NULL}) ELSE caps_seen[t]
  BY DEF SetSpendCap, TotalsInv, LedgerInv, LedgerTypeOK
<1>3. CASE a # t \/ cap = NULL
  <2>1. LimitOf(t)' = LimitOf(t)
    BY <1>2, <1>3 DEF LimitOf
  <2>2. QED
    BY <1>1, <2>1 DEF Cap!vars
<1>4. CASE a = t /\ cap # NULL
  <2>1. cap \in Nat /\ caps_seen[t]' = caps_seen[t] \cup {cap}
    BY <1>2, <1>4
  <2>2. /\ LimitOf(t) \in Nat /\ \A c \in caps_seen[t] : c <= LimitOf(t)
        /\ caps_seen[t] # {} => LimitOf(t) \in caps_seen[t]
        /\ caps_seen[t] = {} => LimitOf(t) = 0
    BY LimitIs
  <2>3. /\ LimitOf(t)' \in Nat /\ \A c \in caps_seen[t]' : c <= LimitOf(t)'
        /\ LimitOf(t)' \in caps_seen[t]'
    <3>1. /\ LimitOf(t)' = Max(caps_seen[t]') /\ caps_seen[t]' \subseteq Nat
          /\ \E top \in caps_seen[t]' : \A c \in caps_seen[t]' : top >= c
      BY <2>1 DEF LimitOf, TotalsInv, LedgerInv, LedgerTypeOK, CapsBounded
    <3>2. LimitOf(t)' \in caps_seen[t]' /\ \A c \in caps_seen[t]' : LimitOf(t)' >= c
      BY <3>1 DEF Max
    <3>3. QED
      BY <3>1, <3>2
  <2>4. LimitOf(t)' = IF cap > LimitOf(t) THEN cap ELSE LimitOf(t)
    BY <2>1, <2>2, <2>3
  <2>5. Cap!Configure
    BY <1>1, <2>1, <2>4 DEF Cap!Configure, Unbounded
  <2>6. QED
    BY <2>5 DEF Cap!Next
<1>5. QED
  BY <1>3, <1>4

(* Pruned rows take their tokens and their excess with them. *)
LEMMA PruneRefines ==
    ASSUME TotalsInv, TotalsInv', Unbounded,
           NEW old \in SUBSET spend_log, PruneOldSpendLog(old)
    PROVE  Cap!Next
<1> DEFINE t == Tracked
           gone == {row \in old : row.alias = t}
           tokens == Total(Tokens(gone))
           over == Total(Overs(gone))
<1>1. gone \subseteq ChargesOf(t) /\ ChargesOf(t)' = ChargesOf(t) \ gone
  BY DEF PruneOldSpendLog, ChargesOf
<1>2. Held(t)' = Held(t) /\ LimitOf(t)' = LimitOf(t)
  BY SameSums DEF PruneOldSpendLog, config, HoldsOf
<1> HIDE DEF gone
<1>3. /\ Committed(t) = Committed(t)' + tokens /\ Committed(t)' \in Nat /\ tokens \in Nat
      /\ Excess(t) = Excess(t)' + over /\ Excess(t)' \in Nat /\ over \in Nat
  BY <1>1, RowsOf, RowsOfNext, LogRowsMove
<1>4. over <= tokens
  <2>1. gone \subseteq LogRow
    BY <1>1, RowsOf
  <2>2. IsFiniteSet(gone)
    BY <1>1, RowsOf, FS_Subset
  <2>3. Amounts(Tokens(gone)) /\ Amounts(Overs(gone))
    BY <2>1, <2>2, ColumnsAddUp
  <2>4. /\ DOMAIN Overs(gone) \subseteq DOMAIN Tokens(gone)
        /\ \A x \in DOMAIN Overs(gone) :
              Overs(gone)[x] \in Nat /\ Overs(gone)[x] <= Tokens(gone)[x]
    BY <2>1, OverType DEF Tokens, Overs
  <2>5. QED
    BY <2>3, <2>4, TotalMonotone
<1> HIDE DEF tokens, over
<1>5. /\ tokens <= Committed(t) /\ Committed(t)' = Committed(t) - tokens
      /\ over <= Excess(t) /\ Excess(t)' = Excess(t) - over
  BY <1>3
<1>6. Cap!Forget
  BY <1>2, <1>3, <1>4, <1>5 DEF Cap!Forget, Unbounded
<1>7. QED
  BY <1>6 DEF Cap!Next

(* A step of the ledger is a step of SpendCap, or leaves the totals alone. *)
LEMMA StepRefines ==
    ASSUME TotalsInv, TotalsInv', Unbounded, [LedgerNext]_ledgerVars
    PROVE  [Cap!Next]_(Cap!vars)
<1>1. CASE \E h \in Handle, a \in Alias, e \in Estimate :
              \E cap \in caps_seen[a] : Hold(h, a, e, cap)
  BY <1>1, HoldRefines
<1>2. CASE \/ \E h \in issued, actual \in Usage : Settle(h, actual)
           \/ \E h \in issued : SettleAtEstimate(h)
           \/ Sweep
  BY <1>2, BillingCalls, BillRefines
<1>3. CASE \E h \in issued : Refund(h)
  BY <1>3, RefundRefines
<1>4. CASE \E o \in DirectRow, a \in Alias, n \in Usage \cup {0} : RecordSpend(o, a, n)
  BY <1>4, RecordRefines
<1>5. CASE \E a \in Alias, cap \in CapValue \cup {NULL} : SetSpendCap(a, cap)
  BY <1>5, SetCapRefines
<1>6. CASE \E old \in SUBSET spend_log : PruneOldSpendLog(old)
  BY <1>6, PruneRefines
<1>7. CASE \/ \E h \in issued : GrowOld(h)
           \/ \E a \in Alias, v \in OverrideValue \cup {NULL} : SetCeilingOverride(a, v)
           \/ UNCHANGED ledgerVars
  <2>1. UNCHANGED <<pending, spend_log, caps_seen>>
    BY <1>7 DEF GrowOld, SetCeilingOverride, ledgerVars, config
  <2>2. HoldsOf(Tracked)' = HoldsOf(Tracked) /\ ChargesOf(Tracked)' = ChargesOf(Tracked)
    BY <2>1 DEF HoldsOf, ChargesOf
  <2>3. QED
    BY <2>1, <2>2, SameSums DEF Cap!vars
<1>8. QED
  BY <1>1, <1>2, <1>3, <1>4, <1>5, <1>6, <1>7 DEF LedgerNext

(* The first totals are those SpendCap starts from. *)
LEMMA InitRefines ==
    ASSUME LedgerInit, Unbounded
    PROVE  Cap!Init
<1>1. TotalsInv
  BY TotalsInvInit
<1>2. HoldsOf(Tracked) = {} /\ ChargesOf(Tracked) = {}
  BY DEF LedgerInit, HoldsOf, ChargesOf
<1>3. DOMAIN Estimates({}) = {} /\ DOMAIN Tokens({}) = {} /\ DOMAIN Overs({}) = {}
  BY DEF Estimates, Tokens, Overs
<1>4. Held(Tracked) = 0 /\ Committed(Tracked) = 0 /\ Excess(Tracked) = 0
  BY <1>1, <1>2, <1>3, RowsOf, TotalOfNone
<1>5. LimitOf(Tracked) \in Nat
  BY <1>1, LimitIs
<1>6. QED
  BY <1>4, <1>5 DEF Cap!Init, Unbounded

(* For any tables, whatever the order of holds, settlements, refunds, sweeps,
   new caps and pruning, the sums of an alias's rows behave as SpendCap says. *)
THEOREM RowsImplementCap ==
    ASSUME Unbounded
    PROVE  LedgerSpec => ImplementsCap
<1>1. LedgerInit => TotalsInv /\ Cap!Init
  BY TotalsInvInit, InitRefines
<1>2. TotalsInv /\ [LedgerNext]_ledgerVars => TotalsInv'
  BY TotalsInvStep
<1>3. TotalsInv /\ TotalsInv' /\ [LedgerNext]_ledgerVars => [Cap!Next]_(Cap!vars)
  BY StepRefines
<1>4. QED
  BY <1>1, <1>2, <1>3, PTL DEF LedgerSpec, ImplementsCap, Cap!Spec

-----------------------------------------------------------------------------
(* What SpendCap promises.  Nothing here looks into the sums: the totals are
   any state functions that move as SpendCap says. *)

(* Totals stay natural numbers: no refund or prune takes away more than is there. *)
LEMMA CapTypes == Cap!Spec => []Cap!TypeOK
<1>1. Cap!Init => Cap!TypeOK
  <2> SUFFICES ASSUME Cap!Init PROVE Cap!TypeOK
    OBVIOUS
  <2>1. /\ Committed(Tracked) = 0 /\ Held(Tracked) = 0 /\ Excess(Tracked) = 0
        /\ LimitOf(Tracked) \in Nat
    BY DEF Cap!Init
  <2>2. QED
    BY <2>1 DEF Cap!TypeOK
<1>2. Cap!TypeOK /\ [Cap!Next]_(Cap!vars) => Cap!TypeOK'
  <2> SUFFICES ASSUME Cap!TypeOK, [Cap!Next]_(Cap!vars)
               PROVE  Cap!TypeOK'
    OBVIOUS
  <2> USE DEF Cap!TypeOK
  <2>1. CASE Cap!Admit
    BY <2>1 DEF Cap!Admit
  <2>2. CASE Cap!Resolve
    BY <2>2 DEF Cap!Resolve
  <2>3. CASE Cap!Record
    BY <2>3 DEF Cap!Record
  <2>4. CASE Cap!Configure
    BY <2>4 DEF Cap!Configure
  <2>5. CASE Cap!Forget
    BY <2>5 DEF Cap!Forget
  <2>6. CASE UNCHANGED Cap!vars
    BY <2>6 DEF Cap!vars
  <2>7. QED
    BY <2>1, <2>2, <2>3, <2>4, <2>5, <2>6 DEF Cap!Next
<1>3. QED
  BY <1>1, <1>2, PTL DEF Cap!Spec

(* Admission is the only step that spends room under the limit; every other
   step either frees room or books what it adds as excess. *)
LEMMA LimitStep ==
    ASSUME Cap!TypeOK, Cap!WithinLimit, [Cap!Next]_(Cap!vars)
    PROVE  Cap!WithinLimit'
<1> USE DEF Cap!TypeOK, Cap!WithinLimit
<1>1. CASE Cap!Admit
  BY <1>1 DEF Cap!Admit
<1>2. CASE Cap!Resolve
  <2>1. PICK freed \in Amount, paid \in Amount, over \in Amount :
           /\ freed <= Held(Tracked)
           /\ Held(Tracked)' = Held(Tracked) - freed
           /\ Committed(Tracked)' = Committed(Tracked) + paid
           /\ paid - freed <= over
           /\ Excess(Tracked)' = Excess(Tracked) + over
           /\ LimitOf(Tracked)' = LimitOf(Tracked)
    BY <1>2 DEF Cap!Resolve
  <2>2. freed \in Nat /\ paid \in Nat /\ over \in Nat
    BY <2>1
  <2>3. QED
    BY <2>1, <2>2
<1>3. CASE Cap!Record
  BY <1>3 DEF Cap!Record
<1>4. CASE Cap!Configure
  BY <1>4 DEF Cap!Configure
<1>5. CASE Cap!Forget
  <2>1. PICK gone \in Amount, over \in Amount :
           /\ gone <= Committed(Tracked)
           /\ Committed(Tracked)' = Committed(Tracked) - gone
           /\ over <= gone
           /\ over <= Excess(Tracked)
           /\ Excess(Tracked)' = Excess(Tracked) - over
           /\ Held(Tracked)' = Held(Tracked)
           /\ LimitOf(Tracked)' = LimitOf(Tracked)
    BY <1>5 DEF Cap!Forget
  <2>2. gone \in Nat /\ over \in Nat
    BY <2>1
  <2>3. QED
    BY <2>1, <2>2
<1>6. CASE UNCHANGED Cap!vars
  BY <1>6 DEF Cap!vars
<1>7. QED
  BY <1>1, <1>2, <1>3, <1>4, <1>5, <1>6 DEF Cap!Next

(* What is charged plus what is held never exceeds the highest configured cap
   by more than what was charged without having been held. *)
THEOREM CapHolds == Cap!Spec => []Cap!WithinLimit
<1>1. Cap!Init => Cap!WithinLimit
  <2> SUFFICES ASSUME Cap!Init PROVE Cap!WithinLimit
    OBVIOUS
  <2>1. /\ Committed(Tracked) = 0 /\ Held(Tracked) = 0 /\ Excess(Tracked) = 0
        /\ LimitOf(Tracked) \in Nat
    BY DEF Cap!Init
  <2>2. QED
    BY <2>1 DEF Cap!WithinLimit
<1>2. QED
  BY <1>1, CapTypes, LimitStep, PTL DEF Cap!Spec

(* So it is with the ledger: the charges and the holds of an alias, row by row,
   stay within the highest cap its operator ever set, up to what was charged
   without having been held. *)
THEOREM RowsWithinCap ==
    ASSUME Unbounded
    PROVE  LedgerSpec => [](Committed(Tracked) + Held(Tracked)
                               <= LimitOf(Tracked) + Excess(Tracked))
<1>1. Cap!WithinLimit <=> Committed(Tracked) + Held(Tracked)
                             <= LimitOf(Tracked) + Excess(Tracked)
  BY DEF Cap!WithinLimit
<1>2. QED
  BY <1>1, RowsImplementCap, CapHolds, PTL DEF ImplementsCap

=============================================================================
