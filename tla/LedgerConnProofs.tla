-------------------------- MODULE LedgerConnProofs --------------------------
(***************************************************************************)
(* The proxy's one database connection keeps SpendLedger's promise: for    *)
(* every number of coroutines, statements that raise, cancellations and    *)
(* deaths, the committed tables change by whole operations only.           *)
(*                                                                         *)
(* The invariant says, for every statement on its way to the worker, what  *)
(* the connection's view must hold when it gets there, as a function of    *)
(* the committed tables: nothing else can change those while the           *)
(* transaction is open, so what a SELECT found is still there.             *)
(***************************************************************************)
EXTENDS LedgerConn, SpendLedgerProofs

-----------------------------------------------------------------------------
(* The invariant *)

\* What the SELECT of a billing operation finds, as long as nobody commits.
FoundBy(c) == IF c.op = "sweep" THEN StaleRows ELSE Rows(c.h)

BillingOp == {"settle", "estimate", "sweep"}

TokensFor(c, row) == IF c.op = "settle" THEN c.n ELSE FailClosedCharge(row)

ChargesFor(c, done) == {ChargeRow(row, TokensFor(c, row)) : row \in done}

\* The tables with the holds gone deleted, and those of done charged.
BilledTables(c, gone, done) ==
    [pending |-> pending \ gone,
     spend_log |-> spend_log \cup ChargesFor(c, done),
     issued |-> issued,
     refunded |-> refunded,
     charged |-> [o \in Origin |-> IF \E row \in done : row.handle = o
                                   THEN charged[o] + 1 ELSE charged[o]]]

HeldTables(row) ==
    [pending |-> pending \cup {row}, spend_log |-> spend_log,
     issued |-> issued \cup {row.handle}, refunded |-> refunded, charged |-> charged]

RefundedTables(h) ==
    [pending |-> pending \ Rows(h), spend_log |-> spend_log, issued |-> issued,
     refunded |-> IF Rows(h) # {} THEN refunded \cup {h} ELSE refunded,
     charged |-> charged]

CallOK(c) ==
    /\ c \in Call
    /\ c.op \in {"settle", "estimate", "refund"} => c.h \in issued
    /\ c.op = "settle" => c.n \in Usage

\* The row a hold is about to insert.
NewHold(c) ==
    c.op = "hold" =>
        \E h \in Handle \ issued, a \in Alias, e \in Estimate :
            /\ c.todo = {[handle |-> h, alias |-> a, estimate |-> e]}
            /\ c.n \in caps_seen[a]

FitsIn(c) == c.op = "hold" => Fits(Current(c).alias, Current(c).estimate, c.n)

Billing(c) == txn /\ c.op \in BillingOp /\ c.todo \subseteq FoundBy(c) /\ c.todo # {}

\* What a statement of call c finds when it is executed.
Ready(kind, c) ==
    /\ kind \in {"begin", "read", "hold", "commit"} => NewHold(c)
    /\ kind \in {"begin", "read"} => c.op # "refund" /\ view = Tables
    /\ kind = "read" => txn
    /\ kind = "hold" => c.op = "hold" /\ FitsIn(c) /\ txn /\ view = Tables
    /\ kind = "refund" => c.op = "refund" /\ view = Tables
    /\ kind = "delete" =>
          /\ Billing(c)
          /\ view = BilledTables(c, FoundBy(c) \ c.todo, FoundBy(c) \ c.todo)
    /\ kind = "charge" =>
          /\ Billing(c)
          /\ view = BilledTables(c, (FoundBy(c) \ c.todo) \cup {Current(c)},
                                 FoundBy(c) \ c.todo)
    /\ kind = "commit" =>
          /\ txn
          /\ c.op # "budget"
          /\ c.op = "hold" => FitsIn(c) /\ view = HeldTables(Current(c))
          /\ c.op = "refund" => view = RefundedTables(c.h)
          /\ c.op \in BillingOp => view = BilledTables(c, FoundBy(c), FoundBy(c))

\* What it leaves when it has worked.
Left(kind, c) ==
    /\ kind = "begin" => Ready("read", c)
    /\ kind = "read" => c.op # "refund" /\ NewHold(c) /\ txn /\ view = Tables
    /\ kind = "hold" => c.op = "hold" /\ Ready("commit", c)
    /\ kind = "refund" => c.op = "refund" /\ Ready("commit", c)
    /\ kind = "delete" => Ready("charge", c)
    /\ kind = "charge" =>
          /\ Billing(c)
          /\ view = BilledTables(c, (FoundBy(c) \ c.todo) \cup {Current(c)},
                                 (FoundBy(c) \ c.todo) \cup {Current(c)})
    /\ kind \in {"commit", "rollback"} => ~txn

Changing == {"hold", "delete", "charge", "refund", "commit"}

\* The lock's holder awaits the last statement of the queue, or its answer is there.
HolderOK(t) ==
    /\ awaits[t] \in Kind
    /\ CallOK(call[t])
    /\ answer[t] = "none" =>
          /\ queue # <<>>
          /\ queue[Len(queue)] = Statement(t, awaits[t], call[t])
    /\ answer[t] # "none" => queue = <<>>
    /\ answer[t] = "ok" => Left(awaits[t], call[t])
    /\ answer[t] = "error" =>
          awaits[t] # "rollback" /\ (awaits[t] = "begin" => view = Tables)
    /\ call[t].op = "budget" =>
          awaits[t] \in {"begin", "read", "rollback"} /\ view = Tables

\* Only the last statement can have somebody waiting for it.
WaitingOK ==
    \A i \in 1..Len(queue) :
        queue[i].by \in {None, lock} /\ (i < Len(queue) => queue[i].by = None)

\* A statement that changes something finds what it needs, and if its call
\* was cancelled a rollback follows it.
ChangesOK ==
    \A i \in 1..Len(queue) :
        queue[i].kind \in Changing =>
            /\ lock # None
            /\ queue[i].call = call[lock]
            /\ i = 1 \/ queue[i].kind = "refund"
            /\ \A j \in 1..Len(queue) : j > i => queue[j].kind = "rollback"
            /\ Ready(queue[i].kind, queue[i].call)

BeginsOK ==
    \A i \in 1..Len(queue) :
        queue[i].by # None /\ queue[i].kind \in {"begin", "read"} =>
            /\ Ready(queue[i].kind, queue[i].call)
            /\ queue[i].kind = "read" => i = 1

Stmt == [by : Task \cup {None}, kind : Kind, call : Call]

TableSet == [pending : SUBSET HoldRow, spend_log : SUBSET LogRow,
             issued : SUBSET Handle, refunded : SUBSET Handle,
             charged : [Origin -> Nat]]

\* The coroutines' and the worker's variables.
TaskTypeOK ==
    /\ lock \in Task \cup {None}
    /\ call \in [Task -> Call]
    /\ awaits \in [Task -> Kind \cup {"idle"}]
    /\ answer \in [Task -> {"none", "ok", "error"}]
    /\ queue \in Seq(Stmt)
    /\ txn \in BOOLEAN
    /\ view \in TableSet
    /\ faults \in 0..MaxFaults /\ cancels \in 0..MaxCancels
    /\ crashes \in 0..MaxCrashes

StaleHeld == \A h \in stale : Rows(h) # {}

OthersIdle == \A t \in Task : t # lock => awaits[t] = "idle" /\ answer[t] = "none"

ClosedViewOK == (lock = None \/ ~txn) => view = Tables

ConnInv ==
    /\ LedgerInv /\ StaleHeld
    /\ TaskTypeOK
    /\ OthersIdle
    /\ ClosedViewOK
    /\ lock # None => HolderOK(lock)
    /\ WaitingOK /\ ChangesOK /\ BeginsOK

\* As long as nothing was cancelled no statement is left over.
Orderly ==
    cancels = 0 =>
        /\ \A i \in 1..Len(queue) : queue[i].by # None
        /\ lock = None => ~txn
        /\ lock # None /\ awaits[lock] = "begin" /\ answer[lock] # "ok" => ~txn

-----------------------------------------------------------------------------
(* The tables *)

USE LedgerAssumption, ConnAssumption

(* The row a call is about is one of its rows. *)
LEMMA CurrentIn == ASSUME NEW c, c.todo # {} PROVE Current(c) \in c.todo
BY DEF Current

(* While no row comes or goes what fits is the same. *)
LEMMA SameFits ==
    ASSUME UNCHANGED <<pending, spend_log>>, NEW a, NEW estimate, NEW cap
    PROVE  Fits(a, estimate, cap)' <=> Fits(a, estimate, cap)
<1>1. Committed(a)' = Committed(a)
  BY DEF Committed
<1>2. Held(a)' = Held(a)
  BY DEF Held
<1>3. QED
  BY <1>1, <1>2 DEF Fits

(* The committed tables are tables. *)
LEMMA TablesType == LedgerTypeOK => Tables \in TableSet
BY DEF LedgerTypeOK, Tables, TableSet

(* What a billing call finds are holds. *)
LEMMA FoundType ==
    ASSUME LedgerTypeOK, NEW c
    PROVE  FoundBy(c) \subseteq pending /\ FoundBy(c) \subseteq HoldRow
BY DEF LedgerTypeOK, FoundBy, StaleRows, Rows

(* What a row is billed is an amount. *)
LEMMA TokensType ==
    ASSUME LedgerTypeOK, NEW c \in Call, NEW row \in HoldRow
    PROVE  TokensFor(c, row) \in Nat
BY ChargeIsNat DEF TokensFor, Call

(* The half-billed tables are tables. *)
LEMMA BilledType ==
    ASSUME LedgerTypeOK, NEW c \in Call, NEW gone, NEW done, done \subseteq HoldRow
    PROVE  BilledTables(c, gone, done) \in TableSet
<1>1. ChargesFor(c, done) \subseteq LogRow
  <2>1. ASSUME NEW row \in done PROVE ChargeRow(row, TokensFor(c, row)) \in LogRow
    <3>1. TokensFor(c, row) \in Nat
      BY TokensType
    <3>2. row.handle \in Origin /\ charged[row.handle] \in Nat
      BY DEF HoldRow, LedgerTypeOK, Origin
    <3>3. QED
      BY <3>1, <3>2 DEF ChargeRow, LogRow, HoldRow
  <2>2. QED
    BY <2>1 DEF ChargesFor
<1>2. [o \in Origin |-> IF \E row \in done : row.handle = o
                        THEN charged[o] + 1 ELSE charged[o]] \in [Origin -> Nat]
  BY DEF LedgerTypeOK
<1>3. QED
  BY <1>1, <1>2 DEF BilledTables, TableSet, LedgerTypeOK

(* The tables with one more hold are tables. *)
LEMMA HeldType ==
    ASSUME LedgerTypeOK, NEW row \in HoldRow
    PROVE  HeldTables(row) \in TableSet
BY DEF HeldTables, TableSet, LedgerTypeOK, HoldRow

(* The tables without a refunded hold are tables. *)
LEMMA RefundedType ==
    ASSUME LedgerTypeOK, NEW h \in Handle
    PROVE  RefundedTables(h) \in TableSet
BY DEF RefundedTables, TableSet, LedgerTypeOK

(* Billing nothing leaves the tables alone. *)
LEMMA BilledNothing ==
    ASSUME LedgerTypeOK, NEW c
    PROVE  BilledTables(c, {}, {}) = Tables
BY DEF LedgerTypeOK, BilledTables, ChargesFor, Tables

-----------------------------------------------------------------------------
(* The statements that change something *)

(* The INSERT of a hold. *)
LEMMA HoldStatement ==
    ASSUME LedgerTypeOK, NEW s \in Stmt, s.kind = "hold", CallOK(s.call),
           Ready("hold", s.call), Works(s)
    PROVE  /\ UNCHANGED ledgerVars
           /\ view' \in TableSet /\ txn'
           /\ Left("hold", s.call)'
<1> DEFINE c == s.call
           row == Current(c)
<1>1. c.op = "hold" /\ NewHold(c) /\ FitsIn(c) /\ txn /\ view = Tables
  BY DEF Ready
<1>2. PICK h \in Handle \ issued, a \in Alias, e \in Estimate :
          /\ c.todo = {[handle |-> h, alias |-> a, estimate |-> e]}
          /\ c.n \in caps_seen[a]
  BY <1>1 DEF NewHold
<1>3. row = [handle |-> h, alias |-> a, estimate |-> e] /\ row \in HoldRow
  <2>1. row = [handle |-> h, alias |-> a, estimate |-> e]
    BY <1>2 DEF Current
  <2>2. [handle |-> h, alias |-> a, estimate |-> e] \in HoldRow
    BY DEF HoldRow
  <2>3. QED
    BY <2>1, <2>2
<1>4. UNCHANGED ledgerVars /\ txn' /\ view' = Effect(s, view)
  BY <1>1 DEF Works
<1>5. Effect(s, view) = HeldTables(row)
  BY <1>1 DEF Effect, HeldTables, Tables
<1>6. UNCHANGED <<pending, stale, spend_log, issued, refunded, charged, caps_seen>>
  BY <1>4 DEF ledgerVars, config
<1>7. HeldTables(row)' = HeldTables(row)
  BY <1>6 DEF HeldTables, Current
<1>8. NewHold(c)' /\ FitsIn(c)'
  <2>1. NewHold(c)'
    BY <1>1, <1>6 DEF NewHold
  <2>2. Fits(row.alias, row.estimate, c.n)' <=> Fits(row.alias, row.estimate, c.n)
    BY <1>6, SameFits DEF Current
  <2>3. QED
    BY <1>1, <2>1, <2>2 DEF FitsIn, Current
<1>9. Left("hold", c)'
  BY <1>1, <1>4, <1>5, <1>7, <1>8 DEF Left, Ready, BillingOp
<1>10. QED
  BY <1>3, <1>4, <1>5, <1>9, HeldType

(* Nobody commits: what the calls find and leave is the same. *)
LEMMA SameTables ==
    ASSUME UNCHANGED ledgerVars, NEW c, NEW gone, NEW done, NEW h
    PROVE  /\ Tables' = Tables
           /\ Rows(h)' = Rows(h)
           /\ FoundBy(c)' = FoundBy(c)
           /\ BilledTables(c, gone, done)' = BilledTables(c, gone, done)
           /\ RefundedTables(h)' = RefundedTables(h)
<1>1. UNCHANGED <<pending, stale, spend_log, issued, refunded, charged, ceiling_override>>
  BY DEF ledgerVars, config
<1>2. Tables' = Tables /\ Rows(h)' = Rows(h) /\ FoundBy(c)' = FoundBy(c)
  BY <1>1 DEF Tables, FoundBy, StaleRows, Rows
<1>3. RefundedTables(h)' = RefundedTables(h)
  BY <1>1, <1>2 DEF RefundedTables
<1>4. ChargesFor(c, done)' = ChargesFor(c, done)
  <2>1. \A row : ChargeRow(row, TokensFor(c, row))' = ChargeRow(row, TokensFor(c, row))
    BY <1>1 DEF ChargeRow, TokensFor, FailClosedCharge
  <2>2. QED
    BY <2>1 DEF ChargesFor
<1>5. BilledTables(c, gone, done)' = BilledTables(c, gone, done)
  BY <1>1, <1>4 DEF BilledTables
<1>6. QED
  BY <1>2, <1>3, <1>5

(* The DELETE of a refund. *)
LEMMA RefundStatement ==
    ASSUME LedgerTypeOK, NEW s \in Stmt, s.kind = "refund", CallOK(s.call),
           Ready("refund", s.call), Works(s)
    PROVE  /\ UNCHANGED ledgerVars
           /\ view' \in TableSet /\ txn'
           /\ Left("refund", s.call)'
<1> DEFINE h == s.call.h
<1>1. s.call.op = "refund" /\ view = Tables /\ h \in Handle
  BY DEF Ready, CallOK, LedgerTypeOK
<1>2. UNCHANGED ledgerVars /\ txn' /\ view' = Effect(s, Tables)
  BY <1>1 DEF Works
<1>3. Effect(s, Tables) = RefundedTables(h)
  BY DEF Effect, RefundedTables, Tables, Rows
<1>4. view' = RefundedTables(h)'
  BY <1>2, <1>3, SameTables
<1>5. Left("refund", s.call)'
  BY <1>1, <1>2, <1>4 DEF Left, Ready, NewHold, BillingOp
<1>6. QED
  BY <1>1, <1>2, <1>3, <1>5, RefundedType

(* The DELETE of a hold that is about to be billed. *)
LEMMA DeleteStatement ==
    ASSUME LedgerTypeOK, NEW s \in Stmt, s.kind = "delete", CallOK(s.call),
           Ready("delete", s.call), Works(s)
    PROVE  /\ UNCHANGED ledgerVars
           /\ view' \in TableSet /\ txn'
           /\ Left("delete", s.call)'
<1> DEFINE c == s.call
           row == Current(c)
           done == FoundBy(c) \ c.todo
           next == BilledTables(c, done \cup {row}, done)
<1>1. Billing(c) /\ txn /\ view = BilledTables(c, done, done)
  BY DEF Ready, Billing
<1>2. UNCHANGED ledgerVars /\ txn' /\ view' = Effect(s, view)
  BY <1>1 DEF Works
<1>3. Effect(s, view) = next
  BY <1>1 DEF Effect, BilledTables
<1>4. next' = next /\ FoundBy(c)' = FoundBy(c) /\ row' = row
  <2>1. row' = row
    BY DEF Current
  <2>2. \A gone, paid : BilledTables(c, gone, paid)' = BilledTables(c, gone, paid)
    BY <1>2, SameTables
  <2>3. FoundBy(c)' = FoundBy(c)
    BY <1>2, SameTables
  <2>4. QED
    BY <2>1, <2>2, <2>3
<1>5. Billing(c)'
  BY <1>1, <1>2, <1>4 DEF Billing
<1>6. Left("delete", c)'
  BY <1>1, <1>2, <1>3, <1>4, <1>5 DEF Left, Ready
<1>7. next \in TableSet
  BY FoundType, BilledType DEF CallOK
<1>8. QED
  BY <1>2, <1>3, <1>6, <1>7

(* The INSERT of a charge: no row billed so far has this row's handle, so it
   is numbered as the whole operation would number it. *)
LEMMA ChargeStatement ==
    ASSUME LedgerTypeOK, RowsDistinct, NEW s \in Stmt, s.kind = "charge",
           CallOK(s.call), Ready("charge", s.call), Works(s)
    PROVE  /\ UNCHANGED ledgerVars
           /\ view' \in TableSet /\ txn'
           /\ Left("charge", s.call)'
<1> DEFINE c == s.call
           row == Current(c)
           done == FoundBy(c) \ c.todo
           paid == done \cup {row}
           next == BilledTables(c, paid, paid)
           new == [origin |-> row.handle, nth |-> view.charged[row.handle],
                   alias |-> row.alias, tokens |-> Charge(c), estimate |-> row.estimate]
<1>1. Billing(c) /\ txn /\ view = BilledTables(c, paid, done)
  BY DEF Ready, Billing
<1>2. /\ FoundBy(c) \subseteq pending /\ FoundBy(c) \subseteq HoldRow
      /\ row \in FoundBy(c) /\ row \notin done /\ row.handle \in Origin
  <2>1. row \in c.todo
    BY <1>1, CurrentIn DEF Billing
  <2>2. c.todo \subseteq FoundBy(c)
    BY <1>1 DEF Billing
  <2>3. FoundBy(c) \subseteq pending /\ FoundBy(c) \subseteq HoldRow
    BY FoundType
  <2> HIDE DEF row, c
  <2>4. row \in HoldRow
    BY <2>1, <2>2, <2>3
  <2>5. row.handle \in Origin
    BY <2>4 DEF HoldRow, Origin
  <2>6. QED
    BY <2>1, <2>2, <2>3, <2>5
<1>3. UNCHANGED ledgerVars /\ txn' /\ view' = Effect(s, view)
  BY <1>1 DEF Works
<1>4. Effect(s, view) = [view EXCEPT !.spend_log = @ \cup {new},
                                     !.charged[row.handle] = @ + 1]
  BY DEF Effect
<1> HIDE DEF c, row
<1>5. \A r \in done : r.handle # row.handle
  BY <1>2 DEF RowsDistinct
<1>6. view.charged[row.handle] = charged[row.handle]
  BY <1>1, <1>2, <1>5 DEF BilledTables
<1>7. new = ChargeRow(row, TokensFor(c, row))
  <2>1. Charge(c) = TokensFor(c, row)
    BY DEF Charge, TokensFor, row
  <2>2. QED
    BY <1>6, <2>1 DEF ChargeRow
<1>8. ChargesFor(c, paid) = ChargesFor(c, done) \cup {new}
  BY <1>7 DEF ChargesFor
<1> HIDE DEF new
<1>9. [view EXCEPT !.spend_log = @ \cup {new}, !.charged[row.handle] = @ + 1] = next
  <2>1. view.spend_log \cup {new} = next.spend_log
    BY <1>1, <1>8 DEF BilledTables
  <2>2. [view.charged EXCEPT ![row.handle] = @ + 1] = next.charged
    <3>1. view.charged = [o \in Origin |-> IF \E r \in done : r.handle = o
                                           THEN charged[o] + 1 ELSE charged[o]]
      BY <1>1 DEF BilledTables
    <3>2. next.charged = [o \in Origin |-> IF \E r \in paid : r.handle = o
                                           THEN charged[o] + 1 ELSE charged[o]]
      BY DEF BilledTables
    <3>3. QED
      BY <3>1, <3>2, <1>2, <1>5
  <2> DEFINE logged == [view EXCEPT !.spend_log = @ \cup {new}]
  <2>3. [view EXCEPT !.spend_log = @ \cup {new}, !.charged[row.handle] = @ + 1]
            = [pending |-> view.pending, spend_log |-> view.spend_log \cup {new},
               issued |-> view.issued, refunded |-> view.refunded,
               charged |-> [view.charged EXCEPT ![row.handle] = @ + 1]]
    <3>1. logged = [pending |-> view.pending, spend_log |-> view.spend_log \cup {new},
                    issued |-> view.issued, refunded |-> view.refunded,
                    charged |-> view.charged]
      <4>1. view = [pending |-> view.pending, spend_log |-> view.spend_log,
                    issued |-> view.issued, refunded |-> view.refunded,
                    charged |-> view.charged]
        BY <1>1 DEF BilledTables
      <4>2. QED
        BY <4>1
    <3>2. [view EXCEPT !.spend_log = @ \cup {new}, !.charged[row.handle] = @ + 1]
              = [logged EXCEPT !.charged[row.handle] = @ + 1]
      BY <1>1 DEF BilledTables
    <3> HIDE DEF logged
    <3>3. QED
      BY <3>1, <3>2
  <2>4. /\ view.pending = next.pending /\ view.issued = next.issued
        /\ view.refunded = next.refunded
    BY <1>1 DEF BilledTables
  <2>5. next = [pending |-> next.pending, spend_log |-> next.spend_log,
                issued |-> next.issued, refunded |-> next.refunded,
                charged |-> next.charged]
    BY DEF BilledTables
  <2> HIDE DEF next
  <2>6. QED
    BY <2>1, <2>2, <2>3, <2>4, <2>5
<1>10. next' = next /\ FoundBy(c)' = FoundBy(c) /\ row' = row /\ c' = c
  <2>1. row' = row /\ c' = c
    BY DEF row, c, Current
  <2>2. \A gone, some : BilledTables(c, gone, some)' = BilledTables(c, gone, some)
    BY <1>3, SameTables DEF c
  <2>3. FoundBy(c)' = FoundBy(c)
    BY <1>3, SameTables DEF c
  <2>4. QED
    BY <2>1, <2>2, <2>3
<1>11. Left("charge", s.call)'
  BY <1>1, <1>3, <1>4, <1>9, <1>10 DEF Left, Billing, c, row
<1>12. next \in TableSet
  BY <1>2, BilledType DEF CallOK, c
<1>13. QED
  BY <1>3, <1>4, <1>9, <1>11, <1>12

(* A COMMIT publishes one whole operation of SpendLedger. *)
LEMMA CommitStatement ==
    ASSUME LedgerInv, StaleHeld, NEW s \in Stmt, s.kind = "commit",
           CallOK(s.call), Ready("commit", s.call), Works(s)
    PROVE  LedgerNext /\ StaleHeld' /\ view' = Tables' /\ ~txn'
<1> DEFINE c == s.call
<1>1. /\ txn /\ NewHold(c) /\ c.op # "budget" /\ c.op \in Op
      /\ Publish(view) /\ view' = Tables' /\ ~txn'
  BY DEF Ready, Works, CallOK, Call
<1>2. StaleHeld'
  BY <1>1 DEF Publish, StaleHeld, Rows
<1>3. LedgerTypeOK /\ RowsDistinct
  BY DEF LedgerInv
<1>4. CASE c.op = "hold"
  <2>1. FitsIn(c) /\ view = HeldTables(Current(c))
    BY <1>4 DEF Ready
  <2>2. PICK h \in Handle \ issued, a \in Alias, e \in Estimate :
            /\ c.todo = {[handle |-> h, alias |-> a, estimate |-> e]}
            /\ c.n \in caps_seen[a]
    BY <1>1, <1>4 DEF NewHold
  <2> DEFINE row == [handle |-> h, alias |-> a, estimate |-> e]
  <2>3. Current(c) = row
    BY <2>2 DEF Current
  <2>4. Fits(a, e, c.n)
    BY <2>1, <2>3, <1>4 DEF FitsIn
  <2>5. stale' = stale
    BY <1>1, <2>1, <2>3, <1>3 DEF Publish, HeldTables, StaleHeld, Rows, LedgerTypeOK
  <2>6. Hold(h, a, e, c.n)
    BY <1>1, <2>1, <2>3, <2>4, <2>5 DEF Publish, HeldTables, Hold
  <2>7. QED
    BY <1>2, <1>1, <2>2, <2>6 DEF LedgerNext
<1>5. CASE c.op = "refund"
  <2>1. c.h \in issued /\ view = RefundedTables(c.h)
    BY <1>5 DEF Ready, CallOK
  <2>2. stale' = stale \ {c.h}
    BY <1>1, <2>1 DEF Publish, RefundedTables, StaleHeld, Rows
  <2>3. Refund(c.h)
    BY <1>1, <2>1, <2>2 DEF Publish, RefundedTables, Refund
  <2>4. QED
    BY <1>2, <1>1, <2>1, <2>3 DEF LedgerNext
<1>6. CASE c.op \in BillingOp
  <2> DEFINE found == FoundBy(c)
             tokens == [row \in found |-> TokensFor(c, row)]
  <2>1. view = BilledTables(c, found, found)
    BY <1>6 DEF Ready
  <2>2. found \subseteq pending
    BY <1>3, FoundType
  <2>3. stale' = stale \ {row.handle : row \in found}
    BY <1>1, <2>1, <2>2, <1>3 DEF Publish, BilledTables, StaleHeld, Rows, RowsDistinct
  <2>4. ChargesFor(c, found) = {ChargeRow(row, tokens[row]) : row \in found}
    BY DEF ChargesFor
  <2>5. Bill(found, tokens)
    <3> HIDE DEF found, tokens, c
    <3>1. QED
      BY <1>1, <2>1, <2>3, <2>4 DEF Publish, BilledTables, Bill
  <2>6. CASE c.op = "settle"
    <3>1. found = Rows(c.h) /\ tokens = [row \in Rows(c.h) |-> c.n]
      BY <2>6 DEF FoundBy, TokensFor
    <3>2. Settle(c.h, c.n) /\ c.h \in issued /\ c.n \in Usage
      BY <2>5, <2>6, <3>1 DEF Settle, CallOK
    <3>3. QED
      BY <3>2, <1>2, <1>1 DEF LedgerNext
  <2>7. CASE c.op = "estimate"
    <3>1. found = Rows(c.h) /\ tokens = FailClosedCharges(Rows(c.h))
      BY <2>7 DEF FoundBy, TokensFor, FailClosedCharges
    <3>2. SettleAtEstimate(c.h) /\ c.h \in issued
      BY <2>5, <2>7, <3>1 DEF SettleAtEstimate, CallOK
    <3>3. QED
      BY <3>2, <1>2, <1>1 DEF LedgerNext
  <2>8. CASE c.op = "sweep"
    <3>1. found = StaleRows /\ tokens = FailClosedCharges(StaleRows)
      BY <2>8 DEF FoundBy, TokensFor, FailClosedCharges
    <3>2. Sweep
      BY <2>5, <3>1 DEF Sweep
    <3>3. QED
      BY <3>2, <1>2, <1>1 DEF LedgerNext
  <2>9. QED
    BY <1>6, <2>6, <2>7, <2>8 DEF BillingOp
<1>7. QED
  BY <1>1, <1>4, <1>5, <1>6 DEF Op, BillingOp

(* No operation forgets a handle. *)
LEMMA IssuedGrows == [LedgerNext]_ledgerVars => issued \subseteq issued'
BY DEF LedgerNext, ledgerVars, Hold, Settle, SettleAtEstimate, Sweep, Bill, Refund,
       GrowOld, RecordSpend, SetSpendCap, SetCeilingOverride, PruneOldSpendLog, config

(* What a statement that changes something leaves behind. *)
LEMMA ChangingStatement ==
    ASSUME ConnInv, NEW s \in Stmt, s.kind \in Changing, CallOK(s.call),
           Ready(s.kind, s.call), Works(s)
    PROVE  /\ [LedgerNext]_ledgerVars /\ StaleHeld'
           /\ view' \in TableSet /\ txn' \in BOOLEAN
           /\ ~txn' => view' = Tables'
           /\ Left(s.kind, s.call)'
<1>1. LedgerInv /\ StaleHeld /\ LedgerTypeOK /\ RowsDistinct
  BY DEF ConnInv, LedgerInv
<1>2. CASE s.kind = "commit"
  <2>1. LedgerNext /\ StaleHeld' /\ view' = Tables' /\ ~txn'
    BY <1>1, <1>2, CommitStatement
  <2>2. LedgerTypeOK'
    BY <1>1, <2>1, LedgerInvStep DEF LedgerInv
  <2>3. view' \in TableSet
    BY <2>1, <2>2 DEF LedgerTypeOK, Tables, TableSet
  <2>4. Left("commit", s.call)'
    BY <2>1 DEF Left
  <2>5. txn' = FALSE
    BY <1>2 DEF Works
  <2>6. QED
    BY <1>2, <2>1, <2>3, <2>4, <2>5
<1>3. CASE s.kind # "commit"
  <2>1. UNCHANGED ledgerVars /\ view' \in TableSet /\ txn' /\ Left(s.kind, s.call)'
    BY <1>1, <1>3, HoldStatement, DeleteStatement, ChargeStatement, RefundStatement
       DEF Changing
  <2>2. StaleHeld'
    BY <1>1, <2>1 DEF StaleHeld, Rows, ledgerVars
  <2>3. QED
    BY <2>1, <2>2
<1>4. QED
  BY <1>2, <1>3

(* The others leave the tables alone. *)
LEMMA QuietStatement ==
    ASSUME ConnInv, NEW s \in Stmt, s.kind \notin Changing, Works(s)
    PROVE  /\ UNCHANGED ledgerVars
           /\ view' \in {view, Tables} /\ txn' \in BOOLEAN
           /\ ~txn' => view' = Tables'
           /\ Ready(s.kind, s.call) => Left(s.kind, s.call)'
<1>1. s.kind \in {"begin", "read", "rollback"}
  BY DEF Changing, Stmt, Kind
<1>2. UNCHANGED ledgerVars
  BY <1>1 DEF Works
<1>3. Tables' = Tables
  BY <1>2, SameTables
<1>4. view' \in {view, Tables} /\ txn' \in BOOLEAN
  BY <1>1 DEF Works, ConnInv, TaskTypeOK
<1>5. ~txn' => view' = Tables'
  BY <1>1, <1>3 DEF Works, ConnInv, ClosedViewOK
<1>6. ASSUME Ready(s.kind, s.call) PROVE Left(s.kind, s.call)'
  <2>1. CASE s.kind = "rollback"
    <3>1. Left("rollback", s.call)'
      BY <2>1 DEF Works, Left
    <3>2. QED
      BY <2>1, <3>1
  <2>2. CASE s.kind \in {"begin", "read"}
    <3>1. NewHold(s.call) /\ s.call.op # "refund" /\ view = Tables
      BY <1>6, <2>2 DEF Ready
    <3>2. NewHold(s.call)'
      BY <1>2, <3>1 DEF NewHold, ledgerVars, config
    <3>3. view' = Tables'
      BY <1>3, <1>4, <3>1
    <3>4. txn'
      BY <1>6, <2>2 DEF Works, Ready
    <3>5. Left("begin", s.call)' /\ Left("read", s.call)'
      BY <3>1, <3>2, <3>3, <3>4 DEF Left, Ready
    <3>6. QED
      BY <2>2, <3>5
  <2>3. QED
    BY <1>1, <2>1, <2>2
<1>7. QED
  BY <1>2, <1>4, <1>5, <1>6

-----------------------------------------------------------------------------
(* The queue *)

(* Taking the head of a queue. *)
LEMMA PopQueue ==
    ASSUME NEW S, NEW q \in Seq(S), q # <<>>
    PROVE  /\ Tail(q) \in Seq(S) /\ Head(q) = q[1] /\ q[1] \in S
           /\ Len(q) \in Nat /\ Len(q) >= 1 /\ Len(Tail(q)) = Len(q) - 1
           /\ \A i \in 1..Len(Tail(q)) : i + 1 \in 1..Len(q) /\ Tail(q)[i] = q[i+1]
OBVIOUS

(* Adding one more element to it. *)
LEMMA PushQueue ==
    ASSUME NEW S, NEW q \in Seq(S), NEW s \in S
    PROVE  /\ Append(q, s) \in Seq(S) /\ Append(q, s) # <<>>
           /\ Len(q) \in Nat /\ Len(Append(q, s)) = Len(q) + 1
           /\ Append(q, s)[Len(q) + 1] = s
           /\ \A i \in 1..Len(q) : Append(q, s)[i] = q[i]
OBVIOUS

(* The worker takes the head: what is left of the queue is in order, because
   only rollbacks follow a statement that changes something. *)
LEMMA PopStep ==
    ASSUME ConnInv, queue # <<>>, queue' = Tail(queue), UNCHANGED <<lock, call>>,
           \/ Head(queue).kind \in Changing
           \/ UNCHANGED ledgerVars /\ view' \in {view, Tables}
    PROVE  queue' \in Seq(Stmt) /\ WaitingOK' /\ ChangesOK' /\ BeginsOK'
<1>1. /\ queue' \in Seq(Stmt) /\ Head(queue) = queue[1]
      /\ Len(queue) \in Nat /\ Len(queue) >= 1 /\ Len(queue') = Len(queue) - 1
      /\ \A i \in 1..Len(queue') : i + 1 \in 1..Len(queue) /\ queue'[i] = queue[i+1]
  BY PopQueue DEF ConnInv, TaskTypeOK
<1>2. WaitingOK'
  BY <1>1 DEF WaitingOK, ConnInv
<1>3. CASE queue[1].kind \in Changing
  <2>1. \A i \in 1..Len(queue') : queue'[i].kind = "rollback"
    BY <1>1, <1>3 DEF ChangesOK, ConnInv
  <2>2. QED
    BY <1>1, <1>2, <2>1 DEF ChangesOK, BeginsOK, Changing
<1>4. CASE UNCHANGED ledgerVars /\ view' \in {view, Tables}
  <2>1. Tables' = Tables
    BY <1>4, SameTables
  <2>2. ASSUME NEW c, view = Tables, NewHold(c) PROVE view' = Tables' /\ NewHold(c)'
    BY <1>4, <2>1, <2>2 DEF NewHold, ledgerVars, config
  <2>3. ASSUME NEW i \in 1..Len(queue'), queue'[i].kind \in Changing
        PROVE  /\ lock' # None
               /\ queue'[i].call = call'[lock']
               /\ queue'[i].kind = "refund"
               /\ \A j \in 1..Len(queue') : j > i => queue'[j].kind = "rollback"
               /\ Ready(queue[i].kind, queue[i].call)'
    <3>1. /\ lock # None /\ queue[i+1].call = call[lock] /\ queue[i+1].kind = "refund"
          /\ \A j \in 1..Len(queue) : j > i + 1 => queue[j].kind = "rollback"
          /\ Ready("refund", queue[i+1].call)
      BY <1>1, <2>3 DEF ChangesOK, ConnInv
    <3> DEFINE c == queue[i+1].call
    <3>2. c.op = "refund" /\ view = Tables
      BY <3>1 DEF Ready
    <3>3. view' = Tables'
      BY <1>4, <2>1, <3>2
    <3>4. queue'[i].call = c /\ queue'[i].kind = "refund"
      BY <1>1, <3>1
    <3>5. Ready(queue[i].kind, queue[i].call)'
      BY <3>2, <3>3, <3>4 DEF Ready
    <3>6. \A j \in 1..Len(queue') : j > i => queue'[j].kind = "rollback"
      BY <1>1, <3>1
    <3>7. QED
      BY <3>1, <3>4, <3>5, <3>6
  <2>4. ASSUME NEW i \in 1..Len(queue'), queue'[i].by # None,
               queue'[i].kind \in {"begin", "read"}
        PROVE  queue'[i].kind # "read" /\ Ready(queue[i].kind, queue[i].call)'
    <3> DEFINE c == queue[i+1].call
    <3>1. queue'[i] = queue[i+1] /\ queue[i+1].kind # "read"
      BY <1>1, <2>4 DEF BeginsOK, ConnInv
    <3>2. queue[i+1].kind = "begin" /\ Ready("begin", c)
      BY <1>1, <2>4, <3>1 DEF BeginsOK, ConnInv
    <3>3. NewHold(c) /\ c.op # "refund" /\ view = Tables
      BY <3>2 DEF Ready
    <3>4. view' = Tables' /\ NewHold(queue[i].call)'
      BY <2>2, <3>1, <3>3
    <3>5. Ready(queue[i].kind, queue[i].call)'
      BY <3>1, <3>2, <3>3, <3>4 DEF Ready
    <3>6. QED
      BY <3>1, <3>5
  <2>5. ChangesOK'
    BY <2>3 DEF ChangesOK
  <2>6. BeginsOK'
    BY <2>4 DEF BeginsOK
  <2>7. QED
    BY <1>1, <1>2, <2>5, <2>6
<1>5. QED
  BY <1>1, <1>3, <1>4

(* Nobody waits for the head: the lock's holder waits for a later statement. *)
LEMMA HolderStays ==
    ASSUME ConnInv, queue # <<>>, queue' = Tail(queue), Head(queue).by = None,
           UNCHANGED <<lock, call, awaits, answer>>, lock # None,
           issued \subseteq issued',
           \/ Head(queue).kind \in Changing
           \/ UNCHANGED ledgerVars /\ view' \in {view, Tables}
    PROVE  HolderOK(lock)'
<1>1. /\ Head(queue) = queue[1] /\ Len(queue) \in Nat /\ Len(queue) >= 1
      /\ Len(queue') = Len(queue) - 1
      /\ \A i \in 1..Len(queue') : queue'[i] = queue[i+1]
  BY PopQueue DEF ConnInv, TaskTypeOK
<1>2. lock \in Task /\ HolderOK(lock) /\ ChangesOK
  BY DEF ConnInv, TaskTypeOK
<1>3. answer[lock] = "none" /\ queue[Len(queue)] = Statement(lock, awaits[lock], call[lock])
  BY <1>2 DEF HolderOK
<1>4. Len(queue) > 1
  BY <1>1, <1>3 DEF Statement
<1>5. queue' # <<>> /\ queue'[Len(queue')] = queue[Len(queue)]
  BY <1>1, <1>4
<1>6. CallOK(call[lock])'
  BY <1>2 DEF HolderOK, CallOK
<1>7. ASSUME call[lock].op = "budget" PROVE view' = Tables'
  <2>1. view = Tables
    BY <1>2, <1>7 DEF HolderOK
  <2>2. queue[1].kind \notin Changing
    <3>1. SUFFICES ASSUME queue[1].kind \in Changing PROVE FALSE
      OBVIOUS
    <3>2. Ready(queue[1].kind, queue[1].call) /\ queue[1].call.op = "budget"
      BY <1>1, <1>2, <1>7, <3>1 DEF ChangesOK
    <3>3. QED
      BY <3>1, <3>2 DEF Ready, Changing, Billing, BillingOp
  <2>3. UNCHANGED ledgerVars /\ view' \in {view, Tables}
    BY <1>1, <2>2
  <2>4. Tables' = Tables
    BY <2>3, SameTables
  <2>5. QED
    BY <2>1, <2>3, <2>4
<1>8. QED
  BY <1>2, <1>3, <1>5, <1>6, <1>7 DEF HolderOK, Statement

(* Somebody waits for the head: it is the lock's holder, and the head is the
   only statement in the queue. *)
LEMMA HolderWaits ==
    ASSUME ConnInv, queue # <<>>, Head(queue).by # None
    PROVE  /\ lock \in Task /\ HolderOK(lock) /\ answer[lock] = "none"
           /\ Head(queue) = queue[1] /\ 1 \in 1..Len(queue)
           /\ Head(queue).by = lock /\ Head(queue).kind = awaits[lock]
           /\ Head(queue).call = call[lock] /\ Tail(queue) = <<>>
<1>1. /\ Head(queue) = queue[1] /\ Len(queue) \in Nat /\ Len(queue) >= 1
      /\ queue \in Seq(Stmt) /\ Len(Tail(queue)) = Len(queue) - 1
  BY PopQueue DEF ConnInv, TaskTypeOK
<1>2. queue[1].by = lock /\ Len(queue) = 1
  BY <1>1 DEF ConnInv, WaitingOK
<1>3. lock \in Task /\ HolderOK(lock)
  BY <1>1, <1>2 DEF ConnInv, TaskTypeOK
<1>4. Tail(queue) = <<>>
  <2> DEFINE rest == Tail(queue)
  <2>1. rest \in Seq(Stmt) /\ Len(rest) = 0
    BY <1>1, <1>2
  <2> HIDE DEF rest
  <2>2. rest = <<>>
    BY <2>1
  <2>3. QED
    BY <2>2 DEF rest
<1>5. answer[lock] = "none"
  BY <1>3 DEF HolderOK
<1>6. queue[1] = Statement(lock, awaits[lock], call[lock])
  BY <1>2, <1>3, <1>5 DEF HolderOK
<1>7. QED
  BY <1>1, <1>2, <1>3, <1>4, <1>5, <1>6 DEF Statement

-----------------------------------------------------------------------------
(* The steps *)

(* The worker executes a statement: the tables change by one operation or not
   at all, and whoever waits finds what its next statement needs. *)
LEMMA ExecuteStep ==
    ASSUME ConnInv, Execute
    PROVE  ConnInv' /\ [LedgerNext]_ledgerVars
<1>1. queue # <<>> /\ queue' = Tail(queue) /\ UNCHANGED <<lock, call, awaits, counts>>
  BY DEF Execute
<1>2. Head(queue) = queue[1] /\ queue[1] \in Stmt /\ 1 \in 1..Len(queue)
  BY <1>1, PopQueue DEF ConnInv, TaskTypeOK
<1> PICK s \in Stmt : s = Head(queue) /\ s = queue[1] /\ Works(s) /\ Answered(s, "ok")
  BY <1>2 DEF Execute
<1>3. ASSUME s.kind \in Changing
      PROVE  lock \in Task /\ CallOK(s.call) /\ Ready(s.kind, s.call)
  <2>1. lock # None /\ s.call = call[lock] /\ Ready(s.kind, s.call)
    BY <1>2, <1>3 DEF ConnInv, ChangesOK
  <2>2. CallOK(call[lock]) /\ lock \in Task
    BY <2>1 DEF ConnInv, HolderOK, TaskTypeOK
  <2>3. QED
    BY <2>1, <2>2
<1>4. /\ [LedgerNext]_ledgerVars /\ StaleHeld'
      /\ view' \in TableSet /\ txn' \in BOOLEAN
      /\ ~txn' => view' = Tables'
      /\ Ready(s.kind, s.call) => Left(s.kind, s.call)'
      /\ s.kind \in Changing \/ (UNCHANGED ledgerVars /\ view' \in {view, Tables})
  <2>1. CASE s.kind \in Changing
    <3>1. CallOK(s.call) /\ Ready(s.kind, s.call) /\ Works(s)
      BY <1>3, <2>1
    <3>2. /\ [LedgerNext]_ledgerVars /\ StaleHeld'
          /\ view' \in TableSet /\ txn' \in BOOLEAN
          /\ ~txn' => view' = Tables'
          /\ Left(s.kind, s.call)'
      BY <2>1, <3>1, ChangingStatement
    <3>3. QED
      BY <2>1, <3>2
  <2>2. CASE s.kind \notin Changing
    <3>1. /\ UNCHANGED ledgerVars
          /\ view' \in {view, Tables} /\ txn' \in BOOLEAN
          /\ ~txn' => view' = Tables'
          /\ Ready(s.kind, s.call) => Left(s.kind, s.call)'
      BY <1>1, <1>2, <2>2, QuietStatement
    <3>2. StaleHeld'
      BY <3>1 DEF ConnInv, StaleHeld, Rows, ledgerVars
    <3>3. view' \in TableSet
      BY <3>1, TablesType DEF ConnInv, LedgerInv, TaskTypeOK
    <3>4. QED
      BY <3>1, <3>2, <3>3
  <2>3. QED
    BY <2>1, <2>2
<1>5. LedgerInv' /\ issued \subseteq issued'
  BY <1>4, LedgerInvStep, IssuedGrows DEF ConnInv
<1>6. queue' \in Seq(Stmt) /\ WaitingOK' /\ ChangesOK' /\ BeginsOK'
  BY <1>1, <1>4, PopStep 
<1>7. s.by # None => s.by = lock /\ lock \in Task
  BY <1>1, HolderWaits 
<1>8. TaskTypeOK'
  BY <1>1, <1>4, <1>6, <1>7 DEF Answered, counts, ConnInv, TaskTypeOK
<1>9. OthersIdle'
  BY <1>1, <1>7 DEF Answered, ConnInv, TaskTypeOK, OthersIdle
<1>10. ClosedViewOK'
  <2>1. ASSUME lock = None PROVE view' = Tables'
    <3>1. UNCHANGED ledgerVars /\ view' \in {view, Tables} /\ view = Tables
      BY <1>3, <1>4, <2>1 DEF ConnInv, ClosedViewOK
    <3>2. QED
      BY <3>1, SameTables
  <2>2. QED
    BY <1>1, <1>4, <2>1 DEF ClosedViewOK
<1>11. ASSUME lock # None PROVE HolderOK(lock)'
  <2>1. CASE s.by = None
    BY <1>1, <1>4, <1>5, <1>11, <2>1, HolderStays DEF Answered
  <2>2. CASE s.by # None
    <3>1. /\ lock \in Task /\ HolderOK(lock) /\ s.kind = awaits[lock]
          /\ s.call = call[lock] /\ queue' = <<>>
      BY <1>1, <2>2, HolderWaits 
    <3>2. answer'[lock'] = "ok"
      BY <1>1, <1>7, <2>2, <3>1 DEF Answered, ConnInv, TaskTypeOK
    <3>3. CallOK(call[lock])'
      BY <1>1, <1>5, <3>1 DEF HolderOK, CallOK
    <3>4. Left(awaits[lock], call[lock])'
      <4>1. CASE s.kind \in Changing
        BY <4>1, <3>1, <1>1, <1>3, <1>4
      <4>2. CASE s.kind \in {"begin", "read"}
        <5>1. Ready(s.kind, s.call)
          BY <1>2, <2>2, <4>2 DEF ConnInv, BeginsOK
        <5>2. QED
          BY <5>1, <3>1, <1>1, <1>4
      <4>3. CASE s.kind = "rollback"
        <5>1. Ready(s.kind, s.call)
          BY <4>3 DEF Ready
        <5>2. QED
          BY <5>1, <3>1, <1>1, <1>4
      <4>4. QED
        BY <4>1, <4>2, <4>3 DEF Stmt, Kind, Changing
    <3>5. ASSUME call[lock].op = "budget"
          PROVE  awaits[lock] \in {"begin", "read", "rollback"} /\ view' = Tables'
      <4>1. awaits[lock] \in {"begin", "read", "rollback"} /\ view = Tables
        BY <3>1, <3>5 DEF HolderOK
      <4>2. UNCHANGED ledgerVars /\ view' \in {view, Tables}
        BY <1>4, <3>1, <4>1 DEF Changing
      <4>3. QED
        BY <4>1, <4>2, SameTables
    <3>6. QED
      BY <1>1, <3>1, <3>2, <3>3, <3>4, <3>5 DEF HolderOK
  <2>3. QED
    BY <2>1, <2>2
<1>12. QED
  BY <1>1, <1>4, <1>5, <1>6, <1>8, <1>9, <1>10, <1>11 DEF ConnInv

(* A statement raises: nothing but the answer changes. *)
LEMMA RaisesStep ==
    ASSUME ConnInv, Raises
    PROVE  ConnInv' /\ UNCHANGED ledgerVars
<1>1. /\ queue # <<>> /\ queue' = Tail(queue)
      /\ UNCHANGED <<ledgerVars, lock, call, awaits, txn, view, cancels, crashes>>
  BY DEF Raises
<1>2. Head(queue) = queue[1] /\ queue[1] \in Stmt /\ 1 \in 1..Len(queue)
  BY <1>1, PopQueue DEF ConnInv, TaskTypeOK
<1> PICK s \in Stmt : /\ s = Head(queue) /\ s = queue[1] /\ s.kind # "rollback"
                      /\ Answered(s, "error")
  BY <1>2 DEF Raises
<1>3. Tables' = Tables
  BY <1>1, SameTables
<1>4. LedgerInv' /\ StaleHeld'
  BY <1>1, LedgerInvStep DEF ConnInv, StaleHeld, Rows, ledgerVars
<1>5. queue' \in Seq(Stmt) /\ WaitingOK' /\ ChangesOK' /\ BeginsOK'
  BY <1>1, PopStep
<1>6. s.by # None => s.by = lock /\ lock \in Task
  BY <1>1, HolderWaits
<1>7. faults' \in 0..MaxFaults
  BY DEF Raises, ConnInv, TaskTypeOK
<1>8. TaskTypeOK'
  BY <1>1, <1>5, <1>6, <1>7 DEF Answered, ConnInv, TaskTypeOK
<1>9. OthersIdle' /\ ClosedViewOK'
  BY <1>1, <1>3, <1>6 DEF Answered, ConnInv, TaskTypeOK, OthersIdle, ClosedViewOK
<1>10. ASSUME lock # None PROVE HolderOK(lock)'
  <2>1. CASE s.by = None
    BY <1>1, <1>10, <2>1, HolderStays DEF Answered, ledgerVars
  <2>2. CASE s.by # None
    <3>1. /\ lock \in Task /\ HolderOK(lock) /\ s.kind = awaits[lock]
          /\ s.call = call[lock] /\ queue' = <<>>
      BY <1>1, <2>2, HolderWaits
    <3>2. answer'[lock'] = "error"
      BY <1>1, <1>6, <2>2, <3>1 DEF Answered, ConnInv, TaskTypeOK
    <3>3. CallOK(call[lock])'
      BY <1>1, <3>1 DEF HolderOK, CallOK, ledgerVars
    <3>4. awaits[lock] = "begin" => view' = Tables'
      BY <1>1, <1>2, <1>3, <2>2, <3>1 DEF ConnInv, BeginsOK, Ready
    <3>5. call[lock].op = "budget" =>
              awaits[lock] \in {"begin", "read", "rollback"} /\ view' = Tables'
      BY <1>1, <1>3, <3>1 DEF HolderOK
    <3>6. QED
      BY <1>1, <3>1, <3>2, <3>3, <3>4, <3>5 DEF HolderOK
  <2>3. QED
    BY <2>1, <2>2
<1>11. QED
  BY <1>1, <1>4, <1>5, <1>8, <1>9, <1>10 DEF ConnInv

(* Whatever a coroutine does, a statement that was ready stays so. *)
LEMMA SameReady ==
    ASSUME UNCHANGED <<ledgerVars, txn, view>>, NEW kind, NEW c
    PROVE  /\ Ready(kind, c) => Ready(kind, c)'
           /\ CallOK(c) => CallOK(c)'
<1>1. UNCHANGED <<pending, spend_log, issued, refunded, charged, caps_seen>>
  BY DEF ledgerVars, config
<1>2. CallOK(c) => CallOK(c)'
  BY <1>1 DEF CallOK
<1>3. NewHold(c) => NewHold(c)'
  BY <1>1 DEF NewHold
<1>4. FitsIn(c) => FitsIn(c)'
  <2>1. Current(c)' = Current(c)
    BY DEF Current
  <2>2. \A a, e, n : Fits(a, e, n)' <=> Fits(a, e, n)
    BY <1>1, SameFits
  <2>3. Fits(Current(c).alias, Current(c).estimate, c.n)
            => Fits(Current(c).alias, Current(c).estimate, c.n)'
    BY <2>1, <2>2
  <2>4. QED
    BY <2>3 DEF FitsIn
<1>5. Current(c)' = Current(c) /\ HeldTables(Current(c))' = HeldTables(Current(c))
  BY <1>1 DEF Current, HeldTables
<1>6. /\ Tables' = Tables /\ FoundBy(c)' = FoundBy(c)
      /\ RefundedTables(c.h)' = RefundedTables(c.h)
  BY SameTables
<1>7. \A gone, done : BilledTables(c, gone, done)' = BilledTables(c, gone, done)
  BY SameTables
<1> DEFINE rest == FoundBy(c) \ c.todo
           most == rest \cup {Current(c)}
<1>8. /\ BilledTables(c, rest, rest)' = BilledTables(c, rest, rest)
      /\ BilledTables(c, most, rest)' = BilledTables(c, most, rest)
      /\ BilledTables(c, FoundBy(c), FoundBy(c))' = BilledTables(c, FoundBy(c), FoundBy(c))
  BY <1>5, <1>6, <1>7
<1>9. Billing(c) => Billing(c)'
  BY <1>6 DEF Billing
<1>10. Ready(kind, c) => Ready(kind, c)'
  BY <1>3, <1>4, <1>5, <1>6, <1>8, <1>9 DEF Ready
<1>11. QED
  BY <1>2, <1>10

(* The new holder of the lock, or the old one with nothing left to wait for,
   submits a statement that is ready. *)
LEMMA SubmitStep ==
    ASSUME ConnInv, NEW t \in Task, NEW kind \in Kind, NEW c \in Call,
           lock \in {None, t}, lock = t => queue = <<>>, lock' = t,
           Submit(t, kind, c), answer' = [answer EXCEPT ![t] = "none"],
           UNCHANGED <<ledgerVars, txn, view, counts>>,
           CallOK(c),
           kind \in Changing \cup {"begin", "read"} => Ready(kind, c),
           kind \in {"begin", "refund", "rollback"} \/ queue = <<>>,
           c.op = "budget" => kind \in {"begin", "read", "rollback"} /\ view = Tables
    PROVE  ConnInv'
<1> PICK s \in Stmt : s = Statement(t, kind, c)
  BY DEF Stmt, Statement
<1>1. /\ s.by = t /\ s.by # None /\ s.kind = kind /\ s.call = c
      /\ queue' = Append(queue, s) /\ t # None
      /\ call' = [call EXCEPT ![t] = c] /\ awaits' = [awaits EXCEPT ![t] = kind]
  BY DEF Statement, Submit
<1>2. /\ queue \in Seq(Stmt) /\ queue' \in Seq(Stmt) /\ queue' # <<>>
      /\ Len(queue) \in Nat /\ Len(queue') = Len(queue) + 1 /\ queue'[Len(queue')] = s
      /\ \A i \in 1..Len(queue) : queue'[i] = queue[i]
  BY <1>1, PushQueue DEF ConnInv, TaskTypeOK
<1>3. /\ call'[t] = c /\ awaits'[t] = kind /\ answer'[t] = "none"
      /\ call' \in [Task -> Call] /\ awaits' \in [Task -> Kind \cup {"idle"}]
      /\ answer' \in [Task -> {"none", "ok", "error"}]
  BY <1>1 DEF ConnInv, TaskTypeOK
<1>4. \A i \in 1..Len(queue) : queue[i].by = None /\ queue[i].kind \notin Changing
  BY <1>2 DEF ConnInv, WaitingOK, ChangesOK
<1>5. Tables' = Tables /\ CallOK(c)' /\ (Ready(kind, c) => Ready(kind, c)')
  BY SameTables, SameReady
<1>6. LedgerInv' /\ StaleHeld'
  BY LedgerInvStep DEF ConnInv, StaleHeld, Rows, ledgerVars
<1>7. TaskTypeOK'
  BY <1>2, <1>3 DEF ConnInv, TaskTypeOK, counts
<1>8. OthersIdle' /\ ClosedViewOK'
  BY <1>1, <1>5 DEF ConnInv, TaskTypeOK, OthersIdle, ClosedViewOK
<1>9. WaitingOK'
  BY <1>1, <1>2, <1>4 DEF WaitingOK
<1>10. ChangesOK'
  <2> SUFFICES ASSUME NEW i \in 1..Len(queue'), queue'[i].kind \in Changing
               PROVE  /\ lock' # None
                      /\ queue'[i].call = call'[lock']
                      /\ i = 1 \/ queue'[i].kind = "refund"
                      /\ \A j \in 1..Len(queue') : j > i => queue'[j].kind = "rollback"
                      /\ Ready(queue[i].kind, queue[i].call)'
    BY DEF ChangesOK
  <2>1. i = Len(queue') /\ queue'[i] = s
    BY <1>2, <1>4
  <2>2. Ready(kind, c)'
    BY <1>1, <1>5, <2>1
  <2>3. Ready(queue[i].kind, queue[i].call)'
    BY <2>1, <2>2, <1>1
  <2>4. i = 1 \/ queue'[i].kind = "refund"
    BY <1>1, <1>2, <2>1 DEF Changing
  <2>5. QED
    BY <1>1, <1>2, <1>3, <2>1, <2>3, <2>4
<1>11. BeginsOK'
  <2> SUFFICES ASSUME NEW i \in 1..Len(queue'), queue'[i].by # None,
                      queue'[i].kind \in {"begin", "read"}
               PROVE  /\ Ready(queue[i].kind, queue[i].call)'
                      /\ queue'[i].kind = "read" => i = 1
    BY DEF BeginsOK
  <2>1. i = Len(queue') /\ queue'[i] = s
    BY <1>2, <1>4
  <2>2. Ready(kind, c)'
    BY <1>1, <1>5, <2>1
  <2>3. Ready(queue[i].kind, queue[i].call)'
    BY <2>1, <2>2, <1>1
  <2>4. queue'[i].kind = "read" => i = 1
    BY <1>1, <1>2, <2>1
  <2>5. QED
    BY <2>3, <2>4
<1>12. HolderOK(lock)'
  <2>1. CallOK(call[lock])'
    BY <1>3, <1>5
  <2>2. QED
    BY <1>2, <1>3, <1>5, <2>1 DEF HolderOK, Statement
<1>13. QED
  BY <1>6, <1>7, <1>8, <1>9, <1>10, <1>11, <1>12 DEF ConnInv

(* The holder returns and lets go of the lock. *)
LEMMA ReturnStep ==
    ASSUME ConnInv, NEW t \in Task, lock = t, Return(t), view = Tables,
           answer' = [answer EXCEPT ![t] = "none"],
           UNCHANGED <<ledgerVars, txn, view, faults, crashes>>,
           cancels' \in 0..MaxCancels,
           queue' \in Seq(Stmt), Len(queue') = Len(queue),
           \A i \in 1..Len(queue') :
               queue'[i].by = None /\ queue'[i].kind \notin Changing
    PROVE  ConnInv'
<1>1. Tables' = Tables
  BY SameTables
<1>2. LedgerInv' /\ StaleHeld'
  BY LedgerInvStep DEF ConnInv, StaleHeld, Rows, ledgerVars
<1>3. NoCall \in Call
  BY DEF NoCall, Call, Op
<1>4. TaskTypeOK'
  BY <1>3 DEF ConnInv, TaskTypeOK, Return
<1>5. OthersIdle' /\ ClosedViewOK'
  BY <1>1 DEF ConnInv, TaskTypeOK, OthersIdle, ClosedViewOK, Return
<1>6. WaitingOK' /\ ChangesOK' /\ BeginsOK'
  BY DEF WaitingOK, ChangesOK, BeginsOK
<1>7. QED
  BY <1>2, <1>4, <1>5, <1>6 DEF ConnInv, Return

(* Every call starts with a statement that is ready: nobody has a
   transaction open that shows other tables than the committed ones. *)
LEMMA StartStep ==
    ASSUME ConnInv, NEW t \in Task, NEW c \in Call, CallOK(c), NewHold(c), Start(t, c)
    PROVE  ConnInv'
<1>1. lock = None /\ lock' = t /\ UNCHANGED <<ledgerVars, answer, txn, view, counts>>
  BY DEF Start
<1>2. view = Tables /\ answer[t] = "none"
  BY <1>1 DEF ConnInv, ClosedViewOK, OthersIdle
<1>3. answer' = [answer EXCEPT ![t] = "none"]
  BY <1>1, <1>2 DEF ConnInv, TaskTypeOK
<1>4. CASE c.op = "refund"
  <2>1. Submit(t, "refund", c) /\ Ready("refund", c)
    BY <1>2, <1>4 DEF Start, Ready
  <2>2. QED
    BY <1>1, <1>3, <1>4, <2>1, SubmitStep DEF Kind
<1>5. CASE c.op # "refund"
  <2>1. Submit(t, "begin", c) /\ Ready("begin", c)
    BY <1>2, <1>5 DEF Start, Ready
  <2>2. QED
    BY <1>1, <1>2, <1>3, <2>1, SubmitStep DEF Kind, Changing
<1>6. QED
  BY <1>4, <1>5

(* Any operation may be called, with what its callers have. *)
LEMMA InvokeStep ==
    ASSUME ConnInv, NEW t \in Task, Invoke(t)
    PROVE  ConnInv' /\ UNCHANGED ledgerVars
<1>1. LedgerTypeOK
  BY DEF ConnInv, LedgerInv
<1>2. SUFFICES \E c \in Call : CallOK(c) /\ NewHold(c) /\ Start(t, c)
  BY StartStep DEF Start
<1>3. CASE \E h \in Unused, a \in Alias, e \in Estimate : \E cap \in caps_seen[a] :
             Start(t, [op |-> "hold", h |-> h, n |-> cap,
                       todo |-> {[handle |-> h, alias |-> a, estimate |-> e]}])
  <2> PICK h \in Unused, a \in Alias, e \in Estimate : \E cap \in caps_seen[a] :
             Start(t, [op |-> "hold", h |-> h, n |-> cap,
                       todo |-> {[handle |-> h, alias |-> a, estimate |-> e]}])
    BY <1>3
  <2>1. PICK cap \in caps_seen[a] :
             Start(t, [op |-> "hold", h |-> h, n |-> cap,
                       todo |-> {[handle |-> h, alias |-> a, estimate |-> e]}])
    OBVIOUS
  <2> DEFINE row == [handle |-> h, alias |-> a, estimate |-> e]
             c == [op |-> "hold", h |-> h, n |-> cap, todo |-> {row}]
  <2>2. h \in Handle \ issued /\ cap \in Nat /\ e \in Nat
    BY <1>1, <2>1 DEF Unused, LedgerTypeOK
  <2>3. row \in HoldRow
    BY <2>2 DEF HoldRow
  <2>4. c \in Call
    BY <2>2, <2>3 DEF Call, Op
  <2>5. NewHold(c)
    BY <2>2 DEF NewHold
  <2>6. QED
    BY <2>1, <2>4, <2>5 DEF CallOK
<1>4. CASE \E h \in issued, actual \in Usage :
             Start(t, [op |-> "settle", h |-> h, todo |-> {}, n |-> actual])
  BY <1>1, <1>4 DEF Call, Op, CallOK, NewHold, LedgerTypeOK
<1>5. CASE \E op \in {"estimate", "refund"}, h \in issued :
             Start(t, [op |-> op, h |-> h, todo |-> {}, n |-> 0])
  BY <1>1, <1>5 DEF Call, Op, CallOK, NewHold, LedgerTypeOK
<1>6. CASE \E op \in {"sweep", "budget"} :
             Start(t, [op |-> op, h |-> None, todo |-> {}, n |-> 0])
  BY <1>6 DEF Call, Op, CallOK, NewHold
<1>7. QED
  BY <1>3, <1>4, <1>5, <1>6 DEF Invoke

(* A billing call turns to the rows it found: nothing is billed yet. *)
LEMMA FoundReady ==
    ASSUME ConnInv, NEW c \in Call, CallOK(c), c.op \in BillingOp, txn, view = Tables
    PROVE  LET next == [c EXCEPT !.todo = FoundBy(c)] IN
           /\ next \in Call /\ CallOK(next) /\ next.op = c.op
           /\ FoundBy(c) # {} => Ready("delete", next)
           /\ FoundBy(c) = {} => Ready("commit", next)
<1> DEFINE found == FoundBy(c)
           next == [c EXCEPT !.todo = found]
<1>1. LedgerTypeOK
  BY DEF ConnInv, LedgerInv
<1>2. found \subseteq HoldRow
  BY <1>1, FoundType
<1>3. /\ next \in Call /\ next.op = c.op /\ next.h = c.h /\ next.n = c.n
      /\ next.todo = found
  BY <1>2 DEF Call
<1>4. CallOK(next)
  BY <1>3 DEF CallOK
<1>5. FoundBy(next) = found
  BY <1>3 DEF FoundBy
<1>6. view = BilledTables(next, {}, {})
  BY <1>1, BilledNothing
<1> HIDE DEF next, found
<1>7. ASSUME found # {} PROVE Ready("delete", next)
  BY <1>3, <1>5, <1>6, <1>7 DEF Ready, Billing
<1>8. ASSUME found = {} PROVE Ready("commit", next)
  BY <1>3, <1>5, <1>6, <1>8 DEF Ready, BillingOp, NewHold
<1>9. QED
  BY <1>3, <1>4, <1>7, <1>8 DEF next, found

(* It bills the rows one by one, until none of those it found is left. *)
LEMMA NextRowReady ==
    ASSUME ConnInv, NEW c \in Call, CallOK(c), Left("charge", c)
    PROVE  LET next == [c EXCEPT !.todo = c.todo \ {Current(c)}] IN
           /\ next \in Call /\ CallOK(next) /\ next.op = c.op /\ c.op \in BillingOp
           /\ next.todo # {} => Ready("delete", next)
           /\ next.todo = {} => Ready("commit", next)
<1> DEFINE row == Current(c)
           left == c.todo \ {row}
           next == [c EXCEPT !.todo = left]
           paid == (FoundBy(c) \ c.todo) \cup {row}
<1>1. Billing(c) /\ view = BilledTables(c, paid, paid)
  BY DEF Left
<1>2. row \in c.todo /\ c.todo \subseteq FoundBy(c) /\ txn /\ c.op \in BillingOp
  BY <1>1, CurrentIn DEF Billing
<1>3. /\ next \in Call /\ next.op = c.op /\ next.h = c.h /\ next.n = c.n
      /\ next.todo = left
  BY DEF Call
<1>4. CallOK(next)
  BY <1>3 DEF CallOK
<1>5. FoundBy(next) = FoundBy(c)
  BY <1>3 DEF FoundBy
<1> HIDE DEF next
<1>6. BilledTables(next, paid, paid) = BilledTables(c, paid, paid)
  <2>1. \A r : TokensFor(next, r) = TokensFor(c, r)
    BY <1>3 DEF TokensFor
  <2>2. ChargesFor(next, paid) = ChargesFor(c, paid)
    BY <2>1 DEF ChargesFor
  <2> HIDE DEF paid
  <2>3. QED
    BY <2>2 DEF BilledTables
<1>7. FoundBy(next) \ left = paid
  BY <1>2, <1>5
<1> HIDE DEF row, paid
<1>8. ASSUME left # {} PROVE Ready("delete", next)
  BY <1>1, <1>2, <1>3, <1>5, <1>6, <1>7, <1>8 DEF Ready, Billing
<1>9. ASSUME left = {} PROVE Ready("commit", next)
  BY <1>1, <1>2, <1>3, <1>5, <1>6, <1>7, <1>9 DEF Ready, BillingOp, NewHold
<1>10. QED
  BY <1>2, <1>3, <1>4, <1>8, <1>9 DEF next, row

(* A coroutine with an answer or a statement under way holds the lock. *)
LEMMA HolderIs ==
    ASSUME ConnInv, NEW t \in Task, awaits[t] # "idle" \/ answer[t] # "none"
    PROVE  lock = t /\ t # None /\ HolderOK(t) /\ (answer[t] # "none" => queue = <<>>)
<1>1. lock = t /\ t # None
  BY DEF ConnInv, OthersIdle
<1>2. HolderOK(t)
  BY <1>1 DEF ConnInv
<1>3. QED
  BY <1>1, <1>2 DEF HolderOK

(* The next statement of every call is ready when the last one worked. *)
LEMMA ResumeStep ==
    ASSUME ConnInv, NEW t \in Task, Resume(t)
    PROVE  ConnInv' /\ UNCHANGED ledgerVars
<1>1. /\ answer[t] = "ok" /\ answer' = [answer EXCEPT ![t] = "none"]
      /\ UNCHANGED <<ledgerVars, txn, view, counts>>
  BY DEF Resume
<1>2. lock = t /\ t # None /\ HolderOK(t) /\ queue = <<>>
  BY <1>1, HolderIs
<1> PICK c \in Call : c = call[t]
  BY DEF ConnInv, TaskTypeOK
<1>3. awaits[t] \in Kind /\ CallOK(c) /\ Left(awaits[t], c)
  BY <1>1, <1>2 DEF HolderOK
<1>4. c.op = "budget" => awaits[t] \in {"begin", "read", "rollback"} /\ view = Tables
  BY <1>2 DEF HolderOK
<1>5. ASSUME NEW kind \in Kind, NEW d \in Call, Submit(t, kind, d), UNCHANGED lock,
             CallOK(d), kind \in Changing \cup {"begin", "read"} => Ready(kind, d),
             d.op = "budget" => kind \in {"begin", "read", "rollback"} /\ view = Tables
      PROVE  ConnInv'
  BY <1>1, <1>2, <1>5, SubmitStep
<1>6. CASE awaits[t] = "begin"
  <2>1. Submit(t, "read", c) /\ UNCHANGED lock
    BY <1>6 DEF Resume
  <2>2. Ready("read", c)
    BY <1>3, <1>6 DEF Left
  <2>3. QED
    BY <1>1, <1>3, <1>4, <1>5, <2>1, <2>2 DEF Kind
<1>7. CASE awaits[t] = "read"
  <2>1. AfterRead(t, c) /\ UNCHANGED lock
    BY <1>7 DEF Resume
  <2>2. c.op # "refund" /\ NewHold(c) /\ txn /\ view = Tables
    BY <1>3, <1>7 DEF Left
  <2>3. CASE c.op = "hold"
    <3> DEFINE row == Current(c)
               fits == Fits(row.alias, row.estimate, c.n)
    <3>1. Submit(t, IF fits THEN "hold" ELSE "rollback", c)
      BY <2>1, <2>3 DEF AfterRead
    <3>2. fits => Ready("hold", c)
      BY <2>2, <2>3 DEF Ready, FitsIn
    <3> HIDE DEF fits
    <3>3. CASE fits
      BY <1>1, <1>3, <1>5, <2>1, <2>3, <3>1, <3>2, <3>3 DEF Kind
    <3>4. CASE ~fits
      BY <1>1, <1>3, <1>5, <2>1, <2>3, <3>1, <3>4 DEF Kind, Changing
    <3>5. QED
      BY <3>3, <3>4
  <2>4. CASE c.op \in BillingOp
    <3> DEFINE next == [c EXCEPT !.todo = FoundBy(c)]
    <3>1. /\ next \in Call /\ CallOK(next) /\ next.op = c.op
          /\ FoundBy(c) # {} => Ready("delete", next)
          /\ FoundBy(c) = {} => Ready("commit", next)
      BY <1>3, <2>2, <2>4, FoundReady
    <3>2. \/ FoundBy(c) # {} /\ Submit(t, "delete", next)
          \/ FoundBy(c) = {} /\ Submit(t, "commit", next)
          \/ FoundBy(c) = {} /\ Submit(t, "rollback", next)
      <4>1. view.pending = pending
        BY <2>2 DEF Tables
      <4>2. CASE c.op = "sweep"
        BY <2>1, <4>1, <4>2 DEF AfterRead, FoundBy, StaleRows
      <4>3. CASE c.op \in {"settle", "estimate"}
        BY <2>1, <4>1, <4>3 DEF AfterRead, FoundBy, Rows
      <4>4. QED
        BY <2>4, <4>2, <4>3 DEF BillingOp
    <3> HIDE DEF next
    <3>3. CASE FoundBy(c) # {} /\ Submit(t, "delete", next)
      BY <1>1, <1>5, <2>1, <2>4, <3>1, <3>3 DEF Kind, BillingOp
    <3>4. CASE FoundBy(c) = {} /\ Submit(t, "commit", next)
      BY <1>1, <1>5, <2>1, <2>4, <3>1, <3>4 DEF Kind, BillingOp
    <3>5. CASE FoundBy(c) = {} /\ Submit(t, "rollback", next)
      BY <1>1, <1>5, <2>1, <2>4, <3>1, <3>5 DEF Kind, BillingOp, Changing
    <3>6. QED
      BY <3>2, <3>3, <3>4, <3>5
  <2>5. CASE c.op = "budget"
    <3>1. Submit(t, "rollback", c)
      BY <2>1, <2>5 DEF AfterRead
    <3>2. QED
      BY <1>1, <1>3, <1>5, <2>1, <2>2, <3>1 DEF Kind, Changing
  <2>6. QED
    BY <2>2, <2>3, <2>4, <2>5 DEF Call, Op, BillingOp
<1>8. CASE awaits[t] = "delete"
  <2>1. Submit(t, "charge", c) /\ UNCHANGED lock
    BY <1>8 DEF Resume
  <2>2. Ready("charge", c)
    BY <1>3, <1>8 DEF Left
  <2>3. QED
    BY <1>1, <1>3, <1>4, <1>5, <1>8, <2>1, <2>2 DEF Kind
<1>9. CASE awaits[t] = "charge"
  <2> DEFINE next == [c EXCEPT !.todo = c.todo \ {Current(c)}]
  <2>1. /\ next \in Call /\ CallOK(next) /\ next.op = c.op /\ c.op \in BillingOp
        /\ next.todo # {} => Ready("delete", next)
        /\ next.todo = {} => Ready("commit", next)
    <3>1. Left("charge", c)
      BY <1>3, <1>9
    <3>2. QED
      BY <1>3, <3>1, NextRowReady
  <2>2. next.todo = c.todo \ {Current(c)}
    BY DEF Call
  <2>3. /\ Submit(t, IF next.todo # {} THEN "delete" ELSE "commit", next)
        /\ UNCHANGED lock
    BY <1>9, <2>2 DEF Resume, AfterCharge
  <2> HIDE DEF next
  <2>4. CASE next.todo # {}
    BY <1>1, <1>5, <2>1, <2>3, <2>4 DEF Kind, BillingOp
  <2>5. CASE next.todo = {}
    BY <1>1, <1>5, <2>1, <2>3, <2>5 DEF Kind, BillingOp
  <2>6. QED
    BY <2>4, <2>5
<1>10. CASE awaits[t] \in {"hold", "refund"}
  <2>1. Submit(t, "commit", c) /\ UNCHANGED lock
    BY <1>10 DEF Resume
  <2>2. Ready("commit", c)
    BY <1>3, <1>10 DEF Left
  <2>3. QED
    BY <1>1, <1>3, <1>4, <1>5, <1>10, <2>1, <2>2 DEF Kind
<1>11. CASE awaits[t] \in {"commit", "rollback"}
  <2>1. Return(t) /\ UNCHANGED queue
    BY <1>11 DEF Resume
  <2>2. view = Tables
    BY <1>3, <1>11 DEF Left, ConnInv, ClosedViewOK
  <2>3. /\ queue' \in Seq(Stmt) /\ Len(queue') = Len(queue)
        /\ \A i \in 1..Len(queue') : FALSE
    BY <1>2, <2>1 DEF ConnInv, TaskTypeOK
  <2>4. cancels' \in 0..MaxCancels
    BY <1>1 DEF counts, ConnInv, TaskTypeOK
  <2>5. QED
    BY <1>1, <1>2, <2>1, <2>2, <2>3, <2>4, ReturnStep DEF counts
<1>12. QED
  BY <1>3, <1>6, <1>7, <1>8, <1>9, <1>10, <1>11 DEF Kind

(* A statement raised: roll back, or return when it was BEGIN. *)
LEMMA ResumeWithErrorStep ==
    ASSUME ConnInv, NEW t \in Task, ResumeWithError(t)
    PROVE  ConnInv' /\ UNCHANGED ledgerVars
<1>1. /\ answer[t] = "error" /\ answer' = [answer EXCEPT ![t] = "none"]
      /\ UNCHANGED <<ledgerVars, txn, view, counts>>
  BY DEF ResumeWithError
<1>2. lock = t /\ t # None /\ HolderOK(t) /\ queue = <<>>
  BY <1>1, HolderIs
<1> PICK c \in Call : c = call[t]
  BY DEF ConnInv, TaskTypeOK
<1>3. CallOK(c) /\ (c.op = "budget" => view = Tables)
  BY <1>2 DEF HolderOK
<1>4. CASE RollsBackOnError(t)
  <2>1. Submit(t, "rollback", c) /\ UNCHANGED lock
    BY <1>4 DEF ResumeWithError
  <2>2. QED
    BY <1>1, <1>2, <1>3, <2>1, SubmitStep DEF Kind, Changing
<1>5. CASE ~RollsBackOnError(t)
  <2>1. Return(t) /\ UNCHANGED queue
    BY <1>5 DEF ResumeWithError
  <2>2. view = Tables
    BY <1>1, <1>2, <1>5 DEF HolderOK, RollsBackOnError
  <2>3. /\ queue' \in Seq(Stmt) /\ Len(queue') = Len(queue)
        /\ \A i \in 1..Len(queue') : FALSE
    BY <1>2, <2>1 DEF ConnInv, TaskTypeOK
  <2>4. cancels' \in 0..MaxCancels
    BY <1>1 DEF counts, ConnInv, TaskTypeOK
  <2>5. QED
    BY <1>1, <1>2, <2>1, <2>2, <2>3, <2>4, ReturnStep DEF counts
<1>6. QED
  BY <1>4, <1>5

(* What a cancelled coroutine had submitted is still there, with nobody
   waiting for it. *)
LEMMA OrphanedQueue ==
    ASSUME ConnInv, NEW t \in Task, lock = t
    PROVE  /\ Orphaned(t) \in Seq(Stmt) /\ Len(Orphaned(t)) = Len(queue)
           /\ Len(queue) \in Nat
           /\ \A i \in 1..Len(queue) :
                 /\ Orphaned(t)[i].kind = queue[i].kind
                 /\ Orphaned(t)[i].call = queue[i].call
                 /\ Orphaned(t)[i].by = None
<1>1. queue \in Seq(Stmt) /\ Len(queue) \in Nat /\ DOMAIN queue = 1..Len(queue)
  BY DEF ConnInv, TaskTypeOK
<1>2. ASSUME NEW i \in 1..Len(queue)
      PROVE  /\ Orphaned(t)[i] \in Stmt
             /\ Orphaned(t)[i].kind = queue[i].kind
             /\ Orphaned(t)[i].call = queue[i].call
             /\ Orphaned(t)[i].by = None
  <2>1. queue[i] \in Stmt /\ queue[i].by \in {None, t}
    BY <1>1 DEF ConnInv, WaitingOK
  <2>2. Orphaned(t)[i] = IF queue[i].by = t THEN [queue[i] EXCEPT !.by = None] ELSE queue[i]
    BY <1>1 DEF Orphaned
  <2>3. QED
    BY <2>1, <2>2 DEF Stmt
<1>3. DOMAIN Orphaned(t) = 1..Len(queue)
  BY <1>1 DEF Orphaned
<1>4. Orphaned(t) \in [1..Len(queue) -> Stmt]
  BY <1>2, <1>3 DEF Orphaned
<1>5. Orphaned(t) \in Seq(Stmt) /\ Len(Orphaned(t)) = Len(queue)
  <2> HIDE DEF Orphaned
  <2>1. QED
    BY <1>1, <1>4
<1>6. QED
  BY <1>1, <1>2, <1>5

(* A cancelled coroutine leaves its statement behind: a harmless one, or one
   that its own rollback follows before the lock is free. *)
LEMMA CancelStep ==
    ASSUME ConnInv, NEW t \in Task, Cancel(t)
    PROVE  ConnInv' /\ UNCHANGED ledgerVars
<1>1. /\ awaits[t] # "idle" /\ answer' = [answer EXCEPT ![t] = "none"]
      /\ cancels' = cancels + 1 /\ cancels < MaxCancels
      /\ UNCHANGED <<ledgerVars, txn, view, faults, crashes>>
  BY DEF Cancel
<1>2. lock = t /\ t # None /\ HolderOK(t) /\ (answer[t] # "none" => queue = <<>>)
  BY <1>1, HolderIs
<1> PICK c \in Call : c = call[t]
  BY DEF ConnInv, TaskTypeOK
<1>3. /\ Orphaned(t) \in Seq(Stmt) /\ Len(Orphaned(t)) = Len(queue) /\ Len(queue) \in Nat
      /\ \A i \in 1..Len(queue) :
            /\ Orphaned(t)[i].kind = queue[i].kind
            /\ Orphaned(t)[i].call = queue[i].call
            /\ Orphaned(t)[i].by = None
  BY <1>2, OrphanedQueue
<1>4. cancels' \in 0..MaxCancels
  BY <1>1 DEF ConnInv, TaskTypeOK
<1>5. CASE ~RollsBackOnCancel(t)
  <2>1. Return(t) /\ queue' = Orphaned(t)
    BY <1>5 DEF Cancel
  <2>2. awaits[t] = "begin" \/ c.op = "budget"
    BY <1>5 DEF RollsBackOnCancel
  <2>3. view = Tables
    <3>1. CASE c.op = "budget"
      BY <1>2, <3>1 DEF HolderOK
    <3>2. CASE awaits[t] = "begin" /\ answer[t] = "none"
      <4>1. /\ Len(queue) \in 1..Len(queue)
            /\ queue[Len(queue)].by = t /\ queue[Len(queue)].kind = "begin"
        <5>1. queue # <<>> /\ queue[Len(queue)] = Statement(t, "begin", c)
          BY <1>2, <3>2 DEF HolderOK
        <5>2. Len(queue) \in 1..Len(queue)
          BY <5>1 DEF ConnInv, TaskTypeOK
        <5>3. QED
          BY <5>1, <5>2 DEF Statement
      <4>2. QED
        BY <1>2, <4>1 DEF ConnInv, BeginsOK, Ready
    <3>3. CASE awaits[t] = "begin" /\ answer[t] # "none"
      BY <1>2, <3>3 DEF HolderOK, Left, Ready, ConnInv, TaskTypeOK
    <3>4. QED
      BY <2>2, <3>1, <3>2, <3>3
  <2>4. ASSUME NEW i \in 1..Len(queue) PROVE queue[i].kind \notin Changing
    <3>1. SUFFICES ASSUME queue[i].kind \in Changing PROVE FALSE
      OBVIOUS
    <3>2. /\ queue[i].call = c /\ Ready(queue[i].kind, c)
          /\ \A j \in 1..Len(queue) : j > i => queue[j].kind = "rollback"
      BY <1>2, <3>1 DEF ConnInv, ChangesOK
    <3>3. c.op # "budget"
      BY <3>1, <3>2 DEF Ready, Changing, Billing, BillingOp
    <3>4. queue # <<>> /\ answer[t] = "none"
      BY <1>2 DEF ConnInv, TaskTypeOK
    <3>5. queue[Len(queue)].kind = "begin"
      BY <1>2, <2>2, <3>3, <3>4 DEF HolderOK, Statement
    <3>6. i = Len(queue)
      BY <1>3, <3>2, <3>5
    <3>7. QED
      BY <3>1, <3>5, <3>6 DEF Changing
  <2>5. QED
    BY <1>1, <1>2, <1>3, <1>4, <2>1, <2>3, <2>4, ReturnStep
<1>6. CASE RollsBackOnCancel(t)
  <2> PICK s \in Stmt : s = Statement(t, "rollback", c)
    BY DEF Stmt, Statement, Kind
  <2>1. /\ s.by = t /\ s.kind = "rollback" /\ s.call = c
        /\ queue' = Append(Orphaned(t), s)
        /\ awaits' = [awaits EXCEPT ![t] = "rollback"]
        /\ UNCHANGED <<lock, call>> /\ c.op # "budget"
    BY <1>6 DEF Cancel, Statement, RollsBackOnCancel
  <2>2. /\ queue' \in Seq(Stmt) /\ queue' # <<>> /\ Len(queue') = Len(queue) + 1
        /\ queue'[Len(queue')] = s
        /\ \A i \in 1..Len(queue) :
              /\ queue'[i].kind = queue[i].kind /\ queue'[i].call = queue[i].call
              /\ queue'[i].by = None
    BY <1>3, <2>1, PushQueue
  <2>3. Tables' = Tables /\ CallOK(c)'
    BY <1>1, <1>2, SameTables, SameReady DEF HolderOK
  <2>4. LedgerInv' /\ StaleHeld'
    BY <1>1, LedgerInvStep DEF ConnInv, StaleHeld, Rows, ledgerVars
  <2>5. awaits'[t] = "rollback" /\ answer'[t] = "none"
    BY <1>1, <2>1 DEF ConnInv, TaskTypeOK
  <2>6. TaskTypeOK'
    BY <1>1, <1>4, <2>1, <2>2 DEF ConnInv, TaskTypeOK, Kind
  <2>7. OthersIdle' /\ ClosedViewOK'
    BY <1>1, <1>2, <2>1, <2>3 DEF ConnInv, TaskTypeOK, OthersIdle, ClosedViewOK
  <2>8. WaitingOK'
    BY <1>2, <1>3, <2>1, <2>2 DEF WaitingOK
  <2>9. BeginsOK'
    BY <1>3, <2>1, <2>2 DEF BeginsOK
  <2>10. ChangesOK'
    <3> SUFFICES ASSUME NEW i \in 1..Len(queue'), queue'[i].kind \in Changing
                 PROVE  /\ lock' # None
                        /\ queue'[i].call = call'[lock']
                        /\ i = 1 \/ queue'[i].kind = "refund"
                        /\ \A j \in 1..Len(queue') : j > i => queue'[j].kind = "rollback"
                        /\ Ready(queue[i].kind, queue[i].call)'
      BY DEF ChangesOK
    <3>1. i \in 1..Len(queue)
      BY <1>3, <2>1, <2>2 DEF Changing
    <3>2. /\ queue[i].call = c /\ Ready(queue[i].kind, c)
          /\ i = 1 \/ queue[i].kind = "refund"
          /\ \A j \in 1..Len(queue) : j > i => queue[j].kind = "rollback"
      BY <1>2, <2>2, <3>1 DEF ConnInv, ChangesOK
    <3> PICK kind : kind = queue[i].kind
      OBVIOUS
    <3>3. Ready(kind, c)'
      BY <1>1, <3>2, SameReady
    <3>4. Ready(queue[i].kind, queue[i].call)'
      BY <2>2, <3>1, <3>2, <3>3
    <3>5. \A j \in 1..Len(queue') : j > i => queue'[j].kind = "rollback"
      BY <1>3, <2>1, <2>2, <3>2
    <3>6. QED
      BY <1>2, <2>1, <2>2, <3>1, <3>2, <3>4, <3>5
  <2>11. HolderOK(lock)'
    <3>1. CallOK(call[lock])'
      BY <1>2, <2>1, <2>3
    <3>2. QED
      BY <1>2, <2>1, <2>2, <2>5, <3>1 DEF HolderOK, Statement, Kind
  <2>12. QED
    BY <1>1, <2>4, <2>6, <2>7, <2>8, <2>9, <2>10, <2>11 DEF ConnInv
<1>7. QED
  BY <1>5, <1>6

(* Other connections write only outside a transaction, when no statement
   under way has read anything. *)
LEMMA ElsewhereStep ==
    ASSUME ConnInv, Elsewhere
    PROVE  ConnInv' /\ LedgerNext
<1>1. /\ ~txn /\ view' = Tables'
      /\ UNCHANGED <<lock, call, awaits, answer, queue, txn, counts>>
  BY DEF Elsewhere, task
<1>2. LedgerTypeOK
  BY DEF ConnInv, LedgerInv
<1>3. /\ LedgerNext
      /\ UNCHANGED <<pending, issued>>
      /\ \A a \in Alias : caps_seen[a] \subseteq caps_seen'[a]
      /\ \A h \in stale' : h \in stale \/ Rows(h) # {}
  <2>1. CASE \E h \in issued : GrowOld(h)
    BY <2>1 DEF GrowOld, config, LedgerNext
  <2>2. CASE \E o \in DirectRow, a \in Alias, n \in Usage \cup {0} : RecordSpend(o, a, n)
    BY <2>2 DEF RecordSpend, config, LedgerNext
  <2>3. CASE \E a \in Alias, cap \in CapValue \cup {NULL} : SetSpendCap(a, cap)
    <3>1. PICK a \in Alias, cap \in CapValue \cup {NULL} : SetSpendCap(a, cap)
      BY <2>3
    <3>2. LedgerNext
      BY <2>3 DEF LedgerNext
    <3>3. \A b \in Alias : caps_seen[b] \subseteq caps_seen'[b]
      BY <1>2, <3>1 DEF SetSpendCap, LedgerTypeOK
    <3>4. QED
      BY <3>1, <3>2, <3>3 DEF SetSpendCap
  <2>4. QED
    BY <2>1, <2>2, <2>3 DEF Elsewhere
<1>4. LedgerInv' /\ StaleHeld'
  BY <1>3, LedgerInvStep DEF ConnInv, StaleHeld, Rows
<1>5. view' \in TableSet
  BY <1>1, <1>4, TablesType DEF LedgerInv, LedgerTypeOK, Tables, TableSet
<1>6. TaskTypeOK'
  BY <1>1, <1>5 DEF ConnInv, TaskTypeOK, counts
<1>7. OthersIdle' /\ ClosedViewOK' /\ WaitingOK'
  BY <1>1 DEF ConnInv, OthersIdle, ClosedViewOK, WaitingOK
<1>8. ASSUME NEW kind, NEW c
      PROVE  /\ CallOK(c) => CallOK(c)'
             /\ kind \in Changing /\ Ready(kind, c) => Ready(kind, c)'
             /\ kind \in {"begin", "read"} /\ Ready(kind, c) => Ready(kind, c)'
             /\ kind \in Kind /\ Left(kind, c) => Left(kind, c)'
  <2>1. CallOK(c) => CallOK(c)'
    BY <1>3 DEF CallOK
  <2>2. NewHold(c) => NewHold(c)'
    BY <1>3 DEF NewHold
  <2>3. kind \in Changing /\ Ready(kind, c) => Ready(kind, c)'
    <3>1. kind \in Changing /\ Ready(kind, c) => kind = "refund" /\ c.op = "refund"
      BY <1>1 DEF Changing, Ready, Billing
    <3>2. QED
      BY <1>1, <3>1 DEF Ready
  <2>4. kind \in {"begin", "read"} /\ Ready(kind, c) => Ready(kind, c)'
    BY <1>1, <2>2 DEF Ready
  <2>5. kind \in Kind /\ Left(kind, c) => Left(kind, c)'
    <3>1. kind \in Kind /\ Left(kind, c) => kind \in {"commit", "rollback"}
      BY <1>1 DEF Kind, Left, Ready, Billing
    <3>2. QED
      BY <1>1, <3>1 DEF Left
  <2>6. QED
    BY <2>1, <2>3, <2>4, <2>5
<1>9. ChangesOK'
  <2> SUFFICES ASSUME NEW i \in 1..Len(queue'), queue'[i].kind \in Changing
               PROVE  /\ lock' # None
                      /\ queue'[i].call = call'[lock']
                      /\ i = 1 \/ queue'[i].kind = "refund"
                      /\ \A j \in 1..Len(queue') : j > i => queue'[j].kind = "rollback"
                      /\ Ready(queue[i].kind, queue[i].call)'
    BY DEF ChangesOK
  <2> PICK s : s = queue[i]
    OBVIOUS
  <2>1. /\ lock # None /\ s.call = call[lock]
        /\ i = 1 \/ s.kind = "refund"
        /\ \A j \in 1..Len(queue) : j > i => queue[j].kind = "rollback"
        /\ Ready(s.kind, s.call)
    BY <1>1 DEF ConnInv, ChangesOK
  <2>2. Ready(s.kind, s.call)'
    BY <1>1, <1>8, <2>1
  <2>3. QED
    BY <1>1, <2>1, <2>2 DEF ConnInv, ChangesOK
<1>10. BeginsOK'
  <2> SUFFICES ASSUME NEW i \in 1..Len(queue'), queue'[i].by # None,
                      queue'[i].kind \in {"begin", "read"}
               PROVE  /\ Ready(queue[i].kind, queue[i].call)'
                      /\ queue'[i].kind = "read" => i = 1
    BY DEF BeginsOK
  <2> PICK s : s = queue[i]
    OBVIOUS
  <2>1. Ready(s.kind, s.call) /\ (s.kind = "read" => i = 1)
    BY <1>1 DEF ConnInv, BeginsOK
  <2>2. Ready(s.kind, s.call)'
    BY <1>1, <1>8, <2>1
  <2>3. QED
    BY <1>1, <2>1, <2>2
<1>11. ASSUME lock # None PROVE HolderOK(lock)'
  <2>1. HolderOK(lock)
    BY <1>11 DEF ConnInv
  <2> PICK kind, c : kind = awaits[lock] /\ c = call[lock]
    OBVIOUS
  <2>2. CallOK(c)' /\ (answer[lock] = "ok" => Left(kind, c)')
    BY <1>8, <2>1 DEF HolderOK
  <2>3. CallOK(call[lock])' /\ (answer[lock] = "ok" => Left(awaits[lock], call[lock])')
    BY <1>1, <2>2
  <2>4. QED
    BY <1>1, <2>1, <2>3 DEF HolderOK, Statement
<1>12. QED
  BY <1>1, <1>3, <1>4, <1>6, <1>7, <1>9, <1>10, <1>11 DEF ConnInv

(* A death takes the queue, the transaction and every call with it. *)
LEMMA DieStep ==
    ASSUME ConnInv, Die
    PROVE  ConnInv' /\ UNCHANGED ledgerVars
<1>1. /\ lock' = None /\ queue' = <<>> /\ txn' = FALSE /\ view' = Tables
      /\ UNCHANGED ledgerVars
  BY DEF Die
<1>2. Tables' = Tables
  BY <1>1, SameTables
<1>3. LedgerInv' /\ StaleHeld'
  BY <1>1, LedgerInvStep DEF ConnInv, StaleHeld, Rows, ledgerVars
<1>4. NoCall \in Call
  BY DEF NoCall, Call, Op
<1>5. view' \in TableSet
  BY <1>1, TablesType DEF ConnInv, LedgerInv
<1>6. crashes' \in 0..MaxCrashes
  BY DEF Die, ConnInv, TaskTypeOK
<1>7. TaskTypeOK'
  <2>1. /\ call' \in [Task -> Call] /\ awaits' \in [Task -> Kind \cup {"idle"}]
        /\ answer' \in [Task -> {"none", "ok", "error"}]
    BY <1>4 DEF Die
  <2>2. faults' \in 0..MaxFaults /\ cancels' \in 0..MaxCancels
    BY DEF Die, ConnInv, TaskTypeOK
  <2>3. queue' \in Seq(Stmt)
    BY <1>1
  <2>4. lock' \in Task \cup {None} /\ txn' \in BOOLEAN
    BY <1>1
  <2>5. QED
    BY <1>5, <1>6, <2>1, <2>2, <2>3, <2>4 DEF TaskTypeOK
<1>8. OthersIdle' /\ ClosedViewOK'
  BY <1>1, <1>2 DEF Die, OthersIdle, ClosedViewOK
<1>9. WaitingOK' /\ ChangesOK' /\ BeginsOK'
  BY <1>1 DEF WaitingOK, ChangesOK, BeginsOK
<1>10. QED
  BY <1>1, <1>3, <1>7, <1>8, <1>9 DEF ConnInv

-----------------------------------------------------------------------------
(* The theorems *)

(* A fresh connection: an empty ledger, no call, no transaction. *)
LEMMA ConnInvInit == ConnInit => ConnInv
<1> SUFFICES ASSUME ConnInit PROVE ConnInv
  OBVIOUS
<1>1. LedgerInv
  BY LedgerInvInit DEF ConnInit
<1>2. NoCall \in Call
  BY DEF NoCall, Call, Op
<1>3. TaskTypeOK
  <2>1. /\ call \in [Task -> Call] /\ awaits \in [Task -> Kind \cup {"idle"}]
        /\ answer \in [Task -> {"none", "ok", "error"}]
    BY <1>2 DEF ConnInit
  <2>2. faults \in 0..MaxFaults /\ cancels \in 0..MaxCancels /\ crashes \in 0..MaxCrashes
    BY DEF ConnInit
  <2>3. queue \in Seq(Stmt)
    BY DEF ConnInit
  <2>4. lock \in Task \cup {None} /\ txn \in BOOLEAN
    BY DEF ConnInit
  <2>5. view \in TableSet
    BY <1>1, TablesType DEF ConnInit, LedgerInv
  <2>6. QED
    BY <2>1, <2>2, <2>3, <2>4, <2>5 DEF TaskTypeOK
<1>4. StaleHeld
  BY DEF ConnInit, LedgerInit, StaleHeld
<1>5. QED
  BY <1>1, <1>3, <1>4
     DEF ConnInit, ConnInv, OthersIdle, ClosedViewOK, WaitingOK, ChangesOK, BeginsOK

(* Every step keeps the invariant and is one whole operation, or none. *)
LEMMA ConnInvStep == ConnInv /\ [ConnNext]_connVars => ConnInv' /\ [LedgerNext]_ledgerVars
<1> SUFFICES ASSUME ConnInv, [ConnNext]_connVars
             PROVE  ConnInv' /\ [LedgerNext]_ledgerVars
  OBVIOUS
<1>1. CASE Execute
  BY <1>1, ExecuteStep
<1>2. CASE Raises
  BY <1>2, RaisesStep
<1>3. CASE \E t \in Task : Invoke(t) \/ Resume(t) \/ ResumeWithError(t) \/ Cancel(t)
  BY <1>3, InvokeStep, ResumeStep, ResumeWithErrorStep, CancelStep
<1>4. CASE Elsewhere
  BY <1>4, ElsewhereStep
<1>5. CASE Die
  BY <1>5, DieStep
<1>6. CASE UNCHANGED connVars
  <2>1. UNCHANGED <<ledgerVars, lock, call, awaits, answer, queue, txn, view, counts>>
    BY <1>6 DEF connVars, task
  <2>2. Tables' = Tables
    BY <2>1, SameTables
  <2>3. LedgerInv' /\ StaleHeld'
    BY <2>1, LedgerInvStep DEF ConnInv, StaleHeld, Rows, ledgerVars
  <2>4. TaskTypeOK' /\ OthersIdle' /\ ClosedViewOK' /\ WaitingOK'
    BY <2>1, <2>2
       DEF ConnInv, TaskTypeOK, OthersIdle, ClosedViewOK, WaitingOK, counts
  <2>5. ASSUME NEW kind, NEW c
        PROVE  /\ CallOK(c) => CallOK(c)'
               /\ Ready(kind, c) => Ready(kind, c)'
               /\ Left(kind, c) => Left(kind, c)'
    <3>1. \A k : Ready(k, c) => Ready(k, c)'
      BY <2>1, SameReady
    <3>2. CallOK(c) => CallOK(c)'
      BY <2>1, SameReady
    <3>3. NewHold(c) => NewHold(c)'
      BY <2>1 DEF NewHold, ledgerVars, config
    <3>4. Current(c)' = Current(c)
      BY DEF Current
    <3>5. FoundBy(c)' = FoundBy(c)
      BY <2>1, SameTables
    <3>6. \A gone, done : BilledTables(c, gone, done)' = BilledTables(c, gone, done)
      BY <2>1, SameTables
    <3> DEFINE paid == (FoundBy(c) \ c.todo) \cup {Current(c)}
    <3>7. BilledTables(c, paid, paid)' = BilledTables(c, paid, paid)
      BY <3>4, <3>5, <3>6
    <3>8. Billing(c) => Billing(c)'
      BY <2>1, <3>5 DEF Billing
    <3>9. Left(kind, c) => Left(kind, c)'
      BY <2>1, <2>2, <3>1, <3>3, <3>7, <3>8 DEF Left
    <3>10. QED
      BY <3>1, <3>2, <3>9
  <2>6. ASSUME NEW i \in 1..Len(queue)
        PROVE  Ready(queue[i].kind, queue[i].call) => Ready(queue[i].kind, queue[i].call)'
    <3> PICK s : s = queue[i]
      OBVIOUS
    <3>1. Ready(s.kind, s.call) => Ready(s.kind, s.call)'
      BY <2>5
    <3>2. QED
      BY <2>1, <3>1
  <2>7. ChangesOK' /\ BeginsOK'
    BY <2>1, <2>6 DEF ConnInv, ChangesOK, BeginsOK
  <2>8. ASSUME lock # None PROVE HolderOK(lock)'
    <3> PICK kind, c : kind = awaits[lock] /\ c = call[lock]
      OBVIOUS
    <3>1. HolderOK(lock)
      BY <2>8 DEF ConnInv
    <3>2. CallOK(c)' /\ (answer[lock] = "ok" => Left(kind, c)')
      BY <2>5, <3>1 DEF HolderOK
    <3>3. CallOK(call[lock])' /\ (answer[lock] = "ok" => Left(awaits[lock], call[lock])')
      BY <2>1, <3>2
    <3>4. QED
      BY <2>1, <2>2, <3>1, <3>3 DEF HolderOK, Statement
  <2>9. QED
    BY <2>1, <2>3, <2>4, <2>7, <2>8 DEF ConnInv
<1>7. QED
  BY <1>1, <1>2, <1>3, <1>4, <1>5, <1>6 DEF ConnNext

(* Without a cancellation the queue holds at most the one statement that is
   awaited, and a transaction is open only between a BEGIN that worked and
   the COMMIT or ROLLBACK. *)
LEMMA OrderlyStep ==
    ASSUME ConnInv, Orderly, [ConnNext]_connVars
    PROVE  Orderly'
<1> SUFFICES ASSUME cancels' = 0
             PROVE  /\ \A i \in 1..Len(queue') : queue'[i].by # None
                    /\ lock' = None => ~txn'
                    /\ lock' # None /\ awaits'[lock'] = "begin" /\ answer'[lock'] # "ok"
                          => ~txn'
  BY DEF Orderly
<1>1. CASE cancels' = cancels
  <2>1. /\ \A i \in 1..Len(queue) : queue[i].by # None
        /\ lock = None => ~txn
        /\ lock # None /\ awaits[lock] = "begin" /\ answer[lock] # "ok" => ~txn
    BY <1>1 DEF Orderly
  <2>2. lock = None => queue = <<>>
    <3>1. queue # <<>> => 1 \in 1..Len(queue)
      BY DEF ConnInv, TaskTypeOK
    <3>2. QED
      BY <2>1, <3>1 DEF ConnInv, WaitingOK
  <2>3. CASE Execute \/ Raises
    <3>1. queue # <<>> /\ queue' = Tail(queue) /\ UNCHANGED <<lock, call, awaits>>
      BY <2>3 DEF Execute, Raises
    <3>2. Head(queue) = queue[1] /\ 1 \in 1..Len(queue)
      BY <3>1, PopQueue DEF ConnInv, TaskTypeOK
    <3>3. Head(queue).by # None
      BY <2>1, <3>2
    <3>4. lock \in Task /\ lock # None /\ Head(queue).by = lock /\ queue' = <<>>
      BY <3>1, <3>3, HolderWaits
    <3>5. \A i \in 1..Len(queue') : FALSE
      BY <3>4
    <3>6. CASE Execute
      BY <3>1, <3>4, <3>5, <3>6 DEF Execute, Answered, ConnInv, TaskTypeOK
    <3>7. CASE Raises
      <4>1. answer[lock] = "none" /\ UNCHANGED txn
        BY <3>1, <3>3, <3>7, HolderWaits DEF Raises
      <4>2. QED
        BY <2>1, <3>1, <3>4, <3>5, <4>1
    <3>8. QED
      BY <2>3, <3>6, <3>7
  <2>4. ASSUME NEW t \in Task, Invoke(t)
        PROVE  /\ \A i \in 1..Len(queue') : queue'[i].by # None
               /\ UNCHANGED txn /\ lock' = t /\ lock = None
    <3>1. PICK c, kind : Submit(t, kind, c)
      BY <2>4 DEF Invoke, Start
    <3>2. lock = None /\ lock' = t /\ UNCHANGED txn
      BY <2>4 DEF Invoke, Start
    <3>3. queue' = <<Statement(t, kind, c)>>
      BY <2>2, <3>1, <3>2 DEF Submit
    <3>4. QED
      BY <3>2, <3>3 DEF Statement
  <2>5. ASSUME NEW t \in Task, Resume(t) \/ ResumeWithError(t)
        PROVE  /\ \A i \in 1..Len(queue') : queue'[i].by # None
               /\ lock' = None => ~txn'
               /\ lock' # None => awaits'[lock'] # "begin"
    <3>1. answer[t] # "none" /\ UNCHANGED txn
      BY <2>5 DEF Resume, ResumeWithError
    <3>2. lock = t /\ t # None /\ HolderOK(t) /\ queue = <<>>
      BY <3>1, HolderIs
    <3>3. CASE UNCHANGED lock /\ \E kind \in Kind \ {"begin"} : \E c : Submit(t, kind, c)
      <4> PICK kind \in Kind \ {"begin"} : \E c : Submit(t, kind, c)
        BY <3>3
      <4>1. PICK c : Submit(t, kind, c)
        OBVIOUS
      <4>2. queue' = <<Statement(t, kind, c)>> /\ awaits'[t] = kind
        BY <3>2, <4>1 DEF Submit, ConnInv, TaskTypeOK
      <4>3. QED
        BY <3>2, <3>3, <4>1, <4>2 DEF Statement
    <3>4. CASE Return(t) /\ UNCHANGED queue /\ ~txn
      BY <3>1, <3>2, <3>4 DEF Return
    <3>5. CASE Resume(t)
      <4>1. answer[t] = "ok" /\ Left(awaits[t], call[t])
        BY <3>2, <3>5 DEF Resume, HolderOK
      <4>2. CASE awaits[t] \in {"commit", "rollback"}
        BY <3>4, <3>5, <4>1, <4>2 DEF Resume, Left
      <4>3. CASE awaits[t] = "read"
        <5>1. AfterRead(t, call[t]) /\ UNCHANGED lock
          BY <3>5, <4>3 DEF Resume
        <5>2. QED
          BY <3>3, <5>1 DEF AfterRead, Kind
      <4>4. CASE awaits[t] = "charge"
        <5>1. AfterCharge(t, call[t]) /\ UNCHANGED lock
          BY <3>5, <4>4 DEF Resume
        <5>2. QED
          BY <3>3, <5>1 DEF AfterCharge, Kind
      <4>5. CASE awaits[t] \in {"begin", "delete", "hold", "refund"}
        BY <3>3, <3>5, <4>5 DEF Resume, Kind
      <4>6. QED
        BY <3>2, <4>2, <4>3, <4>4, <4>5 DEF HolderOK, Kind
    <3>6. CASE ResumeWithError(t)
      <4>1. CASE RollsBackOnError(t)
        BY <3>3, <3>6, <4>1 DEF ResumeWithError, Kind
      <4>2. CASE ~RollsBackOnError(t)
        BY <2>1, <3>2, <3>4, <3>6, <4>2 DEF ResumeWithError, RollsBackOnError
      <4>3. QED
        BY <4>1, <4>2
    <3>7. QED
      BY <2>5, <3>5, <3>6
  <2>6. ASSUME NEW t \in Task PROVE ~Cancel(t)
    BY <1>1 DEF Cancel, ConnInv, TaskTypeOK
  <2>7. CASE Elsewhere \/ UNCHANGED connVars
    BY <2>1, <2>7 DEF Elsewhere, connVars, task
  <2>8. CASE Die
    BY <2>8 DEF Die
  <2>9. CASE \E t \in Task : Invoke(t)
    <3>1. PICK t \in Task : /\ \A i \in 1..Len(queue') : queue'[i].by # None
                            /\ UNCHANGED txn /\ lock' = t /\ lock = None
      BY <2>4, <2>9
    <3>2. QED
      BY <2>1, <3>1
  <2>10. CASE \E t \in Task : Resume(t) \/ ResumeWithError(t)
    BY <2>5, <2>10
  <2>11. QED
    BY <2>3, <2>6, <2>7, <2>8, <2>9, <2>10 DEF ConnNext
<1>2. CASE cancels' # cancels
  <2>1. PICK t \in Task : Cancel(t)
    <3>1. \A t \in Task : ~Invoke(t) /\ ~Resume(t) /\ ~ResumeWithError(t)
      BY ZenonT(60), <1>2 DEF Invoke, Start, Resume, ResumeWithError, counts
    <3>2. ~Execute /\ ~Raises /\ ~Elsewhere /\ ~Die /\ connVars' # connVars
      BY <1>2 DEF Execute, Raises, Elsewhere, Die, connVars, counts
    <3>3. QED
      BY <3>1, <3>2 DEF ConnNext
  <2>2. QED
    BY <2>1 DEF Cancel, ConnInv, TaskTypeOK
<1>3. QED
  BY <1>1, <1>2

(* Nothing is left over at the start. *)
LEMMA OrderlyInit == ConnInit => Orderly
BY DEF ConnInit, Orderly

(* The invariant has the types of the module, and says where the one
   transaction may be left open. *)
LEMMA ConnInvImplies == ConnInv /\ Orderly => ConnTypeOK /\ NoTransactionLeftOpen
<1> SUFFICES ASSUME ConnInv, Orderly PROVE ConnTypeOK /\ NoTransactionLeftOpen
  OBVIOUS
<1>1. \A i \in DOMAIN queue : queue[i].kind \in Kind /\ queue[i].by \in Task \cup {None}
  <2>1. \A i \in DOMAIN queue : queue[i] \in Stmt
    BY DEF ConnInv, TaskTypeOK
  <2>2. QED
    BY <2>1 DEF Stmt
<1>2. view.pending \subseteq HoldRow /\ view.spend_log \subseteq LogRow
  BY DEF ConnInv, TaskTypeOK, TableSet
<1>3. ConnTypeOK
  BY <1>1, <1>2 DEF ConnInv, LedgerInv, TaskTypeOK, ConnTypeOK
<1>4. NoTransactionLeftOpen
  BY DEF Orderly, NoTransactionLeftOpen
<1>5. QED
  BY <1>3, <1>4

(* For any number of coroutines, faults, cancellations and deaths, the
   connection's variables are well-typed, and as long as nobody was cancelled
   an idle connection is outside a transaction. *)
THEOREM IdleConnectionClosed == ConnSpec => [](ConnTypeOK /\ NoTransactionLeftOpen)
<1>1. ConnInv /\ Orderly /\ [ConnNext]_connVars => ConnInv' /\ Orderly'
  BY ConnInvStep, OrderlyStep
<1>2. ConnInit => ConnInv /\ Orderly
  BY ConnInvInit, OrderlyInit
<1>3. QED
  BY <1>1, <1>2, ConnInvImplies, PTL DEF ConnSpec

(* ConnTypeOK: at every point of every operation, the connection, its
   transaction and what its statements have collected are of their types. *)
THEOREM ConnectionTyped == ConnSpec => []ConnTypeOK
BY IdleConnectionClosed, PTL

(* The statements implement the operations: whatever raises, is cancelled or
   dies between two statements, the committed tables change by one whole
   operation of SpendLedger at a time. *)
THEOREM StatementsImplementOperations == ConnSpec => OperationsAtomic
<1>1. ConnInit => LedgerInit
  BY DEF ConnInit
<1>2. QED
  BY <1>1, ConnInvInit, ConnInvStep, PTL DEF ConnSpec, LedgerSpec, OperationsAtomic

(* So every hold is resolved once although its operations can be cut short
   between any two statements. *)
THEOREM HoldsResolvedOnceByStatements == ConnSpec => []ResolvedOnce
<1>1. ConnInv => ResolvedOnce
  BY DEF ConnInv, LedgerInv
<1>2. QED
  BY <1>1, ConnInvInit, ConnInvStep, PTL DEF ConnSpec

=============================================================================
