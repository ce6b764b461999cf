----------------------------- MODULE LedgerConn -----------------------------
(***************************************************************************)
(* SpendLedger's operations opened up into the statements they send down   *)
(* the proxy's one aiosqlite connection (storage/spend_ledger.py; also     *)
(* TokenBudgetRule.evaluate of proxy/rules.py, which shares the lock).     *)
(*                                                                         *)
(* A coroutine takes the connection's asyncio.Lock, submits one statement  *)
(* at a time to the connection's worker thread and awaits its answer.  At  *)
(* any await the statement may raise or the coroutine may be cancelled;    *)
(* the worker executes what was submitted all the same, in order.          *)
(*                                                                         *)
(* SpendLedger's variables are the committed tables.  view is what the     *)
(* connection sees inside its open transaction.                            *)
(***************************************************************************)
EXTENDS SpendLedger, Sequences, TLC

CONSTANTS
    Task,           \* coroutines that use the connection
    None,
    MaxFaults,      \* bound: statements that raise (busy, I/O error)
    MaxCancels,     \* bound: CancelledErrors delivered
    MaxCrashes      \* bound: deaths of the proxy

ASSUME ConnAssumption ==
    /\ None \notin Task
    /\ MaxFaults \in Nat /\ MaxCancels \in Nat /\ MaxCrashes \in Nat

VARIABLES
    lock,           \* the coroutine holding the lock
    call,           \* what each coroutine is executing
    awaits,         \* the kind of statement it awaits ("idle": none)
    answer,         \* what the worker answered it, until it resumes
    queue,          \* statements submitted and not yet executed
    txn,            \* has the connection a transaction open?
    view,           \* the tables as that transaction left them so far
    faults, cancels, crashes

counts == <<faults, cancels, crashes>>
task == <<lock, call, awaits, answer>>
connVars == <<ledgerVars, task, queue, txn, view, counts>>

Kind == {"begin", "read", "hold", "delete", "charge", "refund", "commit", "rollback"}
Op == {"hold", "settle", "estimate", "refund", "sweep", "budget"}

\* todo: the row to insert (hold), or the rows still to bill.  n: the cap
\* (hold) or the reported usage (settle).
Call == [op : Op, h : Handle \cup {None}, todo : SUBSET HoldRow, n : Nat]

NoCall == [op |-> "budget", h |-> None, todo |-> {}, n |-> 0]

Tables == [pending |-> pending, spend_log |-> spend_log, issued |-> issued,
           refunded |-> refunded, charged |-> charged]

ConnTypeOK ==
    /\ LedgerTypeOK
    /\ lock \in Task \cup {None}
    /\ call \in [Task -> Call]
    /\ awaits \in [Task -> Kind \cup {"idle"}]
    /\ answer \in [Task -> {"none", "ok", "error"}]
    /\ \A i \in DOMAIN queue :
          queue[i].kind \in Kind /\ queue[i].by \in Task \cup {None}
    /\ txn \in BOOLEAN
    /\ view.pending \subseteq HoldRow /\ view.spend_log \subseteq LogRow
    /\ faults \in 0..MaxFaults /\ cancels \in 0..MaxCancels
    /\ crashes \in 0..MaxCrashes

ConnInit ==
    /\ LedgerInit
    /\ lock = None
    /\ call = [t \in Task |-> NoCall]
    /\ awaits = [t \in Task |-> "idle"]
    /\ answer = [t \in Task |-> "none"]
    /\ queue = <<>>
    /\ txn = FALSE
    /\ view = Tables
    /\ faults = 0 /\ cancels = 0 /\ crashes = 0

-----------------------------------------------------------------------------
(* The worker thread *)

\* A row of todo, the one the next DELETE and INSERT are about.
Current(c) == CHOOSE row \in c.todo : TRUE

Statement(t, kind, c) == [by |-> t, kind |-> kind, call |-> c]

\* Mutant: the reported usage is charged less what was held for it.
ChargeTheDifference(c) ==
    IF c.op = "settle" THEN c.n - Current(c).estimate ELSE FailClosedCharge(Current(c))

Charge(c) ==
    IF c.op = "settle" THEN c.n ELSE FailClosedCharge(Current(c))

\* The tables after statement s, executed on tables b.
Effect(s, b) ==
    LET row == Current(s.call) IN
    CASE s.kind = "hold" ->
            [b EXCEPT !.pending = @ \cup {row}, !.issued = @ \cup {row.handle}]
      [] s.kind = "delete" -> [b EXCEPT !.pending = @ \ {row}]
      [] s.kind = "charge" ->
            [b EXCEPT !.spend_log = @ \cup
                          {[origin |-> row.handle, nth |-> b.charged[row.handle],
                            alias |-> row.alias, tokens |-> Charge(s.call),
                            estimate |-> row.estimate]},
                      !.charged[row.handle] = @ + 1]
      [] s.kind = "refund" ->
            LET gone == {r \in b.pending : r.handle = s.call.h} IN
            [b EXCEPT !.pending = @ \ gone,
                      !.refunded = IF gone # {} THEN @ \cup {s.call.h} ELSE @]

\* COMMIT makes the view durable.
Publish(v) ==
    /\ pending' = v.pending
    /\ spend_log' = v.spend_log
    /\ issued' = v.issued
    /\ refunded' = v.refunded
    /\ charged' = v.charged
    /\ stale' = {h \in stale : \E row \in v.pending : row.handle = h}
    /\ UNCHANGED config

\* The statement at the head works.  DML opens a transaction by itself if
\* there is none; COMMIT and ROLLBACK outside a transaction do nothing.
Works(s) ==
    \/ /\ s.kind = "begin" /\ ~txn
       /\ txn' = TRUE /\ view' = Tables
       /\ UNCHANGED ledgerVars
    \/ /\ s.kind = "read"
       /\ UNCHANGED <<txn, view, ledgerVars>>
    \/ /\ s.kind \in {"hold", "delete", "charge", "refund"}
       /\ view' = Effect(s, IF txn THEN view ELSE Tables)
       /\ txn' = TRUE
       /\ UNCHANGED ledgerVars
    \/ /\ s.kind = "commit"
       /\ IF txn THEN Publish(view) ELSE UNCHANGED ledgerVars
       /\ txn' = FALSE /\ view' = Tables'
    \/ /\ s.kind = "rollback"
       /\ txn' = FALSE /\ view' = Tables
       /\ UNCHANGED ledgerVars

Answered(s, how) ==
    answer' = IF s.by = None THEN answer ELSE [answer EXCEPT ![s.by] = how]

Execute ==
    /\ queue # <<>>
    /\ Works(Head(queue))
    /\ Answered(Head(queue), "ok")
    /\ queue' = Tail(queue)
    /\ UNCHANGED <<lock, call, awaits, counts>>

\* The statement raises and changes nothing: BEGIN inside a transaction, or
\* any statement but ROLLBACK by bad luck.
Raises ==
    /\ queue # <<>>
    /\ LET s == Head(queue) IN
       /\ s.kind # "rollback"
       /\ IF s.kind = "begin" /\ txn THEN UNCHANGED faults
          ELSE faults < MaxFaults /\ faults' = faults + 1
       /\ Answered(s, "error")
    /\ queue' = Tail(queue)
    /\ UNCHANGED <<ledgerVars, lock, call, awaits, txn, view, cancels, crashes>>

-----------------------------------------------------------------------------
(* The coroutines *)

Submit(t, kind, c) ==
    /\ call' = [call EXCEPT ![t] = c]
    /\ awaits' = [awaits EXCEPT ![t] = kind]
    /\ queue' = Append(queue, Statement(t, kind, c))

Return(t) ==
    /\ lock' = None
    /\ call' = [call EXCEPT ![t] = NoCall]
    /\ awaits' = [awaits EXCEPT ![t] = "idle"]

\* async with self._lock, then the first statement.
Start(t, c) ==
    /\ awaits[t] = "idle"
    /\ lock = None
    /\ lock' = t
    /\ Submit(t, IF c.op = "refund" THEN "refund" ELSE "begin", c)
    /\ UNCHANGED <<ledgerVars, answer, txn, view, counts>>

\* A handle is drawn when the hold is inserted: one nobody has.
Unused == Handle \ (issued \cup {call[t].h : t \in Task})

Invoke(t) ==
    \/ \E h \in Unused, a \in Alias, e \in Estimate : \E cap \in caps_seen[a] :
          Start(t, [op |-> "hold", h |-> h, n |-> cap,
                    todo |-> {[handle |-> h, alias |-> a, estimate |-> e]}])
    \/ \E h \in issued, actual \in Usage :
          Start(t, [op |-> "settle", h |-> h, todo |-> {}, n |-> actual])
    \/ \E op \in {"estimate", "refund"}, h \in issued :
          Start(t, [op |-> op, h |-> h, todo |-> {}, n |-> 0])
    \/ \E op \in {"sweep", "budget"} :
          Start(t, [op |-> op, h |-> None, todo |-> {}, n |-> 0])

\* What the SELECTs found; BEGIN has just made the view the tables.
AfterRead(t, c) ==
    \/ /\ c.op = "hold"
       /\ LET row == Current(c) IN
          Submit(t, IF Fits(row.alias, row.estimate, c.n) THEN "hold" ELSE "rollback", c)
    \/ /\ c.op \in {"settle", "estimate"}
       /\ LET found == {row \in view.pending : row.handle = c.h} IN
          Submit(t, IF found # {} THEN "delete" ELSE "rollback",
                 [c EXCEPT !.todo = found])
    \/ /\ c.op = "sweep"
       /\ LET found == {row \in view.pending : row.handle \in stale} IN
          Submit(t, IF found # {} THEN "delete" ELSE "commit",
                 [c EXCEPT !.todo = found])
    \/ /\ c.op = "budget"
       /\ Submit(t, "rollback", c)

AfterCharge(t, c) ==
    LET left == c.todo \ {Current(c)} IN
    Submit(t, IF left # {} THEN "delete" ELSE "commit", [c EXCEPT !.todo = left])

\* A coroutine whose statement worked goes on to its next one.
Resume(t) ==
    /\ answer[t] = "ok"
    /\ answer' = [answer EXCEPT ![t] = "none"]
    /\ LET c == call[t] IN
       \/ awaits[t] = "begin" /\ Submit(t, "read", c) /\ UNCHANGED lock
       \/ awaits[t] = "read" /\ AfterRead(t, c) /\ UNCHANGED lock
       \/ awaits[t] = "delete" /\ Submit(t, "charge", c) /\ UNCHANGED lock
       \/ awaits[t] = "charge" /\ AfterCharge(t, c) /\ UNCHANGED lock
       \/ awaits[t] \in {"hold", "refund"} /\ Submit(t, "commit", c) /\ UNCHANGED lock
       \/ awaits[t] \in {"commit", "rollback"} /\ Return(t) /\ UNCHANGED queue
    /\ UNCHANGED <<ledgerVars, txn, view, counts>>

\* Mutant: the handler forgets to roll back.
NeverRollsBack(t) == awaits[t] = "rollback"

\* BEGIN is awaited before the try: nothing is rolled back for it.
RollsBackOnError(t) == awaits[t] # "begin"

\* except BaseException in SpendLedger, except Exception in TokenBudgetRule.
RollsBackOnCancel(t) == awaits[t] # "begin" /\ call[t].op # "budget"

ResumeWithError(t) ==
    /\ answer[t] = "error"
    /\ answer' = [answer EXCEPT ![t] = "none"]
    /\ IF RollsBackOnError(t)
       THEN Submit(t, "rollback", call[t]) /\ UNCHANGED lock
       ELSE Return(t) /\ UNCHANGED queue
    /\ UNCHANGED <<ledgerVars, txn, view, counts>>

\* CancelledError arrives at the await.  What was submitted stays submitted.
Orphaned(t) ==
    [i \in DOMAIN queue |->
        IF queue[i].by = t THEN [queue[i] EXCEPT !.by = None] ELSE queue[i]]

Cancel(t) ==
    /\ awaits[t] # "idle"
    /\ cancels < MaxCancels
    /\ cancels' = cancels + 1
    /\ answer' = [answer EXCEPT ![t] = "none"]
    /\ IF RollsBackOnCancel(t)
       THEN /\ queue' = Append(Orphaned(t), Statement(t, "rollback", call[t]))
            /\ awaits' = [awaits EXCEPT ![t] = "rollback"]
            /\ UNCHANGED <<lock, call>>
       ELSE Return(t) /\ queue' = Orphaned(t)
    /\ UNCHANGED <<ledgerVars, txn, view, faults, crashes>>

-----------------------------------------------------------------------------
(* Everybody else: other connections write only while no transaction here
   holds the write lock.  A hold that passes the sweeper's cutoff during a
   transaction counts as passing it just afterwards. *)
Elsewhere ==
    /\ ~txn
    /\ \/ \E h \in issued : GrowOld(h)
       \/ \E o \in DirectRow, a \in Alias, n \in Usage \cup {0} : RecordSpend(o, a, n)
       \/ \E a \in Alias, cap \in CapValue \cup {NULL} : SetSpendCap(a, cap)
    /\ view' = Tables'
    /\ UNCHANGED <<task, queue, txn, counts>>

\* The process dies: the open transaction is gone, the tables stay.
Die ==
    /\ crashes < MaxCrashes
    /\ crashes' = crashes + 1
    /\ lock' = None
    /\ call' = [t \in Task |-> NoCall]
    /\ awaits' = [t \in Task |-> "idle"]
    /\ answer' = [t \in Task |-> "none"]
    /\ queue' = <<>>
    /\ txn' = FALSE
    /\ view' = Tables
    /\ UNCHANGED <<ledgerVars, faults, cancels>>

ConnNext ==
    \/ Execute
    \/ Raises
    \/ \E t \in Task : Invoke(t) \/ Resume(t) \/ ResumeWithError(t) \/ Cancel(t)
    \/ Elsewhere
    \/ Die

ConnSpec == ConnInit /\ [][ConnNext]_connVars

-----------------------------------------------------------------------------
(***************************************************************************)
(* What SpendLedger takes for granted: with statements that raise, a       *)
(* coroutine cancelled at any await and a death in the middle of a batch,  *)
(* the committed tables only ever change by one whole operation; no DELETE *)
(* is published without its INSERT, and no statement of one operation      *)
(* slips into the transaction of another.                                  *)
(***************************************************************************)
OperationsAtomic == LedgerSpec

(***************************************************************************)
(* Whatever raises, as long as no coroutine was cancelled: when nobody     *)
(* holds the lock and the worker has nothing left to do, the connection is *)
(* not inside a transaction.  The next BEGIN IMMEDIATE does not nest, and  *)
(* the write lock is free for the other connections to the database.       *)
(***************************************************************************)
NoTransactionLeftOpen ==
    (cancels = 0 /\ lock = None /\ queue = <<>>) => ~txn

(***************************************************************************)
(* "Every transaction rolls back on ANY exit - including                   *)
(* asyncio.CancelledError" (spend_ledger.py:7-9): an operation of          *)
(* SpendLedger that lets go of the lock leaves no transaction behind.      *)
(***************************************************************************)
RollsBackOnAnyExit ==
    [][\A t \in Task :
          (lock = t /\ lock' = None /\ call[t].op # "budget" /\ queue' = <<>>) =>
              ~txn']_connVars

=============================================================================
