------------------------- MODULE ProxyRequestProofs -------------------------
(***************************************************************************)
(* The request handlers are legal clients of the ledger, for any number of *)
(* requests, ledger errors and crashes; so each of their holds is resolved *)
(* once (SpendLedgerProofs), a served request is never refunded, and every *)
(* charge is honest.                                                       *)
(***************************************************************************)
EXTENDS ProxyRequest, SpendLedgerProofs

\* Everything RequestTypeOK says that LedgerTypeOK does not.
HandlerTypeOK ==
    /\ pc \in [Request -> Phase]
    /\ req \in [Request -> [alias : Alias, estimate : Estimate,
                            cap : CapValue \cup {NULL}]]
    /\ reply \in [Request -> Reply]
    /\ up \in BOOLEAN
    /\ faults \in 0..MaxFaults
    /\ crashes \in 0..MaxCrashes

\* Phases a request reaches only through the gate, with its hold if capped.
PastGate == {"gated", "release", "sent", "relay", "settle", "estimate",
             "estimate_again", "refund", "refund_again", "record"}

ResolvingPhase == {"settle", "estimate", "estimate_again", "refund", "refund_again"}

\* What a request knows about the ledger at each phase.
ClientOK(r) ==
    /\ pc[r] = "hold" => Capped(r) /\ req[r].cap \in caps_seen[req[r].alias]
    /\ pc[r] \in PastGate /\ Capped(r) => r \in issued
    /\ pc[r] \in ResolvingPhase => Capped(r)
    /\ pc[r] = "settle" => reply[r].usage # NULL

\* The cap in force is one the ledger remembers.
CapsRemembered ==
    \A a \in Alias : spend_cap[a] # NULL => spend_cap[a] \in caps_seen[a]

ClientInv ==
    /\ LedgerInv
    /\ HandlerTypeOK
    /\ CapsRemembered
    /\ \A r \in Request : ClientOK(r)

USE LedgerAssumption, RequestAssumption

-----------------------------------------------------------------------------
(* What ledger steps leave alone: issued handles and known caps only grow. *)
LEMMA LedgerGrows ==
    ASSUME ClientInv, Next
    PROVE  /\ issued \subseteq issued'
           /\ \A a \in Alias : caps_seen[a] \subseteq caps_seen'[a]
           /\ CapsRemembered'
<1> DEFINE same == issued' = issued /\ spend_cap' = spend_cap /\ caps_seen' = caps_seen
<1>1. same => issued \subseteq issued' /\ CapsRemembered'
              /\ \A a \in Alias : caps_seen[a] \subseteq caps_seen'[a]
  BY DEF ClientInv, CapsRemembered
<1>2. CASE \E r \in Request : PlaceHold(r)
  BY <1>2 DEF PlaceHold, Hold, config, ClientInv, CapsRemembered
<1>3. CASE OperatorSetsCap
  <2>1. PICK a \in Alias, cap \in CapValue \cup {NULL} : SetSpendCap(a, cap)
    BY <1>3 DEF OperatorSetsCap
  <2>2. /\ spend_cap \in [Alias -> CapValue \cup {NULL}]
        /\ caps_seen \in [Alias -> SUBSET CapValue]
    BY DEF ClientInv, LedgerInv, LedgerTypeOK
  <2>3. QED
    BY <2>1, <2>2 DEF SetSpendCap, ClientInv, CapsRemembered
<1>4. ASSUME NEW r \in Request, RequestStep(r), ~PlaceHold(r)
      PROVE  same
  BY <1>4 DEF RequestStep, TurnAway, ReadCap, DenyOverCap, HoldRaises, FailBeforeSend,
     Send, SendFails, Answer, Escape, Release, ReleaseRaises, StartMetering, SettleHold,
     SettleRaises, EstimateHold, EstimateRaises, RefundHold, RefundRaises,
     RecordUncapped, RecordRaises, Fault, Settle, SettleAtEstimate, Refund, Bill,
     RecordSpend, ledgerVars, config
<1>5. CASE SweepOnce \/ (\E r \in Request : HoldGrowsOld(r)) \/ Crash \/ Restart
  <2>1. same
    BY <1>5 DEF SweepOnce, Sweep, Bill, HoldGrowsOld, GrowOld, Crash, Restart,
       PruneOldSpendLog, ledgerVars, config
  <2>2. QED
    BY <2>1, <1>1
<1> HIDE DEF same
<1>6. QED
  BY <1>1, <1>2, <1>3, <1>4, <1>5 DEF Next

LEMMA HandlerTypeStep ==
    ASSUME ClientInv, Next
    PROVE  HandlerTypeOK'
<1> USE DEF ClientInv, HandlerTypeOK, Goto, At, NoFault
<1>1. ASSUME NEW r \in Request, RequestStep(r), ~ReadCap(r), ~Answer(r)
      PROVE  /\ req' = req /\ reply' = reply /\ up' = up /\ crashes' = crashes
             /\ pc' \in [Request -> Phase]
  BY <1>1 DEF RequestStep, TurnAway, PlaceHold, DenyOverCap, HoldRaises, FailBeforeSend,
     Send, SendFails, Escape, Release, ReleaseRaises, StartMetering, Metering, SettleHold,
     SettleRaises, EstimateHold, EstimateRaises, RefundHold, RefundRaises,
     RecordUncapped, RecordRaises, Phase
<1>2. ASSUME NEW r \in Request, RequestStep(r)
      PROVE  faults' \in 0..MaxFaults
  BY <1>2 DEF RequestStep, TurnAway, ReadCap, PlaceHold, DenyOverCap, HoldRaises,
     FailBeforeSend, Send, SendFails, Answer, Escape, Release, ReleaseRaises,
     StartMetering, SettleHold, SettleRaises, EstimateHold, EstimateRaises, RefundHold,
     RefundRaises, RecordUncapped, RecordRaises, Fault
<1>3. ASSUME NEW r \in Request, ReadCap(r)
      PROVE  HandlerTypeOK'
  <2>1. spend_cap \in [Alias -> CapValue \cup {NULL}]
    BY DEF LedgerInv, LedgerTypeOK
  <2>2. QED
    BY <1>3, <2>1 DEF ReadCap, Phase
<1>4. ASSUME NEW r \in Request, Answer(r)
      PROVE  HandlerTypeOK'
  BY <1>4 DEF Answer, Reply, Phase
<1>5. ASSUME NEW r \in Request, RequestStep(r)
      PROVE  HandlerTypeOK'
  BY <1>1, <1>2, <1>3, <1>4, <1>5
<1>6. CASE SweepOnce \/ (\E r \in Request : HoldGrowsOld(r)) \/ OperatorSetsCap
  BY <1>6 DEF SweepOnce, HoldGrowsOld, OperatorSetsCap
<1>7. CASE Crash
  <2>1. crashes' \in 0..MaxCrashes
    BY <1>7 DEF Crash
  <2>2. pc' \in [Request -> Phase]
    BY <1>7 DEF Crash, Phase
  <2>3. QED
    BY <1>7, <2>1, <2>2 DEF Crash
<1>8. CASE Restart
  BY <1>8 DEF Restart
<1>9. QED
  BY <1>5, <1>6, <1>7, <1>8 DEF Next

(* A request keeps what it knows about the ledger, whoever moves. *)
LEMMA ClientStep ==
    ASSUME ClientInv, Next, NEW r \in Request
    PROVE  ClientOK(r)'
<1>1. /\ issued \subseteq issued'
      /\ \A a \in Alias : caps_seen[a] \subseteq caps_seen'[a]
  BY LedgerGrows
<1>2. /\ pc[r] \in Phase /\ req[r].alias \in Alias
      /\ req \in [Request -> [alias : Alias, estimate : Estimate,
                              cap : CapValue \cup {NULL}]]
      /\ pc \in [Request -> Phase] /\ reply \in [Request -> Reply]
  BY DEF ClientInv, HandlerTypeOK
<1>3. ClientOK(r)
  BY DEF ClientInv
<1>4. ASSUME pc'[r] = pc[r], req'[r] = req[r], reply'[r] = reply[r]
      PROVE  ClientOK(r)'
  BY <1>1, <1>2, <1>3, <1>4 DEF ClientOK, Capped
<1>5. ASSUME NEW q \in Request, RequestStep(q), q # r
      PROVE  pc'[r] = pc[r] /\ req'[r] = req[r] /\ reply'[r] = reply[r]
  BY <1>2, <1>5 DEF RequestStep, TurnAway, ReadCap, PlaceHold, DenyOverCap, HoldRaises,
     FailBeforeSend, Send, SendFails, Answer, Escape, Release, ReleaseRaises,
     StartMetering, SettleHold, SettleRaises, EstimateHold, EstimateRaises, RefundHold,
     RefundRaises, RecordUncapped, RecordRaises, Goto
<1>6. CASE ReadCap(r)
  <2>1. PICK a \in Alias, e \in Estimate :
           /\ req'[r] = [alias |-> a, estimate |-> e, cap |-> spend_cap[a]]
           /\ pc'[r] = IF spend_cap[a] = NULL THEN "gated" ELSE "hold"
    BY <1>2, <1>6 DEF ReadCap, Goto
  <2>2. spend_cap[a] # NULL => spend_cap[a] \in caps_seen'[a]
    BY <1>1 DEF ClientInv, CapsRemembered
  <2>3. QED
    BY <2>1, <2>2 DEF ClientOK, Capped, PastGate, ResolvingPhase
<1>7. CASE PlaceHold(r)
  BY <1>2, <1>3, <1>7 DEF PlaceHold, Hold, Goto, At, ClientOK, Capped, PastGate, ResolvingPhase
<1>8. CASE StartMetering(r)
  BY <1>1, <1>2, <1>3, <1>8 DEF StartMetering, Metering, Goto, At, ClientOK, Capped,
     PastGate, ResolvingPhase
<1>9. CASE Answer(r)
  BY <1>1, <1>2, <1>3, <1>9 DEF Answer, Goto, At, ClientOK, Capped, PastGate, ResolvingPhase
<1>10. CASE TurnAway(r) \/ DenyOverCap(r) \/ HoldRaises(r) \/ Escape(r) \/ Release(r)
            \/ ReleaseRaises(r) \/ SettleHold(r) \/ EstimateHold(r) \/ RefundHold(r)
            \/ RecordUncapped(r) \/ RecordRaises(r)
  <2>1. pc'[r] \in {"done", "lost"}
    BY <1>2, <1>10 DEF TurnAway, DenyOverCap, HoldRaises, Escape, Release, ReleaseRaises,
       SettleHold, EstimateHold, RefundHold, RecordUncapped, RecordRaises, Goto
  <2>2. QED
    BY <2>1 DEF ClientOK, PastGate, ResolvingPhase
<1>11. CASE FailBeforeSend(r) \/ Send(r) \/ SendFails(r)
  BY <1>1, <1>2, <1>3, <1>11 DEF FailBeforeSend, Send, SendFails, Goto, At, ClientOK, Capped,
     PastGate, ResolvingPhase
<1>12. CASE SettleRaises(r) \/ EstimateRaises(r) \/ RefundRaises(r)
  BY <1>1, <1>2, <1>3, <1>12 DEF SettleRaises, EstimateRaises, RefundRaises, Goto, At,
     ClientOK, Capped, PastGate, ResolvingPhase
<1>13. CASE RequestStep(r)
  BY <1>6, <1>7, <1>8, <1>9, <1>10, <1>11, <1>12, <1>13 DEF RequestStep
<1>14. CASE SweepOnce \/ (\E q \in Request : HoldGrowsOld(q)) \/ OperatorSetsCap \/ Restart
  BY <1>4, <1>14 DEF SweepOnce, HoldGrowsOld, OperatorSetsCap, Restart
<1>15. CASE Crash
  BY <1>2, <1>15 DEF Crash, ClientOK, PastGate, ResolvingPhase
<1>16. QED
  BY <1>4, <1>5, <1>13, <1>14, <1>15 DEF Next

-----------------------------------------------------------------------------
(* Each step of the proxy is one legal call of the ledger, or none. *)
LEMMA LegalStep ==
    ASSUME ClientInv, [Next]_vars
    PROVE  [LedgerNext]_ledgerVars
<1>1. /\ req \in [Request -> [alias : Alias, estimate : Estimate,
                              cap : CapValue \cup {NULL}]]
      /\ reply \in [Request -> Reply]
      /\ Request = Handle
  BY DEF ClientInv, HandlerTypeOK, Request
<1>2. ASSUME NEW r \in Request, PlaceHold(r)
      PROVE  LedgerNext
  <2>1. req[r].alias \in Alias /\ req[r].estimate \in Estimate
    BY <1>1
  <2>2. req[r].cap \in caps_seen[req[r].alias]
    BY <1>2 DEF PlaceHold, At, ClientInv, ClientOK
  <2>3. Hold(r, req[r].alias, req[r].estimate, req[r].cap)
    BY <1>2 DEF PlaceHold
  <2>4. QED
    BY <1>1, <2>1, <2>2, <2>3 DEF LedgerNext
<1>3. ASSUME NEW r \in Request, SettleHold(r) \/ EstimateHold(r) \/ RefundHold(r)
      PROVE  LedgerNext
  <2>1. r \in issued
    BY <1>3 DEF SettleHold, EstimateHold, RefundHold, At, ClientInv, ClientOK, PastGate,
       ResolvingPhase
  <2>2. CASE SettleHold(r)
    <3>1. reply[r].usage \in Usage
      BY <1>1, <2>2 DEF SettleHold, At, ClientInv, ClientOK, Reply
    <3>2. QED
      BY <2>1, <2>2, <3>1 DEF SettleHold, LedgerNext
  <2>3. CASE EstimateHold(r)
    BY <2>1, <2>3 DEF EstimateHold, LedgerNext
  <2>4. CASE RefundHold(r)
    BY <2>1, <2>4 DEF RefundHold, LedgerNext
  <2>5. QED
    BY <1>3, <2>2, <2>3, <2>4
<1>4. ASSUME NEW r \in Request, Release(r)
      PROVE  [LedgerNext]_ledgerVars
  <2>1. CASE Capped(r)
    <3>1. r \in issued
      BY <1>4, <2>1 DEF Release, At, ClientInv, ClientOK, PastGate
    <3>2. QED
      BY <1>4, <2>1, <3>1 DEF Release, LedgerNext
  <2>2. CASE ~Capped(r)
    BY <1>4, <2>2 DEF Release
  <2>3. QED
    BY <2>1, <2>2
<1>5. ASSUME NEW r \in Request, RecordUncapped(r)
      PROVE  LedgerNext
  <2>1. PICK o \in DirectRow : RecordSpend(o, req[r].alias,
                      IF reply[r].usage = NULL THEN 0 ELSE reply[r].usage)
    BY <1>5 DEF RecordUncapped
  <2>2. req[r].alias \in Alias
        /\ (IF reply[r].usage = NULL THEN 0 ELSE reply[r].usage) \in Usage \cup {0}
    BY <1>1 DEF Reply
  <2>3. QED
    BY <2>1, <2>2 DEF LedgerNext
<1>6. ASSUME NEW r \in Request, RequestStep(r), ~PlaceHold(r), ~SettleHold(r),
             ~EstimateHold(r), ~RefundHold(r), ~Release(r), ~RecordUncapped(r)
      PROVE  UNCHANGED ledgerVars
  BY <1>6 DEF RequestStep, TurnAway, ReadCap, DenyOverCap, HoldRaises, FailBeforeSend,
     Send, SendFails, Answer, Escape, ReleaseRaises, StartMetering, SettleRaises,
     EstimateRaises, RefundRaises, RecordRaises, Fault
<1>7. CASE SweepOnce
  BY <1>7 DEF SweepOnce, LedgerNext
<1>8. ASSUME NEW r \in Request, HoldGrowsOld(r)
      PROVE  LedgerNext
  <2>1. r \in issued
    BY <1>8 DEF HoldGrowsOld, GrowOld, Rows, ClientInv, LedgerInv, ResolvedOnce, HeldHandles
  <2>2. QED
    BY <1>8, <2>1 DEF HoldGrowsOld, LedgerNext
<1>9. CASE OperatorSetsCap
  BY <1>9 DEF OperatorSetsCap, LedgerNext
<1>10. CASE Restart
  BY <1>10 DEF Restart, LedgerNext
<1>11. CASE Crash \/ UNCHANGED vars
  BY <1>11 DEF Crash, vars
<1>12. QED
  BY <1>2, <1>3, <1>4, <1>5, <1>6, <1>7, <1>8, <1>9, <1>10, <1>11 DEF Next

LEMMA ClientInvInit == Init => ClientInv
<1> SUFFICES ASSUME Init PROVE ClientInv
  OBVIOUS
<1>1. LedgerInv
  BY LedgerInvInit DEF Init
<1>2. HandlerTypeOK
  BY DEF Init, HandlerTypeOK, Phase, Reply, NoReply
<1>3. CapsRemembered
  BY DEF Init, LedgerInit, CapsRemembered
<1>4. \A r \in Request : ClientOK(r)
  BY DEF Init, ClientOK, PastGate, ResolvingPhase
<1>5. QED
  BY <1>1, <1>2, <1>3, <1>4 DEF ClientInv

LEMMA ClientInvStep == ClientInv /\ [Next]_vars => ClientInv'
<1> SUFFICES ASSUME ClientInv, [Next]_vars
             PROVE  ClientInv'
  OBVIOUS
<1>1. LedgerInv'
  BY LegalStep, LedgerInvStep DEF ClientInv
<1>2. CASE Next
  BY <1>1, <1>2, LedgerGrows, HandlerTypeStep, ClientStep DEF ClientInv
<1>3. CASE UNCHANGED vars
  BY <1>1, <1>3 DEF vars, ledgerVars, config, ClientInv, HandlerTypeOK, CapsRemembered,
     ClientOK, Capped
<1>4. QED
  BY <1>2, <1>3

(* Whatever fails, is retried, swept or killed, the handlers use the ledger
   as it is meant to be used: handles are not reused, and every hold is
   placed under a cap that was really configured and fits there. *)
THEOREM HandlersAreLegal == Spec => LegalClient
<1>1. Init => LedgerInit
  BY DEF Init
<1>2. QED
  BY <1>1, ClientInvInit, ClientInvStep, LegalStep, PTL DEF Spec, LegalClient, LedgerSpec

(* So every proxied request's hold is resolved once. *)
THEOREM RequestsResolvedOnce == Spec => []ResolvedOnce
<1>1. ClientInv => ResolvedOnce
  BY DEF ClientInv, LedgerInv
<1>2. QED
  BY <1>1, ClientInvInit, ClientInvStep, PTL DEF Spec

(* Types, for any number of requests. *)
THEOREM RequestTypes == Spec => []RequestTypeOK
<1>1. ClientInv => RequestTypeOK
  BY DEF ClientInv, LedgerInv, HandlerTypeOK, RequestTypeOK
<1>2. QED
  BY <1>1, ClientInvInit, ClientInvStep, PTL DEF Spec

-----------------------------------------------------------------------------
(* Refunds *)

\* What is known of the answer at each phase: none before it is relayed, a
\* rejection where metering refunds.
AnswerOK(r) ==
    /\ pc[r] \in {"new", "hold", "gated", "release", "sent"} => reply[r] = NoReply
    /\ pc[r] \in {"refund", "refund_again"} => reply[r].kind = "error"
    /\ r \in refunded => pc[r] = "done" /\ reply[r].kind \notin {"stream", "body"}

AnswerInv == \A r \in Request : AnswerOK(r)

LEMMA AnswerStep ==
    ASSUME ClientInv, AnswerInv, Next, NEW r \in Request
    PROVE  AnswerOK(r)'
<1>1. pc \in [Request -> Phase] /\ reply \in [Request -> Reply]
  BY DEF ClientInv, HandlerTypeOK
<1>2. AnswerOK(r)
  BY DEF AnswerInv
<1>3. ASSUME pc'[r] = pc[r], reply'[r] = reply[r], r \in refunded' => r \in refunded
      PROVE  AnswerOK(r)'
  BY <1>2, <1>3 DEF AnswerOK
<1>4. ASSUME NEW q \in Request, RequestStep(q), q # r
      PROVE  pc'[r] = pc[r] /\ reply'[r] = reply[r] /\ (r \in refunded' => r \in refunded)
  BY <1>1, <1>4 DEF RequestStep, TurnAway, ReadCap, PlaceHold, DenyOverCap, HoldRaises,
     FailBeforeSend, Send, SendFails, Answer, Escape, Release, ReleaseRaises,
     StartMetering, SettleHold, SettleRaises, EstimateHold, EstimateRaises, RefundHold,
     RefundRaises, RecordUncapped, RecordRaises, Goto, Fault, Hold, Settle,
     SettleAtEstimate, Bill, Refund, RecordSpend, ledgerVars
<1>5. CASE Release(r)
  <2>1. pc'[r] = "done" /\ reply'[r] = NoReply
    BY <1>1, <1>2, <1>5 DEF Release, Goto, At, AnswerOK
  <2>2. QED
    BY <2>1 DEF AnswerOK, NoReply
<1>6. CASE RefundHold(r)
  <2>1. pc'[r] = "done" /\ reply'[r].kind = "error"
    BY <1>1, <1>2, <1>6 DEF RefundHold, Goto, At, AnswerOK
  <2>2. QED
    BY <2>1 DEF AnswerOK
<1>7. CASE RequestStep(r) /\ ~Release(r) /\ ~RefundHold(r)
  <2>1. refunded' = refunded /\ pc[r] # "done"
    BY <1>7 DEF RequestStep, TurnAway, ReadCap, PlaceHold, DenyOverCap, HoldRaises,
       FailBeforeSend, Send, SendFails, Answer, Escape, ReleaseRaises, StartMetering,
       SettleHold, SettleRaises, EstimateHold, EstimateRaises, RefundRaises,
       RecordUncapped, RecordRaises, At, Fault, Hold, Settle, SettleAtEstimate, Bill,
       RecordSpend, ledgerVars
  <2>2. r \notin refunded'
    BY <1>2, <2>1 DEF AnswerOK
  <2>3. pc'[r] \in {"new", "hold", "gated", "release", "sent"} => reply'[r] = NoReply
    BY <1>1, <1>2, <1>7 DEF RequestStep, TurnAway, ReadCap, PlaceHold, DenyOverCap,
       HoldRaises, FailBeforeSend, Send, SendFails, Answer, Escape, ReleaseRaises,
       StartMetering, Metering, SettleHold, SettleRaises, EstimateHold, EstimateRaises,
       RefundRaises, RecordUncapped, RecordRaises, At, Goto, AnswerOK
  <2>4. pc'[r] \in {"refund", "refund_again"} => reply'[r].kind = "error"
    BY <1>1, <1>2, <1>7 DEF RequestStep, TurnAway, ReadCap, PlaceHold, DenyOverCap,
       HoldRaises, FailBeforeSend, Send, SendFails, Answer, Escape, ReleaseRaises,
       StartMetering, Metering, SettleHold, SettleRaises, EstimateHold, EstimateRaises,
       RefundRaises, RecordUncapped, RecordRaises, At, Goto, AnswerOK
  <2>5. QED
    BY <2>2, <2>3, <2>4 DEF AnswerOK
<1>8. CASE SweepOnce \/ (\E q \in Request : HoldGrowsOld(q)) \/ OperatorSetsCap \/ Restart
  BY <1>3, <1>8 DEF SweepOnce, Sweep, Bill, HoldGrowsOld, GrowOld, OperatorSetsCap,
     SetSpendCap, Restart, PruneOldSpendLog
<1>9. CASE Crash
  BY <1>1, <1>2, <1>9 DEF Crash, AnswerOK, ledgerVars
<1>10. QED
  BY <1>4, <1>3, <1>5, <1>6, <1>7, <1>8, <1>9 DEF Next

(* No error, retry or crash turns a successful answer into a free one. *)
THEOREM NeverRefundsServed == Spec => []ServedNotRefunded
<1>1. Init => AnswerInv
  BY DEF Init, LedgerInit, AnswerInv, AnswerOK
<1>2. ClientInv /\ AnswerInv /\ [Next]_vars => AnswerInv'
  <2>1. ASSUME ClientInv, AnswerInv, Next PROVE AnswerInv'
    BY <2>1, AnswerStep DEF AnswerInv
  <2>2. ASSUME AnswerInv, UNCHANGED vars PROVE AnswerInv'
    BY <2>2 DEF vars, ledgerVars, AnswerInv, AnswerOK
  <2>3. QED
    BY <2>1, <2>2
<1>3. ClientInv /\ AnswerInv => ServedNotRefunded
  BY DEF ClientInv, LedgerInv, LedgerTypeOK, AnswerInv, AnswerOK, ServedNotRefunded, Request
<1>4. QED
  BY <1>1, <1>2, <1>3, ClientInvInit, ClientInvStep, PTL DEF Spec

-----------------------------------------------------------------------------
(* Charges *)

Admitted(r) == pc[r] \notin {"new", "hold"}

FailClosed(r, tokens) == tokens >= GLOBAL_CEILING_TOKENS /\ tokens >= req[r].estimate

\* Either the request settled the row itself, and its answer is final, or the
\* row is fail-closed.
HonestRow(row) ==
    row.origin \in Request =>
        /\ Admitted(row.origin)
        /\ \/ pc[row.origin] = "done" /\ row.tokens = reply[row.origin].usage
           \/ FailClosed(row.origin, row.tokens)

\* A hold carries the estimate of the request that placed it.
OwnHold(row) == Admitted(row.handle) /\ row.estimate = req[row.handle].estimate

HonestInv ==
    /\ \A row \in pending : OwnHold(row)
    /\ \A row \in spend_log : HonestRow(row)

(* An admitted request keeps its estimate, and one that is done its answer. *)
LEMMA RequestFrame ==
    ASSUME ClientInv, Next, NEW r \in Request
    PROVE  /\ Admitted(r) => Admitted(r)' /\ req'[r] = req[r]
           /\ pc[r] = "done" => pc'[r] = "done" /\ reply'[r] = reply[r]
<1>1. /\ pc \in [Request -> Phase] /\ reply \in [Request -> Reply]
      /\ req \in [Request -> [alias : Alias, estimate : Estimate,
                              cap : CapValue \cup {NULL}]]
  BY DEF ClientInv, HandlerTypeOK
<1>2. ASSUME NEW q \in Request, RequestStep(q)
      PROVE  /\ pc[r] = "done" => pc'[r] = "done" /\ reply'[r] = reply[r]
             /\ Admitted(r) => req'[r] = req[r]
             /\ Admitted(r) => Admitted(r)'
  <2>1. CASE q # r
    BY <1>1, <1>2, <2>1 DEF RequestStep, TurnAway, ReadCap, PlaceHold, DenyOverCap,
       HoldRaises, FailBeforeSend, Send, SendFails, Answer, Escape, Release, ReleaseRaises,
       StartMetering, SettleHold, SettleRaises, EstimateHold, EstimateRaises, RefundHold,
       RefundRaises, RecordUncapped, RecordRaises, Goto, Admitted
  <2>2. CASE q = r
    BY <1>1, <1>2, <2>2 DEF RequestStep, TurnAway, ReadCap, PlaceHold, DenyOverCap,
       HoldRaises, FailBeforeSend, Send, SendFails, Answer, Escape, Release, ReleaseRaises,
       StartMetering, Metering, SettleHold, SettleRaises, EstimateHold, EstimateRaises,
       RefundHold, RefundRaises, RecordUncapped, RecordRaises, At, Goto, Admitted
  <2>3. QED
    BY <2>1, <2>2
<1>3. CASE SweepOnce \/ (\E q \in Request : HoldGrowsOld(q)) \/ OperatorSetsCap \/ Restart
  BY <1>3 DEF SweepOnce, HoldGrowsOld, OperatorSetsCap, Restart, Admitted
<1>4. CASE Crash
  BY <1>1, <1>4 DEF Crash, Admitted
<1>5. QED
  BY <1>2, <1>3, <1>4 DEF Next

(* Rows that were honest stay honest. *)
LEMMA OldRowsHonest ==
    ASSUME ClientInv, HonestInv, Next
    PROVE  /\ \A row \in pending : OwnHold(row)'
           /\ \A row \in spend_log : HonestRow(row)'
<1>1. pending \subseteq HoldRow
  BY DEF ClientInv, LedgerInv, LedgerTypeOK
<1>2. ASSUME NEW row \in pending PROVE OwnHold(row)'
  BY <1>1, RequestFrame DEF HonestInv, OwnHold, HoldRow, Request
<1>3. ASSUME NEW row \in spend_log PROVE HonestRow(row)'
  BY RequestFrame DEF HonestInv, HonestRow, FailClosed, Request
<1>4. QED
  BY <1>2, <1>3

(* A fail-closed bill, of one hold or of all stale ones, is honest. *)
LEMMA FailClosedBill ==
    ASSUME ClientInv, HonestInv, Next, NEW rows, rows \subseteq pending,
           Bill(rows, FailClosedCharges(rows))
    PROVE  HonestInv'
<1>1. \A row \in pending : OwnHold(row)'
  BY OldRowsHonest
<1>2. ASSUME NEW row \in spend_log', row \notin spend_log PROVE HonestRow(row)'
  <2>1. PICK hold \in rows : row = ChargeRow(hold, FailClosedCharges(rows)[hold])
    BY <1>2 DEF Bill
  <2>2. row.origin = hold.handle /\ row.tokens = FailClosedCharge(hold)
    BY <2>1 DEF ChargeRow, FailClosedCharges
  <2>3. hold \in HoldRow
    BY DEF ClientInv, LedgerInv, LedgerTypeOK
  <2>4. row.tokens >= GLOBAL_CEILING_TOKENS /\ row.tokens >= hold.estimate
    BY <2>2, <2>3, ChargeIsNat DEF ClientInv, LedgerInv
  <2>5. OwnHold(hold)'
    BY <1>1
  <2>6. hold.estimate = (req')[hold.handle].estimate /\ Admitted(hold.handle)'
    BY <2>5 DEF OwnHold
  <2>7. FailClosed(hold.handle, row.tokens)'
    BY <2>4, <2>6 DEF FailClosed
  <2>8. QED
    BY <2>2, <2>6, <2>7 DEF HonestRow
<1>3. pending' \subseteq pending
  BY DEF Bill
<1>4. QED
  BY <1>1, <1>2, <1>3, OldRowsHonest DEF HonestInv

LEMMA HonestStep ==
    ASSUME ClientInv, HonestInv, Next
    PROVE  HonestInv'
<1>1. ASSUME pending' \subseteq pending, spend_log' \subseteq spend_log
      PROVE  HonestInv'
  BY <1>1, OldRowsHonest DEF HonestInv
<1>2. pc \in [Request -> Phase] /\ Request = Handle
  BY DEF ClientInv, HandlerTypeOK, Request
<1>3. ASSUME NEW r \in Request, PlaceHold(r)
      PROVE  HonestInv'
  <2>1. PICK new : /\ new = [handle   |-> r, alias |-> req[r].alias,
                           estimate |-> req[r].estimate]
                   /\ pending' = pending \cup {new} /\ spend_log' = spend_log
    BY <1>3 DEF PlaceHold, Hold
  <2>2. OwnHold(new)'
    BY <1>2, <1>3, <2>1 DEF PlaceHold, Goto, OwnHold, Admitted
  <2>3. \A row \in pending' : OwnHold(row)'
    BY <2>1, <2>2, OldRowsHonest
  <2>4. \A row \in spend_log' : HonestRow(row)'
    BY <2>1, OldRowsHonest
  <2>5. QED
    BY <2>3, <2>4 DEF HonestInv
<1>4. ASSUME NEW r \in Request, SettleHold(r)
      PROVE  HonestInv'
  <2>1. Bill(Rows(r), [row \in Rows(r) |-> reply[r].usage])
    BY <1>4 DEF SettleHold, Settle
  <2>2. pc'[r] = "done" /\ reply' = reply
    BY <1>2, <1>4 DEF SettleHold, Goto
  <2>3. ASSUME NEW row \in spend_log', row \notin spend_log PROVE HonestRow(row)'
    <3>1. PICK hold \in Rows(r) : row = ChargeRow(hold, reply[r].usage)
      BY <2>1, <2>3 DEF Bill
    <3>2. row.origin = r /\ row.tokens = reply[r].usage
      BY <3>1 DEF ChargeRow, Rows
    <3>3. QED
      BY <2>2, <3>2 DEF HonestRow, Admitted
  <2>4. pending' \subseteq pending
    BY <2>1 DEF Bill
  <2>5. QED
    BY <2>3, <2>4, OldRowsHonest DEF HonestInv
<1>5. ASSUME NEW r \in Request, EstimateHold(r)
      PROVE  HonestInv'
  BY <1>5, FailClosedBill DEF EstimateHold, SettleAtEstimate, Rows
<1>6. CASE SweepOnce
  BY <1>6, FailClosedBill DEF SweepOnce, Sweep, StaleRows
<1>7. ASSUME NEW r \in Request, RecordUncapped(r)
      PROVE  HonestInv'
  <2>1. PICK o \in DirectRow : RecordSpend(o, req[r].alias,
                      IF reply[r].usage = NULL THEN 0 ELSE reply[r].usage)
    BY <1>7 DEF RecordUncapped
  <2>2. ASSUME NEW row \in spend_log', row \notin spend_log PROVE HonestRow(row)'
    BY <1>2, <2>1, <2>2 DEF RecordSpend, HonestRow
  <2>3. pending' = pending
    BY <2>1 DEF RecordSpend
  <2>4. QED
    BY <2>2, <2>3, OldRowsHonest DEF HonestInv
<1>8. ASSUME NEW r \in Request, RequestStep(r), ~PlaceHold(r), ~SettleHold(r),
             ~EstimateHold(r), ~RecordUncapped(r)
      PROVE  pending' \subseteq pending /\ spend_log' = spend_log
  BY <1>8 DEF RequestStep, TurnAway, ReadCap, DenyOverCap, HoldRaises, FailBeforeSend,
     Send, SendFails, Answer, Escape, Release, ReleaseRaises, StartMetering, SettleRaises,
     EstimateRaises, RefundHold, RefundRaises, RecordRaises, Fault, Refund, ledgerVars
<1>9. CASE (\E r \in Request : HoldGrowsOld(r)) \/ OperatorSetsCap \/ Restart \/ Crash
  <2>1. pending' = pending /\ spend_log' \subseteq spend_log
    BY <1>9 DEF HoldGrowsOld, GrowOld, OperatorSetsCap, SetSpendCap, Restart,
       PruneOldSpendLog, Crash, ledgerVars
  <2>2. QED
    BY <2>1, <1>1
<1>10. QED
  BY <1>1, <1>3, <1>4, <1>5, <1>6, <1>7, <1>8, <1>9 DEF Next

(* Whoever writes a charge, and after whatever failures, it is what the
   provider reported or no less than the ceiling and the estimate. *)
THEOREM ChargesAreHonest == Spec => []BilledHonestly
<1>1. Init => HonestInv
  BY DEF Init, LedgerInit, HonestInv
<1>2. ClientInv /\ HonestInv /\ [Next]_vars => HonestInv'
  <2>1. ASSUME ClientInv, HonestInv, Next PROVE HonestInv'
    BY <2>1, HonestStep
  <2>2. ASSUME HonestInv, UNCHANGED vars PROVE HonestInv'
    BY <2>2 DEF vars, ledgerVars, HonestInv, OwnHold, HonestRow, FailClosed, Admitted
  <2>3. QED
    BY <2>1, <2>2
<1>3. HonestInv => BilledHonestly
  BY DEF HonestInv, HonestRow, FailClosed, BilledHonestly
<1>4. QED
  BY <1>1, <1>2, <1>3, ClientInvInit, ClientInvStep, PTL DEF Spec

-----------------------------------------------------------------------------
(* Bills *)

\* Whoever has a hold got it for its cap at the gate; without a failing ledger call
\* there is no second attempt; metering went by the answer.
BilledOK(r) ==
    /\ r \in issued => Admitted(r) /\ Capped(r)
    /\ faults = 0 => pc[r] \notin {"estimate_again", "refund_again"}
    /\ pc[r] = "relay" => reply[r].kind # "waiting"
    /\ pc[r] = "estimate" => reply[r].usage = NULL /\ reply[r].kind \in {"stream", "body"}
    /\ pc[r] = "refund" => reply[r].usage = NULL
    /\ pc[r] = "record" => ~Capped(r)

BilledInv == \A r \in Request : BilledOK(r)

LEMMA BilledStep ==
    ASSUME ClientInv, BilledInv, Next, NEW r \in Request
    PROVE  BilledOK(r)'
<1>1. /\ pc \in [Request -> Phase] /\ reply \in [Request -> Reply]
      /\ req \in [Request -> [alias : Alias, estimate : Estimate,
                              cap : CapValue \cup {NULL}]]
      /\ faults \in Nat
  BY DEF ClientInv, HandlerTypeOK
<1>2. BilledOK(r) /\ ClientOK(r)
  BY DEF BilledInv, ClientInv
<1>3. faults' = 0 => faults = 0
  BY <1>1 DEF Next, RequestStep, TurnAway, ReadCap, PlaceHold, DenyOverCap, HoldRaises,
     FailBeforeSend, Send, SendFails, Answer, Escape, Release, ReleaseRaises, StartMetering,
     SettleHold, SettleRaises, EstimateHold, EstimateRaises, RefundHold, RefundRaises,
     RecordUncapped, RecordRaises, Fault, NoFault, SweepOnce, HoldGrowsOld, OperatorSetsCap,
     Crash, Restart
<1>4. ASSUME NEW q \in Request, RequestStep(q), q # r
      PROVE  /\ pc'[r] = pc[r] /\ reply'[r] = reply[r] /\ req'[r] = req[r]
             /\ r \in issued' => r \in issued
  BY <1>1, <1>4 DEF RequestStep, TurnAway, ReadCap, PlaceHold, DenyOverCap, HoldRaises,
     FailBeforeSend, Send, SendFails, Answer, Escape, Release, ReleaseRaises,
     StartMetering, SettleHold, SettleRaises, EstimateHold, EstimateRaises, RefundHold,
     RefundRaises, RecordUncapped, RecordRaises, Goto, Fault, Hold, Settle,
     SettleAtEstimate, Bill, Refund, RecordSpend, ledgerVars
<1>5. ASSUME pc'[r] = pc[r], reply'[r] = reply[r], req'[r] = req[r],
             r \in issued' => r \in issued
      PROVE  BilledOK(r)'
  BY <1>2, <1>3, <1>5 DEF BilledOK, Admitted, Capped
<1>6. CASE RequestStep(r) /\ ~PlaceHold(r) /\ ~ReadCap(r)
  <2>1. issued' = issued /\ req' = req
    BY <1>6 DEF RequestStep, TurnAway, DenyOverCap, HoldRaises, FailBeforeSend, Send,
       SendFails, Answer, Escape, Release, ReleaseRaises, StartMetering, SettleHold,
       SettleRaises, EstimateHold, EstimateRaises, RefundHold, RefundRaises,
       RecordUncapped, RecordRaises, Fault, Settle, SettleAtEstimate, Bill, Refund,
       RecordSpend, ledgerVars
  <2>2. r \in issued' => (Admitted(r) /\ Capped(r))'
    <3>1. Admitted(r) => Admitted(r)'
      BY RequestFrame
    <3>2. QED
      BY <1>2, <2>1, <3>1 DEF BilledOK, Capped
  <2>3. faults' = 0 => pc'[r] \notin {"estimate_again", "refund_again"}
    BY <1>1, <1>2, <1>6 DEF RequestStep, TurnAway, DenyOverCap, HoldRaises, FailBeforeSend,
       Send, SendFails, Answer, Escape, Release, ReleaseRaises, StartMetering, Metering,
       SettleHold, SettleRaises, EstimateHold, EstimateRaises, RefundHold, RefundRaises,
       RecordUncapped, RecordRaises, At, Goto, Fault, BilledOK
  <2>4. pc'[r] = "relay" => reply'[r].kind # "waiting"
    BY <1>1, <1>2, <1>6 DEF RequestStep, TurnAway, DenyOverCap, HoldRaises, FailBeforeSend,
       Send, SendFails, Answer, Escape, Release, ReleaseRaises, StartMetering, Metering,
       SettleHold, SettleRaises, EstimateHold, EstimateRaises, RefundHold, RefundRaises,
       RecordUncapped, RecordRaises, At, Goto
  <2>5. /\ pc'[r] = "estimate" => reply'[r].usage = NULL /\ reply'[r].kind \in {"stream", "body"}
        /\ pc'[r] = "refund" => reply'[r].usage = NULL
        /\ pc'[r] = "record" => ~Capped(r)'
    <3>1. CASE StartMetering(r)
      <4>1. reply[r].kind \in {"waiting", "stream", "body", "error"}
        BY <1>1 DEF Reply
      <4>2. reply[r].kind # "waiting" /\ reply' = reply /\ pc'[r] = Metering(r)
        BY <1>1, <1>2, <3>1 DEF StartMetering, At, Goto, BilledOK
      <4>3. QED
        BY <2>1, <4>1, <4>2 DEF Metering, Capped
    <3>2. CASE ~StartMetering(r)
      BY <1>1, <1>6, <3>2 DEF RequestStep, TurnAway, DenyOverCap, HoldRaises, FailBeforeSend,
         Send, SendFails, Answer, Escape, Release, ReleaseRaises, SettleHold, SettleRaises,
         EstimateHold, EstimateRaises, RefundHold, RefundRaises, RecordUncapped,
         RecordRaises, At, Goto
    <3>3. QED
      BY <3>1, <3>2
  <2>6. QED
    BY <2>2, <2>3, <2>4, <2>5 DEF BilledOK
<1>7. CASE PlaceHold(r)
  BY <1>1, <1>2, <1>7 DEF PlaceHold, At, Goto, ClientOK, BilledOK, Admitted, Capped
<1>8. CASE ReadCap(r)
  <2>1. pc[r] = "new" /\ pc'[r] \in {"gated", "hold"} /\ issued' = issued
    BY <1>1, <1>8 DEF ReadCap, At, Goto, ledgerVars
  <2>2. r \notin issued'
    BY <1>2, <2>1 DEF BilledOK, Admitted
  <2>3. QED
    BY <2>1, <2>2 DEF BilledOK
<1>9. CASE SweepOnce \/ (\E q \in Request : HoldGrowsOld(q)) \/ OperatorSetsCap \/ Restart
  BY <1>5, <1>9 DEF SweepOnce, Sweep, Bill, HoldGrowsOld, GrowOld, OperatorSetsCap,
     SetSpendCap, Restart, PruneOldSpendLog
<1>10. CASE Crash
  BY <1>1, <1>2, <1>10 DEF Crash, BilledOK, Admitted, Capped, ledgerVars
<1>11. QED
  BY <1>4, <1>5, <1>6, <1>7, <1>8, <1>9, <1>10 DEF Next

(* A hold on the table has written no charge yet, and its row is there. *)
LEMMA UnbilledHold ==
    ASSUME LedgerInv, NEW r \in Handle, r \in HeldHandles
    PROVE  Cost(r) = {} /\ charged[r] = 0 /\ Rows(r) # {} /\ r \notin refunded
<1>1. charged[r] = 0 /\ r \notin refunded
  BY DEF LedgerInv, ResolvedOnce
<1>2. ASSUME NEW row \in spend_log PROVE row.origin # r
  <2>1. row.nth \in Nat /\ row.nth < charged[row.origin]
    BY DEF LedgerInv, LedgerTypeOK, LogRow, RowsDistinct
  <2>2. QED
    BY <1>1, <2>1
<1>3. QED
  BY <1>1, <1>2 DEF Cost, HeldHandles, Rows

(* Billing one hold leaves its charge, alone, on the log. *)
LEMMA OneBill ==
    ASSUME LedgerInv, NEW r \in Handle, r \in HeldHandles, NEW tokens, Bill(Rows(r), tokens)
    PROVE  /\ r \notin HeldHandles' /\ charged'[r] = 1 /\ r \notin refunded'
           /\ Cost(r)' = {tokens[row] : row \in Rows(r)}
<1>1. Cost(r) = {} /\ charged[r] = 0 /\ Rows(r) # {} /\ r \notin refunded
  BY UnbilledHold
<1>2. \A row \in Rows(r) : row.handle = r
  BY DEF Rows
<1>3. r \notin HeldHandles'
  BY DEF Bill, HeldHandles, Rows
<1>4. charged'[r] = 1 /\ r \notin refunded'
  BY <1>1, <1>2 DEF Bill, Origin
<1>5. \A row \in spend_log : row.origin # r
  BY <1>1 DEF Cost
<1>6. {x \in spend_log' : x.origin = r} = {ChargeRow(row, tokens[row]) : row \in Rows(r)}
  <2>1. spend_log' = spend_log \cup {ChargeRow(row, tokens[row]) : row \in Rows(r)}
    BY DEF Bill
  <2>2. \A row \in Rows(r) : ChargeRow(row, tokens[row]).origin = r
    BY <1>2 DEF ChargeRow
  <2>3. QED
    BY <1>5, <2>1, <2>2
<1>7. Cost(r)' = {tokens[row] : row \in Rows(r)}
  <2>1. \A row \in Rows(r) : ChargeRow(row, tokens[row]).tokens = tokens[row]
    BY DEF ChargeRow
  <2>2. Cost(r)' = {x.tokens : x \in {ChargeRow(row, tokens[row]) : row \in Rows(r)}}
    BY <1>6 DEF Cost
  <2>3. QED
    BY <2>1, <2>2
<1>8. QED
  BY <1>3, <1>4, <1>7

(* A refund costs nothing. *)
LEMMA OneRefund ==
    ASSUME LedgerInv, NEW r \in Handle, r \in HeldHandles, Refund(r)
    PROVE  r \notin HeldHandles' /\ Cost(r)' = {}
<1>1. Cost(r)' = {}
  BY UnbilledHold DEF Refund, Cost
<1>2. QED
  BY <1>1 DEF Refund, HeldHandles, Rows

LEMMA AnsweredStep ==
    ASSUME ClientInv, AnswerInv, BilledInv, Next, NEW r \in Request,
           r \in HeldHandles, pc[r] # "done", pc'[r] = "done", faults' = 0
    PROVE  /\ r \notin HeldHandles'
           /\ IF reply'[r].usage # NULL
              THEN Cost(r)' = {reply'[r].usage}
              ELSE IF reply'[r].kind \in {"stream", "body"}
              THEN charged'[r] = 1 /\ r \notin refunded'
              ELSE Cost(r)' = {}
<1>1. /\ pc \in [Request -> Phase] /\ reply \in [Request -> Reply]
      /\ faults \in Nat /\ LedgerInv /\ r \in Handle
  BY DEF ClientInv, HandlerTypeOK, Request
<1>2. BilledOK(r) /\ ClientOK(r) /\ AnswerOK(r)
  BY DEF BilledInv, ClientInv, AnswerInv
<1>3. Admitted(r) /\ Capped(r)
  BY <1>1, <1>2 DEF BilledOK, LedgerInv, ResolvedOnce
<1>4. Release(r) \/ SettleHold(r) \/ EstimateHold(r) \/ RefundHold(r)
  <2>1. ASSUME NEW q \in Request, RequestStep(q), q # r
        PROVE  FALSE
    BY <1>1, <2>1 DEF RequestStep, TurnAway, ReadCap, PlaceHold, DenyOverCap, HoldRaises,
       FailBeforeSend, Send, SendFails, Answer, Escape, Release, ReleaseRaises,
       StartMetering, SettleHold, SettleRaises, EstimateHold, EstimateRaises, RefundHold,
       RefundRaises, RecordUncapped, RecordRaises, Goto
  <2>2. ~(SweepOnce \/ (\E q \in Request : HoldGrowsOld(q)) \/ OperatorSetsCap \/ Restart
          \/ Crash)
    BY <1>1 DEF SweepOnce, HoldGrowsOld, OperatorSetsCap, Restart, Crash
  <2>3. \E q \in Request : RequestStep(q)
    BY <2>2 DEF Next
  <2>4. ~(TurnAway(r) \/ ReadCap(r) \/ PlaceHold(r) \/ DenyOverCap(r) \/ HoldRaises(r))
    BY <1>3 DEF TurnAway, ReadCap, PlaceHold, DenyOverCap, HoldRaises, At, Admitted
  <2>5. ~(FailBeforeSend(r) \/ Send(r) \/ SendFails(r) \/ Answer(r) \/ Escape(r))
    BY <1>1 DEF FailBeforeSend, Send, SendFails, Answer, Escape, Goto
  <2>6. ~(ReleaseRaises(r) \/ SettleRaises(r) \/ EstimateRaises(r) \/ RefundRaises(r)
          \/ RecordRaises(r))
    BY <1>1 DEF ReleaseRaises, SettleRaises, EstimateRaises, RefundRaises, RecordRaises, Fault
  <2>7. ~StartMetering(r)
    BY <1>1, <1>3 DEF StartMetering, Metering, Goto
  <2>8. ~RecordUncapped(r)
    <3>1. SUFFICES ASSUME RecordUncapped(r) PROVE FALSE
      OBVIOUS
    <3>2. pc[r] = "record"
      BY <3>1 DEF RecordUncapped, At
    <3>3. QED
      BY <1>2, <1>3, <3>2 DEF BilledOK
  <2>9. RequestStep(r)
    BY <2>1, <2>3
  <2>10. QED
    BY <2>4, <2>5, <2>6, <2>7, <2>8, <2>9 DEF RequestStep
<1>5. CASE Release(r)
  <2>1. reply'[r] = NoReply /\ Refund(r)
    BY <1>2, <1>3, <1>5 DEF Release, At, AnswerOK
  <2>2. QED
    BY <1>1, <2>1, OneRefund DEF NoReply
<1>6. CASE SettleHold(r)
  <2>1. reply' = reply /\ reply[r].usage # NULL
        /\ Bill(Rows(r), [row \in Rows(r) |-> reply[r].usage])
    BY <1>2, <1>6 DEF SettleHold, Settle, At, ClientOK
  <2>2. r \notin HeldHandles'
        /\ Cost(r)' = {[x \in Rows(r) |-> reply[r].usage][row] : row \in Rows(r)}
    BY <1>1, <2>1, OneBill
  <2>3. Rows(r) # {}
    BY <1>1, UnbilledHold
  <2>4. QED
    BY <2>1, <2>2, <2>3
<1>7. CASE EstimateHold(r)
  <2>1. pc[r] = "estimate" /\ reply' = reply
    BY <1>1, <1>2, <1>7 DEF EstimateHold, At, NoFault, BilledOK
  <2>2. reply'[r].usage = NULL /\ reply'[r].kind \in {"stream", "body"}
    BY <1>2, <2>1 DEF BilledOK
  <2>3. QED
    BY <1>1, <1>7, <2>2, OneBill DEF EstimateHold, SettleAtEstimate
<1>8. CASE RefundHold(r)
  <2>1. pc[r] = "refund" /\ reply' = reply /\ Refund(r)
    BY <1>1, <1>2, <1>8 DEF RefundHold, At, NoFault, BilledOK
  <2>2. reply'[r].usage = NULL /\ reply'[r].kind = "error"
    BY <1>2, <2>1 DEF BilledOK, AnswerOK
  <2>3. QED
    BY <1>1, <2>1, <2>2, OneRefund
<1>9. QED
  BY <1>4, <1>5, <1>6, <1>7, <1>8

(* A capped request whose ledger calls all succeed pays what was reported, nothing
   if it was rejected or never answered, and once, fail-closed, for an answer whose
   usage could not be read, whatever the other requests, the operator, the sweeper
   and restarts do meanwhile. *)
THEOREM BillsFollowAnswers == Spec => BilledAsAnswered
<1>1. Init => AnswerInv /\ BilledInv
  BY DEF Init, LedgerInit, AnswerInv, AnswerOK, BilledInv, BilledOK
<1>2. ClientInv /\ AnswerInv /\ BilledInv /\ [Next]_vars => AnswerInv' /\ BilledInv'
  <2>1. ASSUME ClientInv, AnswerInv, BilledInv, Next PROVE AnswerInv' /\ BilledInv'
    BY <2>1, AnswerStep, BilledStep DEF AnswerInv, BilledInv
  <2>2. ASSUME AnswerInv, BilledInv, UNCHANGED vars PROVE AnswerInv' /\ BilledInv'
    BY <2>2 DEF vars, ledgerVars, AnswerInv, AnswerOK, BilledInv, BilledOK, Admitted, Capped
  <2>3. QED
    BY <2>1, <2>2
<1> DEFINE Answered ==
        \A r \in Request :
          (r \in HeldHandles /\ pc[r] # "done" /\ pc'[r] = "done" /\ faults' = 0) =>
              /\ r \notin HeldHandles'
              /\ IF reply'[r].usage # NULL
                 THEN Cost(r)' = {reply'[r].usage}
                 ELSE IF reply'[r].kind \in {"stream", "body"}
                 THEN charged'[r] = 1 /\ r \notin refunded'
                 ELSE Cost(r)' = {}
<1>3. ClientInv /\ AnswerInv /\ BilledInv /\ [Next]_vars => [Answered]_vars
  BY AnsweredStep
<1>4. QED
  BY <1>1, <1>2, <1>3, ClientInvInit, ClientInvStep, PTL DEF Spec, BilledAsAnswered

=============================================================================
