---------------------------- MODULE ProxyRequest ----------------------------
(***************************************************************************)
(* The life of proxied requests against the spend ledger (proxy/app.py):   *)
(* gate, decrypt, send, relay, and the background task that settles the    *)
(* hold after the response, with ledger calls that fail, exceptions that   *)
(* escape the handler, the sweeper, and crashes of the proxy.              *)
(*                                                                         *)
(* A request makes at most one hold, so a Handle names the request too.    *)
(* The in-memory token budget a request also reserves is TokenBudget's.    *)
(***************************************************************************)
EXTENDS SpendLedger

CONSTANTS
    MaxFaults,      \* bound: ledger calls that raise (a transient DB error)
    MaxCrashes,     \* bound: crashes of the proxy process
    MayOutlive      \* may a live request outlast sweep_max_age_seconds?

ASSUME RequestAssumption ==
    /\ Alias # {} /\ Estimate # {}
    /\ MaxFaults \in Nat
    /\ MaxCrashes \in Nat
    /\ MayOutlive \in BOOLEAN
    /\ {"waiting", "stream", "body", "error"} \cap {NULL} = {}

VARIABLES
    pc,             \* where each request is
    req,            \* its alias, estimate and the cap read for it
    reply,          \* how the provider answered, and the usage it reported
    up,             \* is the proxy process running?
    faults, crashes \* how many of each happened

vars == <<ledgerVars, pc, req, reply, up, faults, crashes>>

Request == Handle

Phase == {"new", "hold", "gated", "release", "sent", "relay",
          "settle", "estimate", "estimate_again", "refund", "refund_again",
          "record", "done", "lost"}

NoReply == [kind |-> "waiting", usage |-> NULL]
Reply == [kind : {"waiting", "stream", "body", "error"}, usage : Usage \cup {NULL}]

RequestTypeOK ==
    /\ LedgerTypeOK
    /\ pc \in [Request -> Phase]
    /\ req \in [Request -> [alias : Alias, estimate : Estimate,
                            cap : CapValue \cup {NULL}]]
    /\ reply \in [Request -> Reply]
    /\ up \in BOOLEAN
    /\ faults \in 0..MaxFaults
    /\ crashes \in 0..MaxCrashes

Init ==
    /\ LedgerInit
    /\ pc = [r \in Request |-> "new"]
    /\ req = [r \in Request |-> [alias    |-> CHOOSE a \in Alias : TRUE,
                                 estimate |-> CHOOSE e \in Estimate : TRUE,
                                 cap      |-> NULL]]
    /\ reply = [r \in Request |-> NoReply]
    /\ up = TRUE
    /\ faults = 0
    /\ crashes = 0

-----------------------------------------------------------------------------
Goto(r, phase) == pc' = [pc EXCEPT ![r] = phase]

At(r, phase) == up /\ pc[r] = phase

\* One more ledger call raises; its transaction rolled back.
Fault ==
    /\ faults < MaxFaults
    /\ faults' = faults + 1
    /\ UNCHANGED ledgerVars

NoFault == UNCHANGED faults

Capped(r) == req[r].cap # NULL

-----------------------------------------------------------------------------
(* The gate *)

\* Turned away before the spend cap is consulted: bad path, unknown alias,
\* an earlier rule's denial, an exception in the rules engine.
TurnAway(r) ==
    /\ At(r, "new")
    /\ Goto(r, "done")
    /\ NoFault
    /\ UNCHANGED <<ledgerVars, req, reply, up, crashes>>

\* SpendCapRule reads the cap in a statement of its own, before the hold.
ReadCap(r) ==
    /\ At(r, "new")
    /\ \E a \in Alias, e \in Estimate :
          /\ req' = [req EXCEPT ![r] = [alias |-> a, estimate |-> e,
                                        cap |-> spend_cap[a]]]
          /\ Goto(r, IF spend_cap[a] = NULL THEN "gated" ELSE "hold")
    /\ NoFault
    /\ UNCHANGED <<ledgerVars, reply, up, crashes>>

\* Mutant: off by one, the hold may pass the cap by a token.
PlaceHoldPastCap(r) ==
    /\ At(r, "hold")
    /\ Hold(r, req[r].alias, req[r].estimate, req[r].cap + 1)
    /\ Goto(r, "gated")
    /\ NoFault
    /\ UNCHANGED <<req, reply, up, crashes>>

PlaceHold(r) ==
    /\ At(r, "hold")
    /\ Hold(r, req[r].alias, req[r].estimate, req[r].cap)
    /\ Goto(r, "gated")
    /\ NoFault
    /\ UNCHANGED <<req, reply, up, crashes>>

\* The hold does not fit: 402, nothing written.
DenyOverCap(r) ==
    /\ At(r, "hold")
    /\ ~Fits(req[r].alias, req[r].estimate, req[r].cap)
    /\ Goto(r, "done")
    /\ NoFault
    /\ UNCHANGED <<ledgerVars, req, reply, up, crashes>>

\* A ledger error denies too: the rule fails closed.
HoldRaises(r) ==
    /\ At(r, "hold")
    /\ Fault
    /\ Goto(r, "done")
    /\ UNCHANGED <<req, reply, up, crashes>>

-----------------------------------------------------------------------------
(* Decrypt and send *)

\* No adapter, sidecar unavailable, shard does not open or reconstruct.
FailBeforeSend(r) ==
    /\ At(r, "gated")
    /\ Goto(r, "release")
    /\ NoFault
    /\ UNCHANGED <<ledgerVars, req, reply, up, crashes>>

Send(r) ==
    /\ At(r, "gated")
    /\ Goto(r, "sent")
    /\ NoFault
    /\ UNCHANGED <<ledgerVars, req, reply, up, crashes>>

\* httpx timeout, connect error or any other HTTPError: 504 or 502.
SendFails(r) ==
    /\ At(r, "sent")
    /\ Goto(r, "release")
    /\ NoFault
    /\ UNCHANGED <<ledgerVars, req, reply, up, crashes>>

\* The provider answers.  An error reply may report usage too.
Answer(r) ==
    /\ At(r, "sent")
    /\ \E kind \in {"stream", "body", "error"}, usage \in Usage \cup {NULL} :
          reply' = [reply EXCEPT ![r] = [kind |-> kind, usage |-> usage]]
    /\ Goto(r, "relay")
    /\ NoFault
    /\ UNCHANGED <<ledgerVars, req, up, crashes>>

\* An exception no handler catches (building or sending the request, reading
\* the body, the upstream breaking mid-stream): the hold is left behind and
\* the background task never runs.
Escape(r) ==
    /\ up
    /\ pc[r] \in {"gated", "sent", "relay"}
    /\ Goto(r, "lost")
    /\ NoFault
    /\ UNCHANGED <<ledgerVars, req, reply, up, crashes>>

\* The failure exits refund the hold through one seam.
Release(r) ==
    /\ At(r, "release")
    /\ IF Capped(r) THEN Refund(r) ELSE UNCHANGED ledgerVars
    /\ Goto(r, "done")
    /\ NoFault
    /\ UNCHANGED <<req, reply, up, crashes>>

ReleaseRaises(r) ==
    /\ At(r, "release")
    /\ Capped(r)
    /\ Fault
    /\ Goto(r, "done")
    /\ UNCHANGED <<req, reply, up, crashes>>

-----------------------------------------------------------------------------
(* The background task *)

\* Mutant: no usage, no charge.
MeteringLenient(r) ==
    IF Capped(r)
    THEN IF reply[r].usage # NULL THEN "settle" ELSE "refund"
    ELSE "record"

\* Mutant: rejected requests are billed too.
MeteringStrict(r) ==
    IF Capped(r)
    THEN IF reply[r].usage # NULL THEN "settle" ELSE "estimate"
    ELSE "record"

\* What is done with the hold follows from the answer alone.
Metering(r) ==
    IF Capped(r)
    THEN IF reply[r].usage # NULL THEN "settle"
         ELSE IF reply[r].kind = "error" THEN "refund" ELSE "estimate"
    ELSE IF reply[r].usage # NULL \/ reply[r].kind = "error" THEN "record"
         ELSE "done"

\* The response (or the stream) has ended, by whichever side.
StartMetering(r) ==
    /\ At(r, "relay")
    /\ Goto(r, Metering(r))
    /\ NoFault
    /\ UNCHANGED <<ledgerVars, req, reply, up, crashes>>

SettleHold(r) ==
    /\ At(r, "settle")
    /\ Settle(r, reply[r].usage)
    /\ Goto(r, "done")
    /\ NoFault
    /\ UNCHANGED <<req, reply, up, crashes>>

SettleRaises(r) ==
    /\ At(r, "settle")
    /\ Fault
    /\ Goto(r, "estimate_again")
    /\ UNCHANGED <<req, reply, up, crashes>>

EstimateHold(r) ==
    /\ At(r, "estimate") \/ At(r, "estimate_again")
    /\ SettleAtEstimate(r)
    /\ Goto(r, "done")
    /\ NoFault
    /\ UNCHANGED <<req, reply, up, crashes>>

\* Only the streaming path tries a first settle_at_estimate again.
EstimateRaises(r) ==
    /\ At(r, "estimate") \/ At(r, "estimate_again")
    /\ Fault
    /\ Goto(r, IF pc[r] = "estimate" /\ reply[r].kind = "stream"
               THEN "estimate_again" ELSE "done")
    /\ UNCHANGED <<req, reply, up, crashes>>

RefundHold(r) ==
    /\ At(r, "refund") \/ At(r, "refund_again")
    /\ Refund(r)
    /\ Goto(r, "done")
    /\ NoFault
    /\ UNCHANGED <<req, reply, up, crashes>>

\* A failed refund is retried once, never billed by the request itself.
RefundRaises(r) ==
    /\ At(r, "refund") \/ At(r, "refund_again")
    /\ Fault
    /\ Goto(r, IF pc[r] = "refund" THEN "refund_again" ELSE "done")
    /\ UNCHANGED <<req, reply, up, crashes>>

\* Uncapped: usage (0 for a rejected request without any) goes to the log
\* over a connection of its own; an error there is only logged.
RecordUncapped(r) ==
    /\ At(r, "record")
    /\ \E o \in DirectRow :
          RecordSpend(o, req[r].alias,
                      IF reply[r].usage = NULL THEN 0 ELSE reply[r].usage)
    /\ Goto(r, "done")
    /\ NoFault
    /\ UNCHANGED <<req, reply, up, crashes>>

RecordRaises(r) ==
    /\ At(r, "record")
    /\ Fault
    /\ Goto(r, "done")
    /\ UNCHANGED <<req, reply, up, crashes>>

RequestStep(r) ==
    \/ TurnAway(r) \/ ReadCap(r) \/ PlaceHold(r) \/ DenyOverCap(r) \/ HoldRaises(r)
    \/ FailBeforeSend(r) \/ Send(r) \/ SendFails(r) \/ Answer(r) \/ Escape(r)
    \/ Release(r) \/ ReleaseRaises(r)
    \/ StartMetering(r) \/ SettleHold(r) \/ SettleRaises(r)
    \/ EstimateHold(r) \/ EstimateRaises(r)
    \/ RefundHold(r) \/ RefundRaises(r)
    \/ RecordUncapped(r) \/ RecordRaises(r)

-----------------------------------------------------------------------------
(* The sweeper, the clock, the operator and crashes *)

SweepOnce ==
    /\ up
    /\ StaleRows # {}
    /\ Sweep
    /\ UNCHANGED <<pc, req, reply, up, faults, crashes>>

\* A stream may last max_stream_duration_seconds (900), sweep_max_age_seconds
\* is 300: a hold can grow old while its request is alive.
HoldGrowsOld(r) ==
    /\ MayOutlive \/ pc[r] \in {"done", "lost"}
    /\ GrowOld(r)
    /\ UNCHANGED <<pc, req, reply, up, faults, crashes>>

OperatorSetsCap ==
    /\ \E a \in Alias, cap \in CapValue \cup {NULL} : SetSpendCap(a, cap)
    /\ UNCHANGED <<pc, req, reply, up, faults, crashes>>

\* The process dies: whatever was in flight is gone, the tables stay.
Crash ==
    /\ up
    /\ crashes < MaxCrashes
    /\ crashes' = crashes + 1
    /\ up' = FALSE
    /\ pc' = [r \in Request |-> IF pc[r] \in {"new", "done"} THEN pc[r]
                            ELSE "lost"]
    /\ UNCHANGED <<ledgerVars, req, reply, faults>>

\* Startup migrates the database, which prunes old log rows.
Restart ==
    /\ ~up
    /\ up' = TRUE
    /\ \E old \in SUBSET spend_log : PruneOldSpendLog(old)
    /\ UNCHANGED <<pc, req, reply, faults, crashes>>

Next ==
    \/ \E r \in Request : RequestStep(r)
    \/ SweepOnce
    \/ \E r \in Request : HoldGrowsOld(r)
    \/ OperatorSetsCap
    \/ Crash
    \/ Restart

Fairness ==
    /\ \A r \in Request : WF_vars(HoldGrowsOld(r))  \* time passes
    /\ WF_vars(SweepOnce)                           \* _sweep_loop never ends
    /\ WF_vars(Restart)                             \* the service is restarted

Spec == Init /\ [][Next]_vars /\ Fairness

-----------------------------------------------------------------------------
(***************************************************************************)
(* Whatever the handlers, their retries and the sweeper do to a hold, in   *)
(* any order and across crashes, they do as clients of the ledger: no      *)
(* handle is reused, no hold is placed against a cap nobody configured or  *)
(* beyond the room under it.  HoldsResolvedOnce (SpendLedgerProofs) then   *)
(* holds of every proxied request.                                         *)
(***************************************************************************)
LegalClient == LedgerSpec

(***************************************************************************)
(* A request the provider served is never refunded: no error, retry or     *)
(* crash turns a successful answer into a free one.                        *)
(***************************************************************************)
ServedNotRefunded ==
    \A r \in refunded : reply[r].kind \notin {"stream", "body"}

(***************************************************************************)
(* Fail-closed billing: a charge is either exactly what the provider       *)
(* reported, or no less than the ceiling and the admission estimate,       *)
(* whoever wrote it (the request, its fallback, the sweeper after a crash). *)
(***************************************************************************)
BilledHonestly ==
    \A row \in spend_log : row.origin \in Request =>
        LET r == row.origin IN
        \/ row.tokens = reply[r].usage
        \/ /\ row.tokens >= GLOBAL_CEILING_TOKENS
           /\ row.tokens >= req[r].estimate

(***************************************************************************)
(* No hold blocks the cap for ever: even if its request hangs, and with    *)
(* ledger errors, escaping exceptions and crashes, each one is eventually  *)
(* settled, refunded or swept.                                             *)
(***************************************************************************)
HoldsResolve ==
    \A r \in Request : r \in HeldHandles ~> r \notin HeldHandles

\* What request r has put on the log.
Cost(r) == {row.tokens : row \in {x \in spend_log : x.origin = r}}

(***************************************************************************)
(* What the handlers promise of a capped request whose hold is still there *)
(* when it ends, no ledger call having raised: reported usage is billed as *)
(* reported, a rejected request (and one that failed before an answer)     *)
(* costs nothing, an unreadable success is billed once, fail-closed.  What *)
(* the sweeper bills is the subject of BilledHonestly.                     *)
(***************************************************************************)
BilledAsAnswered ==
    [][\A r \in Request :
          (r \in HeldHandles /\ pc[r] # "done" /\ pc'[r] = "done" /\ faults' = 0) =>
              /\ r \notin HeldHandles'
              /\ IF reply'[r].usage # NULL
                 THEN Cost(r)' = {reply'[r].usage}
                 ELSE IF reply'[r].kind \in {"stream", "body"}
                 THEN charged'[r] = 1 /\ r \notin refunded'
                 ELSE Cost(r)' = {}]_vars

=============================================================================
