--------------------------- MODULE IPCSupervisor ---------------------------
(***************************************************************************)
(* The proxy's single connection to the sidecar (proxy/ipc_supervisor.py   *)
(* over ipc/client.py): concurrent open() and mac() calls share one        *)
(* client, reconnect it when it dies, retry once, and are drained by       *)
(* aclose().                                                               *)
(*                                                                         *)
(* A step runs from one await to the next; code inside _state_lock is one  *)
(* step, since what it changes comes before any await it makes.  Startup   *)
(* has connected the supervisor before the first request (connect() in     *)
(* _lifespan), so it starts READY.  The sidecar, external to this module,  *)
(* answers, refuses, stalls, restarts, or comes back with other caps.      *)
(***************************************************************************)
EXTENDS Naturals, FiniteSets

CONSTANTS
    Opener,             \* coroutines in open(): a second attempt on failure
    Macer,              \* coroutines in mac(): one attempt
    Conn,               \* connections that may exist at once (a bound)
    None,
    MaxConcurrency,     \* slots of the semaphore
    MaxTrouble          \* bound: timeouts, backend errors, sidecar restarts

ASSUME SupervisorAssumption ==
    /\ Opener \cap Macer = {}
    /\ None \notin Conn
    /\ Conn # {}
    /\ MaxConcurrency \in Nat \ {0}
    /\ MaxTrouble \in Nat

Task == Opener \cup Macer

VARIABLES
    state,          \* SupervisorState
    draining,
    client,         \* _client
    connect_done,   \* the _connect_done event
    slots,          \* free slots of _sem
    inflight,       \* _inflight; _inflight_zero is set iff it is 0
    pc,             \* where each call is
    attempt,        \* which attempt of open() it is in
    using,          \* the client acquire() yielded to it
    result,         \* how the current attempt ended
    closer,         \* where aclose() is
    \* the sidecar's side
    wire,           \* each connection: live, broken (peer gone) or closed
    caps,           \* caps each connection was opened with
    sidecar_caps,   \* what the running sidecar advertises
    trouble,        \* what went wrong with the sidecar so far ...
    restarts        \* ... of which restarts

supervisor == <<state, draining, client, connect_done>>
calls == <<slots, inflight, pc, attempt, using, result>>
far_end == <<wire, caps, sidecar_caps, trouble, restarts>>
vars == <<supervisor, calls, closer, far_end>>

TypeOK ==
    /\ state \in {"DISCONNECTED", "CONNECTING", "READY", "CLOSED"}
    /\ draining \in BOOLEAN
    /\ client \in Conn \cup {None}
    /\ connect_done \in BOOLEAN
    /\ slots \in 0..MaxConcurrency
    /\ inflight \in 0..MaxConcurrency
    /\ pc \in [Task -> {"acquire", "queue", "ensure", "claim", "wait", "connect",
                        "recheck", "op", "cleanup", "exit", "done"}]
    /\ attempt \in [Task -> {1, 2}]
    /\ using \in [Task -> Conn \cup {None}]
    /\ result \in [Task -> {"none", "ok", "backend", "transport",
                            "unavailable", "backpressure"}]
    /\ closer \in {"idle", "drain", "done"}
    /\ wire \in [Conn -> {"live", "broken", "closed"}]
    /\ caps \in [Conn -> {"first", "other"}]
    /\ sidecar_caps \in {"first", "other"}
    /\ trouble \in 0..MaxTrouble
    /\ restarts \in 0..trouble

Init ==
    /\ state = "READY"
    /\ draining = FALSE
    /\ client = CHOOSE c \in Conn : TRUE
    /\ connect_done = TRUE
    /\ slots = MaxConcurrency
    /\ inflight = 0
    /\ pc = [t \in Task |-> "acquire"]
    /\ attempt = [t \in Task |-> 1]
    /\ using = [t \in Task |-> None]
    /\ result = [t \in Task |-> "none"]
    /\ closer = "idle"
    /\ wire = [c \in Conn |-> IF c = client THEN "live" ELSE "closed"]
    /\ caps = [c \in Conn |-> "first"]
    /\ sidecar_caps = "first"
    /\ trouble = 0
    /\ restarts = 0

-----------------------------------------------------------------------------
At(t, label) == pc[t] = label
Goto(t, label) == pc' = [pc EXCEPT ![t] = label]
Ends(t, how) == result' = [result EXCEPT ![t] = how]

Shut == draining \/ state = "CLOSED"
Ready == state = "READY" /\ client # None

\* A client whose writer is gone: closed here, or nulled by a timeout.
Dead(c) == wire[c] = "closed"

Trouble ==
    /\ trouble < MaxTrouble
    /\ trouble' = trouble + 1
    /\ UNCHANGED restarts

-----------------------------------------------------------------------------
(* acquire() *)

\* Fast fail while draining; otherwise queue for a slot.
Acquire(t) ==
    /\ At(t, "acquire")
    /\ IF Shut THEN Goto(t, "done") /\ Ends(t, "unavailable")
               ELSE Goto(t, "queue") /\ UNCHANGED result
    /\ UNCHANGED <<supervisor, slots, inflight, attempt, using, closer, far_end>>

EnterSlot(t) ==
    /\ At(t, "queue")
    /\ slots > 0
    /\ slots' = slots - 1
    /\ inflight' = inflight + 1
    /\ Goto(t, "ensure")
    /\ UNCHANGED <<supervisor, attempt, using, result, closer, far_end>>

\* acquire_timeout_s passes without a slot: IPCBackpressure, not retried.
Backpressure(t) ==
    /\ At(t, "queue")
    /\ slots = 0
    /\ Goto(t, "done")
    /\ Ends(t, "backpressure")
    /\ UNCHANGED <<supervisor, slots, inflight, attempt, using, closer, far_end>>

\* _ensure_ready, first half: drop a dead client, hand out a ready one.
EnsureReady(t) ==
    /\ At(t, "ensure")
    /\ IF Shut
       THEN /\ Goto(t, "exit") /\ Ends(t, "unavailable")
            /\ UNCHANGED <<state, client, using>>
       ELSE IF Ready /\ Dead(client)
       THEN /\ Goto(t, "claim")
            /\ client' = None /\ state' = "DISCONNECTED"
            /\ UNCHANGED <<using, result>>
       ELSE IF Ready
       THEN /\ Goto(t, "op")
            /\ using' = [using EXCEPT ![t] = client]
            /\ UNCHANGED <<state, client, result>>
       ELSE /\ Goto(t, "claim")
            /\ UNCHANGED <<state, client, using, result>>
    /\ UNCHANGED <<draining, connect_done, slots, inflight, attempt, closer, far_end>>

\* Mutant: raising here skips the release of the slot.
RecheckOutsideTry(t) ==
    /\ At(t, "recheck")
    /\ IF Ready
       THEN Goto(t, "op") /\ using' = [using EXCEPT ![t] = client] /\ UNCHANGED result
       ELSE Goto(t, "done") /\ Ends(t, "unavailable") /\ UNCHANGED using
    /\ UNCHANGED <<supervisor, slots, inflight, attempt, closer, far_end>>

\* _ensure_ready, second half, after _reconnect_with_backoff.
Recheck(t) ==
    /\ At(t, "recheck")
    /\ IF Ready
       THEN Goto(t, "op") /\ using' = [using EXCEPT ![t] = client] /\ UNCHANGED result
       ELSE Goto(t, "exit") /\ Ends(t, "unavailable") /\ UNCHANGED using
    /\ UNCHANGED <<supervisor, slots, inflight, attempt, closer, far_end>>

-----------------------------------------------------------------------------
(* _reconnect_with_backoff() *)

\* Claim the connector role, or find that somebody has it.
Claim(t) ==
    /\ At(t, "claim")
    /\ \/ Ready /\ Goto(t, "recheck") /\ UNCHANGED <<state, connect_done, result>>
       \/ /\ ~Ready /\ Shut
          /\ Goto(t, "exit") /\ Ends(t, "unavailable")
          /\ UNCHANGED <<state, connect_done>>
       \/ /\ ~Ready /\ ~Shut /\ state = "CONNECTING"
          /\ Goto(t, "wait")
          /\ UNCHANGED <<state, connect_done, result>>
       \/ /\ ~Ready /\ ~Shut /\ state # "CONNECTING"
          /\ state' = "CONNECTING"
          /\ connect_done' = FALSE
          /\ Goto(t, "connect")
          /\ UNCHANGED result
    /\ UNCHANGED <<draining, client, slots, inflight, attempt, using, closer, far_end>>

\* Mutant: a waiter that only looks for success.
WaitForSuccess(t) ==
    /\ At(t, "wait")
    /\ connect_done
    /\ Ready
    /\ Goto(t, "connect")
    /\ UNCHANGED <<supervisor, slots, inflight, attempt, using, result, closer, far_end>>

\* _wait_for_connector.  A waiter that finds the supervisor ready returns,
\* and _reconnect_with_backoff goes on to the connect it did not claim.
WaitForConnector(t) ==
    /\ At(t, "wait")
    /\ connect_done
    /\ \/ Ready /\ Goto(t, "connect") /\ UNCHANGED result
       \/ /\ ~Ready
          /\ Shut \/ state # "CONNECTING"
          /\ Goto(t, "exit") /\ Ends(t, "unavailable")
    /\ UNCHANGED <<supervisor, slots, inflight, attempt, using, closer, far_end>>

\* drain_ceiling_s passes while some connector sleeps or connects.
WaitTimesOut(t) ==
    /\ At(t, "wait")
    /\ ~connect_done \/ state = "CONNECTING"
    /\ Goto(t, "exit")
    /\ Ends(t, "unavailable")
    /\ UNCHANGED <<supervisor, slots, inflight, attempt, using, closer, far_end>>

\* A connection nobody can reach any more may be numbered again.
Fresh == {c \in Conn : wire[c] = "closed" /\ c # client /\ \A t \in Task : using[t] # c}

\* Mutant: the caps of a reconnect are not compared with the first ones.
ConnectUnverified(t) ==
    /\ At(t, "connect")
    /\ ~Shut
    /\ \E c \in Fresh :
          /\ client' = c
          /\ wire' = [wire EXCEPT ![c] = "live"]
          /\ caps' = [caps EXCEPT ![c] = sidecar_caps]
    /\ state' = "READY"
    /\ connect_done' = TRUE
    /\ Goto(t, "recheck")
    /\ UNCHANGED <<draining, slots, inflight, attempt, using, result, closer,
                   sidecar_caps, trouble, restarts>>

\* After the backoff the sidecar accepts, with the caps seen first, and the
\* new client takes the place of whatever client there was.
ConnectSucceeds(t) ==
    /\ At(t, "connect")
    /\ sidecar_caps = "first"
    /\ Fresh # {}
    /\ LET c == CHOOSE c \in Fresh : TRUE
       IN  /\ caps' = [caps EXCEPT ![c] = sidecar_caps]
           /\ IF Shut
              THEN \* aclose() raced us: the fresh client is closed at once
                   /\ client' = None
                   /\ Goto(t, "exit") /\ Ends(t, "unavailable")
                   /\ UNCHANGED <<state, wire>>
              ELSE /\ client' = c
                   /\ wire' = [wire EXCEPT ![c] = "live"]
                   /\ state' = "READY"
                   /\ Goto(t, "recheck")
                   /\ UNCHANGED result
    /\ connect_done' = TRUE
    /\ UNCHANGED <<draining, slots, inflight, attempt, using, closer, sidecar_caps, trouble, restarts>>

\* Refused, no handshake, or other caps than the first: DISCONNECTED, the
\* connection is closed again.  A caps mismatch is never retried.
ConnectFails(t) ==
    /\ At(t, "connect")
    /\ sidecar_caps = "other" \/ trouble < MaxTrouble
    /\ trouble' = IF sidecar_caps = "other" THEN trouble ELSE trouble + 1
    /\ state' = "DISCONNECTED"
    /\ connect_done' = TRUE
    /\ Goto(t, "exit")
    /\ Ends(t, "unavailable")
    /\ UNCHANGED <<draining, client, slots, inflight, attempt, using, closer,
                   wire, caps, sidecar_caps, restarts>>

-----------------------------------------------------------------------------
(* The operation on the client, and the exit from acquire() *)

OpSucceeds(t) ==
    /\ At(t, "op")
    /\ wire[using[t]] = "live"
    /\ Goto(t, "exit")
    /\ Ends(t, "ok")
    /\ UNCHANGED <<supervisor, slots, inflight, attempt, using, closer, far_end>>

\* A dead or broken connection: IPCProtocolError.
OpBreaks(t) ==
    /\ At(t, "op")
    /\ wire[using[t]] # "live"
    /\ Goto(t, "cleanup")
    /\ Ends(t, "transport")
    /\ UNCHANGED <<supervisor, slots, inflight, attempt, using, closer, far_end>>

\* No reply in request_timeout_s: the client nulls its writer.
OpTimesOut(t) ==
    /\ At(t, "op")
    /\ wire[using[t]] = "live"
    /\ Trouble
    /\ wire' = [wire EXCEPT ![using[t]] = "closed"]
    /\ Goto(t, "cleanup")
    /\ Ends(t, "transport")
    /\ UNCHANGED <<supervisor, slots, inflight, attempt, using, closer, caps, sidecar_caps>>

\* The shard does not open: the sidecar answers BACKEND and hangs up.  That
\* is no transport failure, so the supervisor keeps the client.
OpRejected(t) ==
    /\ At(t, "op")
    /\ wire[using[t]] = "live"
    /\ Trouble
    /\ wire' = [wire EXCEPT ![using[t]] = "broken"]
    /\ Goto(t, "exit")
    /\ Ends(t, "backend")
    /\ UNCHANGED <<supervisor, slots, inflight, attempt, using, closer, caps, sidecar_caps>>

\* Mutant: the failed client is kept.
CleanupKeepsClient(t) ==
    /\ At(t, "cleanup")
    /\ Goto(t, "exit")
    /\ UNCHANGED <<supervisor, slots, inflight, attempt, using, result,
                   closer, far_end>>

\* A transport failure takes the supervisor's current client down.
Cleanup(t) ==
    /\ At(t, "cleanup")
    /\ IF state = "READY"
       THEN /\ state' = "DISCONNECTED"
            /\ client' = None
            /\ wire' = [c \in Conn |-> IF c = client THEN "closed" ELSE wire[c]]
       ELSE UNCHANGED <<state, client, wire>>
    /\ Goto(t, "exit")
    /\ UNCHANGED <<draining, connect_done, slots, inflight, attempt, using, result,
                   closer, caps, sidecar_caps, trouble, restarts>>

\* Release the slot; open() tries once more after a transport failure.
Exit(t) ==
    /\ At(t, "exit")
    /\ slots' = slots + 1
    /\ inflight' = inflight - 1
    /\ using' = [using EXCEPT ![t] = None]
    /\ IF result[t] = "transport" /\ t \in Opener /\ attempt[t] = 1
       THEN Goto(t, "acquire") /\ attempt' = [attempt EXCEPT ![t] = 2]
       ELSE Goto(t, "done") /\ UNCHANGED attempt
    /\ UNCHANGED <<supervisor, result, closer, far_end>>

-----------------------------------------------------------------------------
(* aclose() *)

StartDrain ==
    /\ closer = "idle"
    /\ draining' = TRUE
    /\ closer' = "drain"
    /\ UNCHANGED <<state, client, connect_done, calls, far_end>>

\* Mutant: the client is forgotten, not closed.
CloseForgetting ==
    /\ closer = "drain"
    /\ closer' = "done"
    /\ state' = "CLOSED"
    /\ client' = None
    /\ UNCHANGED <<draining, connect_done, calls, far_end>>

\* Every call has left, or drain_ceiling_s has passed: close anyway.
ForceClose ==
    /\ closer = "drain"
    /\ closer' = "done"
    /\ state' = "CLOSED"
    /\ client' = None
    /\ wire' = [c \in Conn |-> IF c = client THEN "closed" ELSE wire[c]]
    /\ UNCHANGED <<draining, connect_done, calls, caps, sidecar_caps, trouble, restarts>>

(* The sidecar restarts, possibly as another binary *)
SidecarRestarts ==
    /\ trouble < MaxTrouble
    /\ trouble' = trouble + 1
    /\ restarts' = restarts + 1
    /\ sidecar_caps' \in {"first", "other"}
    /\ wire' = [c \in Conn |-> IF wire[c] = "live" THEN "broken" ELSE wire[c]]
    /\ UNCHANGED <<supervisor, calls, closer, caps>>

Step(t) ==
    \/ Acquire(t) \/ EnterSlot(t) \/ Backpressure(t)
    \/ EnsureReady(t) \/ Recheck(t)
    \/ Claim(t) \/ WaitForConnector(t) \/ WaitTimesOut(t)
    \/ ConnectSucceeds(t) \/ ConnectFails(t)
    \/ OpSucceeds(t) \/ OpBreaks(t) \/ OpTimesOut(t) \/ OpRejected(t)
    \/ Cleanup(t) \/ Exit(t)

AllDone == (\A t \in Task : pc[t] = "done") /\ closer = "done" /\ UNCHANGED vars

Next ==
    \/ \E t \in Task : Step(t)
    \/ StartDrain
    \/ ForceClose
    \/ SidecarRestarts
    \/ AllDone

\* Every await a call makes is bounded (acquire, request and connect
\* timeouts), so each call keeps moving.  Nothing forces a shutdown.
Fairness == \A t \in Task : WF_vars(Step(t))

Spec == Init /\ [][Next]_vars /\ Fairness

-----------------------------------------------------------------------------
Holders == {t \in Task : pc[t] \in {"ensure", "claim", "wait", "connect", "recheck",
                                   "op", "cleanup", "exit"}}

(***************************************************************************)
(* No path out of acquire() keeps or returns a slot too many: the          *)
(* semaphore and the in-flight counter the drain waits for both count      *)
(* exactly the calls between entering and leaving, whatever they meet      *)
(* (reconnects, failed waits, a shutdown, a retry).                        *)
(***************************************************************************)
SlotsAccounted ==
    /\ inflight = Cardinality(Holders)
    /\ slots + inflight = MaxConcurrency

(***************************************************************************)
(* "a sidecar binary swap that shrinks caps is a downgrade": no call ever  *)
(* runs on, and the supervisor never keeps, a connection whose caps differ *)
(* from those of the first one, across any reconnects and restarts.        *)
(***************************************************************************)
CapsPinned ==
    /\ client # None => caps[client] = "first"
    /\ \A t \in Task : using[t] # None => caps[using[t]] = "first"

(***************************************************************************)
(* No call waits for ever: not for a slot, not for a connector that has    *)
(* already finished, not across a shutdown.                                *)
(***************************************************************************)
EveryCallEnds == \A t \in Task : <>(pc[t] = "done")

(***************************************************************************)
(* A drained shutdown leaves no socket behind: once aclose() is over and   *)
(* every call has ended, no connection to the sidecar is still open.       *)
(***************************************************************************)
NothingLeftOpen ==
    (closer = "done" /\ \A t \in Task : pc[t] = "done") =>
        \A c \in Conn : wire[c] = "closed"

(***************************************************************************)
(* open() retries so that its callers need not notice a sidecar restart:   *)
(* when all that happened is one restart of the same binary, and calls     *)
(* take turns on the connection, every open() that got a slot succeeds.    *)
(* (With calls side by side it is not so: a late failure on the old client *)
(* closes the new one.)                                                    *)
(***************************************************************************)
RestartSurvived ==
    (trouble <= 1 /\ trouble = restarts /\ sidecar_caps = "first" /\ ~draining) =>
        \A t \in Opener : pc[t] = "done" => result[t] \in {"ok", "backpressure"}

=============================================================================
