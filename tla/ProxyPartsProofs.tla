-------------------------- MODULE ProxyPartsProofs --------------------------
(***************************************************************************)
(* The parts around a request.                                             *)
(* IPCSupervisor, for any number of calls, slots, connections and          *)
(* troubles: no path out of acquire() loses or duplicates a slot, and no   *)
(* call ever runs on a connection with other capabilities than the first   *)
(* one's.  For calls that take turns: a restart of the sidecar is hidden   *)
(* from open()'s callers, and aclose() leaves no connection behind.        *)
(* Session, for any number of sessions on one home: an `up` that ends by   *)
(* itself leaves nothing behind.                                           *)
(* TokenBudget, for any requests and budgets: what is reserved stands for  *)
(* requests under way.  Tripwire: a reload never takes a shard-A off it.   *)
(* RateLimit, for any clients, limits and clean-ups: no more than the      *)
(* limit in a second, and no refusal below it.  IPCChannel, for any        *)
(* requests on one stream: an answer is the answer to its own request.     *)
(***************************************************************************)
EXTENDS IPCSupervisor, Session, TokenBudget, RateLimit, Tripwire, IPCChannel,
        CountingTheorems, SequenceTheorems

USE SupervisorAssumption

\* Only finitely many calls hold a slot, however many there are: Cardinality
\* would say nothing otherwise.
SlotsInv == TypeOK /\ SlotsAccounted /\ IsFiniteSet(Holders)

Held == {"ensure", "claim", "wait", "connect", "recheck", "op", "cleanup", "exit"}

-----------------------------------------------------------------------------
LEMMA TypeStep ==
    ASSUME SlotsInv, [Next]_vars
    PROVE  TypeOK'
<1> USE DEF SlotsInv, TypeOK, supervisor, calls, far_end, At, Goto, Ends, Trouble
<1>1. ASSUME NEW t \in Task, EnterSlot(t) \/ Exit(t)
      PROVE  TypeOK'
  <2>1. CASE EnterSlot(t)
    <3>1. slots' \in 0..MaxConcurrency /\ inflight' \in 0..MaxConcurrency
      BY <2>1 DEF EnterSlot, SlotsAccounted
    <3>2. QED
      BY <2>1, <3>1 DEF EnterSlot
  <2>2. CASE Exit(t)
    <3>1. inflight # 0
      <4>1. t \in Holders
        BY <2>2 DEF Exit, Holders
      <4>2. QED
        BY <4>1, FS_EmptySet DEF SlotsAccounted
    <3>2. slots' \in 0..MaxConcurrency /\ inflight' \in 0..MaxConcurrency
      BY <2>2, <3>1 DEF Exit, SlotsAccounted
    <3>3. QED
      BY <2>2, <3>2 DEF Exit
  <2>3. QED
    BY <1>1, <2>1, <2>2
<1>2. ASSUME NEW t \in Task, Acquire(t) \/ Backpressure(t) \/ EnsureReady(t) \/ Recheck(t)
      PROVE  TypeOK'
  BY <1>2 DEF Acquire, Backpressure, EnsureReady, Recheck, Ready
<1>3. ASSUME NEW t \in Task, Claim(t) \/ WaitForConnector(t) \/ WaitTimesOut(t)
      PROVE  TypeOK'
  BY <1>3 DEF Claim, WaitForConnector, WaitTimesOut
<1>4. ASSUME NEW t \in Task, ConnectSucceeds(t)
      PROVE  TypeOK'
  <2>1. PICK c \in Fresh : /\ caps' = [caps EXCEPT ![c] = sidecar_caps]
                           /\ \/ client' = None /\ UNCHANGED <<state, wire>>
                              \/ /\ client' = c
                                 /\ wire' = [wire EXCEPT ![c] = "live"]
                                 /\ state' = "READY"
    BY <1>4 DEF ConnectSucceeds
  <2>2. pc' \in [Task -> Held \cup {"acquire", "queue", "done"}]
        /\ result' \in [Task -> {"none", "ok", "backend", "transport",
                                 "unavailable", "backpressure"}]
    BY <1>4 DEF ConnectSucceeds, Held
  <2>3. c \in Conn
    BY DEF Fresh
  <2>4. QED
    BY ZenonT(60), <1>4, <2>1, <2>2, <2>3 DEF ConnectSucceeds, Held
<1>5. ASSUME NEW t \in Task, ConnectFails(t)
      PROVE  TypeOK'
  BY <1>5 DEF ConnectFails
<1>6. ASSUME NEW t \in Task, OpSucceeds(t) \/ OpBreaks(t) \/ Cleanup(t)
      PROVE  TypeOK'
  BY <1>6 DEF OpSucceeds, OpBreaks, Cleanup
<1>7. ASSUME NEW t \in Task, OpTimesOut(t) \/ OpRejected(t)
      PROVE  TypeOK'
  BY <1>7 DEF OpTimesOut, OpRejected
<1>8. CASE StartDrain \/ ForceClose
  BY <1>8 DEF StartDrain, ForceClose
<1>9. CASE SidecarRestarts
  BY <1>9 DEF SidecarRestarts
<1>10. CASE AllDone \/ UNCHANGED vars
  BY <1>10 DEF AllDone, vars
<1>11. QED
  BY <1>1, <1>2, <1>3, <1>4, <1>5, <1>6, <1>7, <1>8, <1>9, <1>10 DEF Next, Step

(* Entering takes a slot and joins the holders, leaving gives it back; every
   other step keeps both. *)
LEMMA SlotsStep ==
    ASSUME SlotsInv, [Next]_vars
    PROVE  SlotsAccounted' /\ IsFiniteSet(Holders)'
<1>1. /\ pc \in [Task -> Held \cup {"acquire", "queue", "done"}]
      /\ slots \in Nat /\ inflight \in Nat /\ MaxConcurrency \in Nat
      /\ Holders = {t \in Task : pc[t] \in Held}
      /\ IsFiniteSet(Holders)
      /\ inflight = Cardinality(Holders) /\ slots + inflight = MaxConcurrency
  BY DEF SlotsInv, TypeOK, SlotsAccounted, Holders, Held
<1>2. ASSUME Holders' = Holders, slots' = slots, inflight' = inflight
      PROVE  SlotsAccounted' /\ IsFiniteSet(Holders)'
  BY <1>1, <1>2 DEF SlotsAccounted
<1>3. ASSUME NEW t \in Task, EnterSlot(t)
      PROVE  SlotsAccounted' /\ IsFiniteSet(Holders)'
  <2>1. t \notin Holders /\ Holders' = Holders \cup {t}
    BY <1>1, <1>3 DEF EnterSlot, At, Goto, Holders, Held
  <2>2. IsFiniteSet(Holders') /\ Cardinality(Holders') = Cardinality(Holders) + 1
    BY <1>1, <2>1, FS_AddElement
  <2>3. slots' = slots - 1 /\ inflight' = inflight + 1
    BY <1>3 DEF EnterSlot
  <2>4. QED
    BY <1>1, <2>2, <2>3 DEF SlotsAccounted
<1>4. ASSUME NEW t \in Task, Exit(t)
      PROVE  SlotsAccounted' /\ IsFiniteSet(Holders)'
  <2>1. t \in Holders /\ Holders' = Holders \ {t}
    BY <1>1, <1>4 DEF Exit, At, Goto, Holders, Held
  <2>2. IsFiniteSet(Holders') /\ Cardinality(Holders') = Cardinality(Holders) - 1
    BY <1>1, <2>1, FS_RemoveElement
  <2>3. slots' = slots + 1 /\ inflight' = inflight - 1
    BY <1>4 DEF Exit
  <2>4. QED
    BY <1>1, <2>2, <2>3 DEF SlotsAccounted
<1>5. ASSUME NEW t \in Task, Step(t), ~EnterSlot(t), ~Exit(t)
      PROVE  Holders' = Holders /\ slots' = slots /\ inflight' = inflight
  <2>1. slots' = slots /\ inflight' = inflight
    BY <1>5 DEF Step, Acquire, Backpressure, EnsureReady, Recheck, Claim, WaitForConnector,
       WaitTimesOut, ConnectSucceeds, ConnectFails, OpSucceeds, OpBreaks, OpTimesOut,
       OpRejected, Cleanup
  <2>2. PICK label : pc' = [pc EXCEPT ![t] = label] /\ (label \in Held <=> pc[t] \in Held)
    BY <1>5 DEF Step, Acquire, Backpressure, EnsureReady, Recheck, Claim, WaitForConnector,
       WaitTimesOut, ConnectSucceeds, ConnectFails, OpSucceeds, OpBreaks, OpTimesOut,
       OpRejected, Cleanup, At, Goto, Held
  <2>3. Holders' = Holders
    BY <1>1, <2>2 DEF Holders, Held
  <2>4. QED
    BY <2>1, <2>3
<1>6. CASE StartDrain \/ ForceClose \/ SidecarRestarts \/ AllDone \/ UNCHANGED vars
  <2>1. pc' = pc /\ slots' = slots /\ inflight' = inflight
    BY <1>6 DEF StartDrain, ForceClose, SidecarRestarts, AllDone, vars, calls
  <2>2. QED
    BY <1>2, <2>1 DEF Holders
<1>7. QED
  BY <1>2, <1>3, <1>4, <1>5, <1>6 DEF Next

LEMMA SlotsInit == Init => SlotsInv
<1> SUFFICES ASSUME Init PROVE SlotsInv
  OBVIOUS
<1>1. Holders = {}
  BY DEF Init, Holders
<1>2. TypeOK
  <2>1. client \in Conn
    BY DEF Init
  <2>2. slots \in 0..MaxConcurrency /\ inflight \in 0..MaxConcurrency
    BY DEF Init
  <2>3. trouble \in 0..MaxTrouble /\ restarts \in 0..trouble
    BY DEF Init
  <2>4. QED
    BY <2>1, <2>2, <2>3 DEF Init, TypeOK
<1>3. QED
  BY <1>1, <1>2, FS_EmptySet DEF Init, SlotsInv, SlotsAccounted

(* No path out of acquire() keeps or returns a slot too many. *)
THEOREM SlotsNeverLeak == Spec => [](TypeOK /\ SlotsAccounted)
<1>1. SlotsInv /\ [Next]_vars => SlotsInv'
  BY TypeStep, SlotsStep DEF SlotsInv
<1>2. SlotsInv => TypeOK /\ SlotsAccounted
  BY DEF SlotsInv
<1>3. QED
  BY SlotsInit, <1>1, <1>2, PTL DEF Spec

-----------------------------------------------------------------------------
(* Capabilities *)

LEMMA CapsStep ==
    ASSUME TypeOK, CapsPinned, [Next]_vars
    PROVE  CapsPinned'
<1>1. /\ using \in [Task -> Conn \cup {None}] /\ caps \in [Conn -> {"first", "other"}]
      /\ client \in Conn \cup {None} /\ None \notin Conn
  BY DEF TypeOK
<1>2. ASSUME caps' = caps, client' \in {client, None},
             \A t \in Task : using'[t] \in {using[t], client, None}
      PROVE  CapsPinned'
  BY <1>1, <1>2 DEF CapsPinned
<1>3. ASSUME NEW t \in Task, ConnectSucceeds(t)
      PROVE  CapsPinned'
  <2>1. PICK c \in Fresh : caps' = [caps EXCEPT ![c] = "first"] /\ client' \in {None, c}
    BY <1>3 DEF ConnectSucceeds
  <2>2. c \in Conn /\ \A u \in Task : using[u] # c
    BY DEF Fresh
  <2>3. using' = using
    BY <1>3 DEF ConnectSucceeds
  <2>4. ASSUME NEW u \in Task, using'[u] # None
        PROVE  caps'[using'[u]] = "first"
    BY <1>1, <2>1, <2>2, <2>3, <2>4 DEF CapsPinned
  <2>5. client' # None => caps'[client'] = "first"
    BY <1>1, <2>1, <2>2
  <2>6. QED
    BY <2>4, <2>5 DEF CapsPinned
<1>4. ASSUME NEW t \in Task, Step(t), ~ConnectSucceeds(t)
      PROVE  /\ caps' = caps /\ client' \in {client, None}
             /\ \A u \in Task : using'[u] \in {using[u], client, None}
  BY <1>1, <1>4 DEF Step, Acquire, EnterSlot, Backpressure, EnsureReady, Recheck, Claim,
     WaitForConnector, WaitTimesOut, ConnectFails, OpSucceeds, OpBreaks, OpTimesOut,
     OpRejected, Cleanup, Exit, supervisor, far_end
<1>5. CASE StartDrain \/ ForceClose \/ SidecarRestarts \/ AllDone \/ UNCHANGED vars
  <2>1. caps' = caps /\ client' \in {client, None} /\ using' = using
    BY <1>5 DEF StartDrain, ForceClose, SidecarRestarts, AllDone, vars, supervisor, calls,
       far_end
  <2>2. QED
    BY <2>1, <1>2
<1>6. QED
  BY <1>2, <1>3, <1>4, <1>5 DEF Next

(* No call runs on a connection whose capabilities differ from those of the
   first one, across any number of reconnects and restarts. *)
THEOREM CapsStayPinned == Spec => []CapsPinned
<1>1. Init => CapsPinned
  BY DEF Init, CapsPinned
<1>2. QED
  BY <1>1, CapsStep, SlotsNeverLeak, PTL DEF Spec

-----------------------------------------------------------------------------
(* Calls that take turns: a semaphore with one slot.  Then the one call     *)
(* between entering and leaving is the only one that touches the client,    *)
(* nobody ever waits for a connector, and there is one connection at most.  *)

\* One connection, of the client in use; whoever reconnects has dropped it.
OneClient ==
    /\ client # None => state = "READY"
    /\ \A c \in Conn : wire[c] # "closed" => c = client
    /\ \A t \in Task : pc[t] # "wait" /\ (pc[t] \in {"claim", "connect"} => client = None)
    /\ state = "CONNECTING" => draining \/ \E t \in Task : pc[t] = "connect"

\* aclose() stays closed, though a late connector resets the state.
ClosedForGood ==
    /\ closer # "idle" => draining
    /\ closer = "done" => client = None
    /\ state = "CLOSED" => draining

\* All that happened is at most one restart of the same binary.
OneRestart == trouble =< 1 /\ trouble = restarts /\ sidecar_caps = "first" /\ ~draining

\* The connection the restart broke has been replaced.
Replaced == trouble = 1 /\ \A c \in Conn : wire[c] # "broken"

\* The client a call uses is the supervisor's; whoever failed has it replaced.
CallWorks(t) ==
    /\ pc[t] \in {"recheck", "op"} => Ready /\ ~Dead(client)
    /\ pc[t] = "op" => using[t] = client
    /\ pc[t] = "cleanup" => trouble = 1 /\ state = "READY" /\ result[t] = "transport"
    /\ attempt[t] = 2 \/ (pc[t] = "exit" /\ result[t] = "transport") => Replaced

\* open() fails in its first attempt only.
OpenWorks(t) ==
    /\ pc[t] = "cleanup" => attempt[t] = 1
    /\ pc[t] = "exit" => result[t] = "ok" \/ (result[t] = "transport" /\ attempt[t] = 1)
    /\ pc[t] = "done" => result[t] \in {"ok", "backpressure"}

\* A call may meet the broken connection before its retry, and nobody after it.
RetryWorks ==
    /\ trouble = 0 => \A c \in Conn : wire[c] # "broken"
    /\ \A t \in Task : CallWorks(t)
    /\ \A t \in Opener : OpenWorks(t)

\* The inductive invariant.
SerialInv ==
    /\ SlotsInv
    /\ OneClient
    /\ ClosedForGood
    /\ restarts = 0 => sidecar_caps = "first"
    /\ OneRestart => RetryWorks

(* With one slot there is one holder. *)
LEMMA OneHolder ==
    ASSUME MaxConcurrency = 1, SlotsInv, NEW t \in Holders, NEW u \in Holders
    PROVE  t = u
<1> SUFFICES ASSUME t # u PROVE FALSE
  OBVIOUS
<1>1. IsFiniteSet(Holders) /\ Cardinality(Holders) =< 1
  BY DEF SlotsInv, TypeOK, SlotsAccounted
<1>2. /\ IsFiniteSet(Holders \ {t}) /\ Cardinality(Holders \ {t}) = Cardinality(Holders) - 1
  BY <1>1, FS_RemoveElement
<1>3. Cardinality(Holders) \in Nat /\ Cardinality(Holders \ {t}) \in Nat
  BY <1>1, <1>2, FS_CardinalityType
<1>4. Holders \ {t} = {}
  BY <1>1, <1>2, <1>3, FS_EmptySet
<1>5. QED
  BY <1>4

(* Closing is for good. *)
LEMMA ClosedForGoodStep ==
    ASSUME MaxConcurrency = 1, SerialInv, [Next]_vars
    PROVE  (ClosedForGood /\ (restarts = 0 => sidecar_caps = "first"))'
<1> USE DEF SerialInv, SlotsInv, TypeOK, supervisor, calls, far_end, At, Goto, Ends, Trouble, Shut, Ready,
       Dead, Holders, ClosedForGood, OneClient
<1>1. ASSUME NEW t \in Task, Acquire(t) PROVE (ClosedForGood /\ (restarts = 0 => sidecar_caps = "first"))'
  BY <1>1 DEF Acquire
<1>2. ASSUME NEW t \in Task, EnterSlot(t) PROVE (ClosedForGood /\ (restarts = 0 => sidecar_caps = "first"))'
  BY <1>2 DEF EnterSlot
<1>3. ASSUME NEW t \in Task, Backpressure(t) PROVE (ClosedForGood /\ (restarts = 0 => sidecar_caps = "first"))'
  BY <1>3 DEF Backpressure
<1>4. ASSUME NEW t \in Task, EnsureReady(t) PROVE (ClosedForGood /\ (restarts = 0 => sidecar_caps = "first"))'
  BY <1>4 DEF EnsureReady
<1>5. ASSUME NEW t \in Task, Recheck(t) PROVE (ClosedForGood /\ (restarts = 0 => sidecar_caps = "first"))'
  BY <1>5 DEF Recheck
<1>6. ASSUME NEW t \in Task, Claim(t) PROVE (ClosedForGood /\ (restarts = 0 => sidecar_caps = "first"))'
  BY <1>6 DEF Claim
<1>7. ASSUME NEW t \in Task, WaitForConnector(t) PROVE (ClosedForGood /\ (restarts = 0 => sidecar_caps = "first"))'
  BY <1>7 DEF WaitForConnector
<1>8. ASSUME NEW t \in Task, WaitTimesOut(t) PROVE (ClosedForGood /\ (restarts = 0 => sidecar_caps = "first"))'
  BY <1>8 DEF WaitTimesOut
<1>9. ASSUME NEW t \in Task, ConnectSucceeds(t) PROVE (ClosedForGood /\ (restarts = 0 => sidecar_caps = "first"))'
  BY <1>9 DEF ConnectSucceeds
<1>10. ASSUME NEW t \in Task, ConnectFails(t) PROVE (ClosedForGood /\ (restarts = 0 => sidecar_caps = "first"))'
  BY <1>10 DEF ConnectFails
<1>11. ASSUME NEW t \in Task, OpSucceeds(t) PROVE (ClosedForGood /\ (restarts = 0 => sidecar_caps = "first"))'
  BY <1>11 DEF OpSucceeds
<1>12. ASSUME NEW t \in Task, OpBreaks(t) PROVE (ClosedForGood /\ (restarts = 0 => sidecar_caps = "first"))'
  BY <1>12 DEF OpBreaks
<1>13. ASSUME NEW t \in Task, OpTimesOut(t) PROVE (ClosedForGood /\ (restarts = 0 => sidecar_caps = "first"))'
  BY <1>13 DEF OpTimesOut
<1>14. ASSUME NEW t \in Task, OpRejected(t) PROVE (ClosedForGood /\ (restarts = 0 => sidecar_caps = "first"))'
  BY <1>14 DEF OpRejected
<1>15. ASSUME NEW t \in Task, Cleanup(t) PROVE (ClosedForGood /\ (restarts = 0 => sidecar_caps = "first"))'
  BY <1>15 DEF Cleanup
<1>16. ASSUME NEW t \in Task, Exit(t) PROVE (ClosedForGood /\ (restarts = 0 => sidecar_caps = "first"))'
  BY <1>16 DEF Exit
<1>17. CASE StartDrain
  BY <1>17 DEF StartDrain
<1>18. CASE ForceClose
  BY <1>18 DEF ForceClose
<1>19. CASE SidecarRestarts
  BY <1>19 DEF SidecarRestarts
<1>20. CASE AllDone
  BY <1>20 DEF AllDone, vars
<1>21. CASE UNCHANGED vars
  BY <1>21 DEF vars
<1>22. QED
  BY <1>1, <1>2, <1>3, <1>4, <1>5, <1>6, <1>7, <1>8, <1>9, <1>10,
     <1>11, <1>12, <1>13, <1>14, <1>15, <1>16, <1>17, <1>18, <1>19, <1>20, <1>21 DEF Next, Step

(* Only the holder touches the client. *)
LEMMA OneClientStep ==
    ASSUME MaxConcurrency = 1, SerialInv, [Next]_vars
    PROVE  OneClient'
<1> USE DEF SerialInv, SlotsInv, TypeOK, supervisor, calls, far_end, At, Goto, Ends, Trouble, Shut, Ready,
       Dead, Holders, ClosedForGood, OneClient
<1>1. ASSUME NEW t \in Task, Acquire(t) PROVE OneClient'
  BY <1>1, OneHolder DEF Acquire
<1>2. ASSUME NEW t \in Task, EnterSlot(t) PROVE OneClient'
  BY <1>2, OneHolder DEF EnterSlot
<1>3. ASSUME NEW t \in Task, Backpressure(t) PROVE OneClient'
  BY <1>3, OneHolder DEF Backpressure
<1>4. ASSUME NEW t \in Task, EnsureReady(t) PROVE OneClient'
  BY <1>4, OneHolder DEF EnsureReady
<1>5. ASSUME NEW t \in Task, Recheck(t) PROVE OneClient'
  BY <1>5, OneHolder DEF Recheck
<1>6. ASSUME NEW t \in Task, Claim(t) PROVE OneClient'
  BY <1>6, OneHolder DEF Claim
<1>7. ASSUME NEW t \in Task, WaitForConnector(t) PROVE OneClient'
  BY <1>7, OneHolder DEF WaitForConnector
<1>8. ASSUME NEW t \in Task, WaitTimesOut(t) PROVE OneClient'
  BY <1>8, OneHolder DEF WaitTimesOut
<1>9. ASSUME NEW t \in Task, ConnectSucceeds(t) PROVE OneClient'
  <2>1. PICK c \in Fresh : IF Shut THEN client' = None /\ UNCHANGED <<state, wire>>
                                  /\ pc' = [pc EXCEPT ![t] = "exit"]
                                  ELSE client' = c /\ wire' = [wire EXCEPT ![c] = "live"] /\ state' = "READY"
                                       /\ pc' = [pc EXCEPT ![t] = "recheck"] /\ result' = result
    BY <1>9 DEF ConnectSucceeds
  <2>2. c \in Conn /\ wire[c] = "closed"
    BY DEF Fresh
  <2>3. UNCHANGED <<draining, using, attempt, closer, trouble, restarts, sidecar_caps>>
        /\ pc[t] = "connect" /\ client = None
    BY <1>9 DEF ConnectSucceeds
  <2>4. \A u \in Task \ {t} : pc[u] \notin {"claim", "connect", "wait"}
    BY <2>3, OneHolder
  <2>5. CASE Shut
    BY <2>1, <2>3, <2>4, <2>5
  <2>6. CASE ~Shut
    <3>1. \A d \in Conn : wire'[d] # "closed" => d = client'
      BY <2>1, <2>2, <2>3, <2>6
    <3>2. state' = "READY" /\ client' \in Conn
      BY <2>1, <2>2, <2>6
    <3>3. \A u \in Task : pc'[u] \notin {"claim", "connect", "wait"}
      BY <2>1, <2>4, <2>6
    <3>4. QED
      BY <3>1, <3>2, <3>3
  <2>7. QED
    BY <2>5, <2>6
<1>10. ASSUME NEW t \in Task, ConnectFails(t) PROVE OneClient'
  BY <1>10, OneHolder DEF ConnectFails
<1>11. ASSUME NEW t \in Task, OpSucceeds(t) PROVE OneClient'
  BY <1>11, OneHolder DEF OpSucceeds
<1>12. ASSUME NEW t \in Task, OpBreaks(t) PROVE OneClient'
  BY <1>12, OneHolder DEF OpBreaks
<1>13. ASSUME NEW t \in Task, OpTimesOut(t) PROVE OneClient'
  BY <1>13, OneHolder DEF OpTimesOut
<1>14. ASSUME NEW t \in Task, OpRejected(t) PROVE OneClient'
  BY <1>14, OneHolder DEF OpRejected
<1>15. ASSUME NEW t \in Task, Cleanup(t) PROVE OneClient'
  BY <1>15, OneHolder DEF Cleanup
<1>16. ASSUME NEW t \in Task, Exit(t) PROVE OneClient'
  BY <1>16, OneHolder DEF Exit
<1>17. CASE StartDrain
  BY <1>17 DEF StartDrain
<1>18. CASE ForceClose
  BY <1>18 DEF ForceClose
<1>19. CASE SidecarRestarts
  BY <1>19 DEF SidecarRestarts
<1>20. CASE AllDone
  BY <1>20 DEF AllDone, vars
<1>21. CASE UNCHANGED vars
  BY <1>21 DEF vars
<1>22. QED
  BY <1>1, <1>2, <1>3, <1>4, <1>5, <1>6, <1>7, <1>8, <1>9, <1>10,
     <1>11, <1>12, <1>13, <1>14, <1>15, <1>16, <1>17, <1>18, <1>19, <1>20, <1>21 DEF Next, Step

(* What has happened before a step is no more than after it. *)
LEMMA OneRestartBefore ==
    ASSUME SerialInv, [Next]_vars, OneRestart'
    PROVE  OneRestart
<1> USE DEF OneRestart, SerialInv, SlotsInv, TypeOK
<1>1. ASSUME NEW t \in Task, Step(t) PROVE OneRestart
  BY <1>1 DEF Step, Acquire, EnterSlot, Backpressure, EnsureReady, Recheck, Claim, WaitForConnector,
     WaitTimesOut, ConnectSucceeds, ConnectFails, OpSucceeds, OpBreaks, OpTimesOut, OpRejected, Cleanup,
     Exit, Trouble, supervisor, far_end
<1>2. CASE StartDrain \/ ForceClose \/ SidecarRestarts \/ AllDone \/ UNCHANGED vars
  BY <1>2 DEF StartDrain, ForceClose, SidecarRestarts, AllDone, vars, supervisor, far_end
<1>3. QED
  BY <1>1, <1>2 DEF Next

(* A trouble that is no restart is noticed. *)
LEMMA TroubleShows ==
    ASSUME SlotsInv, OneRestart, trouble' = trouble + 1, restarts' = restarts
    PROVE  ~OneRestart'
BY DEF SlotsInv, TypeOK, OneRestart

(* After one restart every retry finds a connection that works. *)
LEMMA RetryWorksStep ==
    ASSUME MaxConcurrency = 1, SerialInv, [Next]_vars, OneRestart, OneRestart'
    PROVE  RetryWorks'
<1> USE DEF SerialInv, SlotsInv, TypeOK, supervisor, calls, far_end, At, Goto, Ends, Trouble, Shut, Ready,
       Dead, Holders, ClosedForGood, OneClient, OneRestart, RetryWorks, CallWorks, OpenWorks, Replaced
<1>1. ASSUME NEW t \in Task, Acquire(t) PROVE RetryWorks'
  <2>1. trouble' = 0 => \A c \in Conn : wire'[c] # "broken"
    BY <1>1 DEF Acquire
  <2>2. ASSUME NEW u \in Task PROVE CallWorks(u)'
    <3>1. CASE u = t
      BY <1>1, <3>1, OneHolder DEF Acquire
    <3>2. CASE u # t
      BY <1>1, <3>2, OneHolder DEF Acquire
    <3>3. QED
      BY <3>1, <3>2
  <2>3. ASSUME NEW u \in Opener PROVE OpenWorks(u)'
    <3>1. u \in Task
      BY DEF Task
    <3>2. CASE u = t
      BY <1>1, <3>2, OneHolder DEF Acquire
    <3>3. CASE u # t
      <4>1. pc'[u] = pc[u] /\ attempt'[u] = attempt[u] /\ result'[u] = result[u]
        BY <1>1, <3>1, <3>3 DEF Acquire
      <4>2. QED
        BY <4>1
    <3>4. QED
      BY <3>2, <3>3
  <2>4. QED
    BY <2>1, <2>2, <2>3
<1>2. ASSUME NEW t \in Task, EnterSlot(t) PROVE RetryWorks'
  BY <1>2, OneHolder DEF EnterSlot
<1>3. ASSUME NEW t \in Task, Backpressure(t) PROVE RetryWorks'
  BY <1>3, OneHolder DEF Backpressure
<1>4. ASSUME NEW t \in Task, EnsureReady(t) PROVE RetryWorks'
  <2>1. trouble' = 0 => \A c \in Conn : wire'[c] # "broken"
    BY <1>4 DEF EnsureReady
  <2>2. ASSUME NEW u \in Task PROVE CallWorks(u)'
    <3>1. CASE u = t
      BY <1>4, <3>1, OneHolder DEF EnsureReady
    <3>2. CASE u # t
      BY <1>4, <3>2, OneHolder DEF EnsureReady
    <3>3. QED
      BY <3>1, <3>2
  <2>3. ASSUME NEW u \in Opener PROVE OpenWorks(u)'
    <3>1. u \in Task
      BY DEF Task
    <3>2. CASE u = t
      BY <1>4, <3>2, OneHolder DEF EnsureReady
    <3>3. CASE u # t
      <4>1. pc'[u] = pc[u] /\ attempt'[u] = attempt[u] /\ result'[u] = result[u]
        BY <1>4, <3>1, <3>3 DEF EnsureReady
      <4>2. QED
        BY <4>1
    <3>4. QED
      BY <3>2, <3>3
  <2>4. QED
    BY <2>1, <2>2, <2>3
<1>5. ASSUME NEW t \in Task, Recheck(t) PROVE RetryWorks'
  <2>1. trouble' = 0 => \A c \in Conn : wire'[c] # "broken"
    BY <1>5 DEF Recheck
  <2>2. ASSUME NEW u \in Task PROVE CallWorks(u)'
    <3>1. CASE u = t
      BY <1>5, <3>1, OneHolder DEF Recheck
    <3>2. CASE u # t
      BY <1>5, <3>2, OneHolder DEF Recheck
    <3>3. QED
      BY <3>1, <3>2
  <2>3. ASSUME NEW u \in Opener PROVE OpenWorks(u)'
    <3>1. u \in Task
      BY DEF Task
    <3>2. CASE u = t
      BY <1>5, <3>2, OneHolder DEF Recheck
    <3>3. CASE u # t
      <4>1. pc'[u] = pc[u] /\ attempt'[u] = attempt[u] /\ result'[u] = result[u]
        BY <1>5, <3>1, <3>3 DEF Recheck
      <4>2. QED
        BY <4>1
    <3>4. QED
      BY <3>2, <3>3
  <2>4. QED
    BY <2>1, <2>2, <2>3
<1>6. ASSUME NEW t \in Task, Claim(t) PROVE RetryWorks'
  <2>1. trouble' = 0 => \A c \in Conn : wire'[c] # "broken"
    BY <1>6 DEF Claim
  <2>2. ASSUME NEW u \in Task PROVE CallWorks(u)'
    <3>1. CASE u = t
      BY <1>6, <3>1, OneHolder DEF Claim
    <3>2. CASE u # t
      BY <1>6, <3>2, OneHolder DEF Claim
    <3>3. QED
      BY <3>1, <3>2
  <2>3. ASSUME NEW u \in Opener PROVE OpenWorks(u)'
    <3>1. u \in Task
      BY DEF Task
    <3>2. CASE u = t
      BY <1>6, <3>2, OneHolder DEF Claim
    <3>3. CASE u # t
      <4>1. pc'[u] = pc[u] /\ attempt'[u] = attempt[u] /\ result'[u] = result[u]
        BY <1>6, <3>1, <3>3 DEF Claim
      <4>2. QED
        BY <4>1
    <3>4. QED
      BY <3>2, <3>3
  <2>4. QED
    BY <2>1, <2>2, <2>3
<1>7. ASSUME NEW t \in Task, WaitForConnector(t) PROVE RetryWorks'
  BY <1>7, OneHolder DEF WaitForConnector
<1>8. ASSUME NEW t \in Task, WaitTimesOut(t) PROVE RetryWorks'
  BY <1>8, OneHolder DEF WaitTimesOut
<1>9. ASSUME NEW t \in Task, ConnectSucceeds(t) PROVE RetryWorks'
  <2>1. PICK c \in Fresh : IF Shut THEN client' = None /\ UNCHANGED <<state, wire>>
                                  /\ pc' = [pc EXCEPT ![t] = "exit"]
                                  ELSE client' = c /\ wire' = [wire EXCEPT ![c] = "live"] /\ state' = "READY"
                                       /\ pc' = [pc EXCEPT ![t] = "recheck"] /\ result' = result
    BY <1>9 DEF ConnectSucceeds
  <2>2. c \in Conn /\ wire[c] = "closed"
    BY DEF Fresh
  <2>3. UNCHANGED <<draining, using, attempt, closer, trouble, restarts, sidecar_caps>>
        /\ pc[t] = "connect" /\ client = None
    BY <1>9 DEF ConnectSucceeds
  <2>4. ~Shut
    OBVIOUS
  <2>5. \A u \in Task \ {t} : pc[u] \notin {"recheck", "op", "cleanup", "exit"}
    BY <2>3, OneHolder
  <2>6. Ready' /\ ~Dead(client)' /\ \A d \in Conn : wire'[d] = "broken" => wire[d] = "broken"
    BY <2>1, <2>2, <2>4
  <2>7. \A u \in Task : (CallWorks(u) => CallWorks(u)')
    BY <2>1, <2>3, <2>4, <2>5, <2>6
  <2>8. \A u \in Opener : (OpenWorks(u) => OpenWorks(u)')
    <3> SUFFICES ASSUME NEW u \in Opener PROVE OpenWorks(u) => OpenWorks(u)'
      OBVIOUS
    <3>1. u \in Task /\ pc'[u] \in {pc[u], "recheck"} /\ result' = result /\ attempt' = attempt
      BY <2>1, <2>3, <2>4 DEF Task
    <3>2. QED
      BY <3>1
  <2>9. QED
    BY <2>3, <2>6, <2>7, <2>8
<1>10. ASSUME NEW t \in Task, ConnectFails(t) PROVE RetryWorks'
  <2>1. trouble' = trouble + 1 /\ restarts' = restarts
    BY <1>10 DEF ConnectFails
  <2>2. QED
    BY <2>1, TroubleShows
<1>11. ASSUME NEW t \in Task, OpSucceeds(t) PROVE RetryWorks'
  BY <1>11, OneHolder DEF OpSucceeds
<1>12. ASSUME NEW t \in Task, OpBreaks(t) PROVE RetryWorks'
  BY <1>12, OneHolder DEF OpBreaks
<1>13. ASSUME NEW t \in Task, OpTimesOut(t) PROVE RetryWorks'
  BY <1>13, OneHolder DEF OpTimesOut
<1>14. ASSUME NEW t \in Task, OpRejected(t) PROVE RetryWorks'
  <2>1. trouble' = trouble + 1 /\ restarts' = restarts
    BY <1>14 DEF OpRejected
  <2>2. QED
    BY <2>1, TroubleShows
<1>15. ASSUME NEW t \in Task, Cleanup(t) PROVE RetryWorks'
  BY <1>15, OneHolder DEF Cleanup
<1>16. ASSUME NEW t \in Task, Exit(t) PROVE RetryWorks'
  <2>1. trouble' = 0 => \A c \in Conn : wire'[c] # "broken"
    BY <1>16 DEF Exit
  <2>2. ASSUME NEW u \in Task PROVE CallWorks(u)'
    <3>1. CASE u = t
      BY <1>16, <3>1, OneHolder DEF Exit
    <3>2. CASE u # t
      BY <1>16, <3>2, OneHolder DEF Exit
    <3>3. QED
      BY <3>1, <3>2
  <2>3. ASSUME NEW u \in Opener PROVE OpenWorks(u)'
    <3>1. u \in Task
      BY DEF Task
    <3>2. CASE u = t
      BY <1>16, <3>2, OneHolder DEF Exit
    <3>3. CASE u # t
      <4>1. pc'[u] = pc[u] /\ attempt'[u] = attempt[u] /\ result'[u] = result[u]
        BY <1>16, <3>1, <3>3 DEF Exit
      <4>2. QED
        BY <4>1
    <3>4. QED
      BY <3>2, <3>3
  <2>4. QED
    BY <2>1, <2>2, <2>3
<1>17. CASE StartDrain
  BY <1>17 DEF StartDrain
<1>18. CASE ForceClose
  BY <1>18 DEF ForceClose
<1>19. CASE SidecarRestarts
  BY <1>19 DEF SidecarRestarts
<1>20. CASE AllDone
  BY <1>20 DEF AllDone, vars
<1>21. CASE UNCHANGED vars
  BY <1>21 DEF vars
<1>22. QED
  BY <1>1, <1>2, <1>3, <1>4, <1>5, <1>6, <1>7, <1>8, <1>9, <1>10,
     <1>11, <1>12, <1>13, <1>14, <1>15, <1>16, <1>17, <1>18, <1>19, <1>20, <1>21 DEF Next, Step

(* From the first client on, calls take turns. *)
LEMMA SerialInvInit == Init => SerialInv
<1> SUFFICES ASSUME Init PROVE SerialInv
  OBVIOUS
<1>1. client \in Conn /\ state = "READY" /\ (\A c \in Conn : wire[c] = IF c = client THEN "live" ELSE "closed")
  BY DEF Init
<1>2. \A t \in Task : pc[t] = "acquire" /\ attempt[t] = 1
  BY DEF Init
<1>3. OneClient /\ ClosedForGood
  BY <1>1, <1>2 DEF Init, OneClient, ClosedForGood
<1>4. RetryWorks
  <2>1. \A c \in Conn : wire[c] # "broken"
    BY <1>1
  <2>2. \A t \in Opener : t \in Task
    BY DEF Task
  <2>3. QED
    BY <1>2, <2>1, <2>2 DEF RetryWorks, CallWorks, OpenWorks
<1>5. QED
  BY <1>3, <1>4, SlotsInit DEF Init, SerialInv

(* open()'s retry hides a restart of the same sidecar from its callers, and  *)
(* aclose() leaves no connection behind, whatever happens before, during and *)
(* after it: for any number of calls, connections and restarts, as long as   *)
(* the semaphore lets one call through at a time.                            *)
THEOREM TurnsSurviveRestarts ==
    MaxConcurrency = 1 => (Spec => [](RestartSurvived /\ NothingLeftOpen))
<1> SUFFICES ASSUME MaxConcurrency = 1 PROVE Spec => [](RestartSurvived /\ NothingLeftOpen)
  OBVIOUS
<1>1. SerialInv /\ [Next]_vars => SerialInv'
  BY TypeStep, SlotsStep, ClosedForGoodStep, OneClientStep, OneRestartBefore, RetryWorksStep
     DEF SerialInv, SlotsInv
<1>2. SerialInv => RestartSurvived
  BY DEF SerialInv, OneRestart, RetryWorks, OpenWorks, RestartSurvived
<1>3. SerialInv => NothingLeftOpen
  BY DEF SerialInv, OneClient, ClosedForGood, NothingLeftOpen
<1>4. QED
  BY <1>1, <1>2, <1>3, SerialInvInit, PTL DEF Spec

(* NothingLeftOpen: a closed supervisor whose calls have ended has no *)
(* connection open.                                                   *)
THEOREM ClosedLeavesNothingOpen == MaxConcurrency = 1 => (Spec => []NothingLeftOpen)
BY TurnsSurviveRestarts, PTL

-----------------------------------------------------------------------------
(* The processes of a session (Session).  What `up` has started is known from where   *)
(* it is; an exception sends it through the cleanups that undo just that,   *)
(* and only an interrupt may skip one.                                      *)

USE SessionAssumption

BeforeLock == {"idle", "owns", "kill", "clean", "unlink stale", "rmtree",
               "pid file", "clean up", "unlink dead", "lock"}
BeforeSplit == BeforeLock \cup {"key", "wait for key", "split"}

\* Where the pid file may name the session's proxy.
PidWritten == {"health", "loop", "stop proxy", "unlink pid"}

\* Where it goes once interrupted.
Leaving == {"stop sidecar", "reap", "wipe", "unwind", "release"}

NoProxy(s) == proxy[s] \in {"none", "dead"}
NoSidecar(s) == sidecar[s] \in {"none", "dead", "crashed"}

\* A live `up` that was not interrupted has running what its place says.
UpRuns(s) ==
    /\ at[s] \notin PidWritten => pid_file # s
    /\ at[s] \notin {"write pid", "health", "loop", "stop proxy"} => NoProxy(s)
    /\ at[s] \in BeforeSplit => sidecar[s] = "none" /\ run[s] = {}
    /\ at[s] = "spawn" => sidecar[s] = "none"
    /\ at[s] \in {"wipe", "unwind", "release"} => NoSidecar(s)
    /\ at[s] = "release" => run[s] = {}

Live(s) ==
    /\ raised[s] = "interrupt" => at[s] \in Leaving
    /\ handler[s] # "default" => at[s] \notin BeforeLock
    /\ raised[s] # "interrupt" => UpRuns(s)

\* Nothing of a session that has ended by itself is left.
Clean(s) == NoProxy(s) /\ NoSidecar(s) /\ run[s] = {} /\ pid_file # s

UpOK(s) ==
    /\ up_lock = s => ~Gone(s) /\ at[s] \notin BeforeLock
    /\ ~Gone(s) => Live(s) /\ at[s] # "end"
    /\ over[s] \in {"ok", "failed"} => Clean(s)

\* The inductive invariant.
SessionInv == SessionTypeOK /\ \A s \in Session \ Wraps : UpOK(s)

(* No counter passes its bound. *)
LEMMA Counted ==
    ASSUME SessionInv, Accident \/ Signal \/ UNCHANGED <<signals, accidents>>
    PROVE  (signals \in 0..MaxSignals /\ accidents \in 0..MaxAccidents)'
<1>1. signals \in 0..MaxSignals /\ accidents \in 0..MaxAccidents
  BY DEF SessionInv, SessionTypeOK
<1>2. QED
  BY <1>1 DEF Accident, Signal

(* Every step keeps the types. *)
LEMMA SessionTypeStep ==
    ASSUME SessionInv, [SessionNext]_sessionVars
    PROVE  SessionTypeOK'
<1> USE DEF SessionInv, SessionTypeOK, files, Gone, Alive, To, Here, Only, End, Process, Points
<1>1. ASSUME NEW s \in Session, StartUp(s) PROVE SessionTypeOK'
  BY <1>1 DEF StartUp, counters
<1>2. ASSUME NEW s \in Session, OwnsPort(s) PROVE SessionTypeOK'
  BY <1>2 DEF OwnsPort, counters
<1>3. ASSUME NEW s \in Session, Reclaim(s) PROVE SessionTypeOK'
  BY ZenonT(60), <1>3 DEF Reclaim, counters
<1>4. ASSUME NEW s \in Session, ReclaimKill(s) PROVE SessionTypeOK'
  BY <1>4 DEF ReclaimKill, counters
<1>5. ASSUME NEW s \in Session, CleanupStep(s) PROVE SessionTypeOK'
  <2>1. CASE CleanupStalePid(s, "clean", "unlink stale", "pid file")
    <3>1. CASE Alive(pid_file)
      BY <2>1, <3>1 DEF CleanupStalePid, counters
    <3>2. CASE ~Alive(pid_file)
      BY <2>1, <3>2 DEF CleanupStalePid, counters
    <3>3. QED
      BY <3>1, <3>2
  <2>2. CASE UnlinkStale(s, "unlink stale", "pid file")
    BY <2>2 DEF UnlinkStale, counters
  <2>3. CASE CleanupStalePid(s, "clean up", "unlink dead", "lock")
    <3>1. CASE Alive(pid_file)
      BY <2>3, <3>1 DEF CleanupStalePid, counters
    <3>2. CASE ~Alive(pid_file)
      BY <2>3, <3>2 DEF CleanupStalePid, counters
    <3>3. QED
      BY <3>1, <3>2
  <2>4. CASE UnlinkStale(s, "unlink dead", "lock")
    BY <2>4 DEF UnlinkStale, counters
  <2>5. QED
    BY <1>5, <2>1, <2>2, <2>3, <2>4 DEF CleanupStep
<1>6. ASSUME NEW s \in Session, RemoveRuns(s) PROVE SessionTypeOK'
  BY <1>6 DEF RemoveRuns, counters
<1>7. ASSUME NEW s \in Session, CheckPidFile(s) PROVE SessionTypeOK'
  <2>1. UNCHANGED <<signals, accidents>>
    BY <1>7 DEF CheckPidFile, counters
  <2>2. (signals \in 0..MaxSignals /\ accidents \in 0..MaxAccidents)'
    BY <2>1, Counted
  <2>3. (at \in [Session -> Points])'
    <3>1. \/ at' = [at EXCEPT ![s] = "end"]
          \/ at' = [at EXCEPT ![s] = "lock"]
          \/ at' = [at EXCEPT ![s] = "clean up"]
      BY <1>7 DEF CheckPidFile
    <3>2. QED
      BY ZenonT(60), <3>1
  <2>4. (over \in [Session -> {"no", "ok", "failed", "interrupted", "killed"}])'
    <3>1. \/ over' = over
          \/ over' = [over EXCEPT ![s] = "failed"]
      BY <1>7 DEF CheckPidFile
    <3>2. QED
      BY <3>1
  <2>5. (/\ handler \in [Session -> {"default", "raise", "flag", "forward"}]
         /\ stopping \in [Session -> BOOLEAN]
         /\ raised \in [Session -> {"no", "error", "interrupt"}]
         /\ found \in [Session -> Session \cup {NoSession}]
         /\ proxy \in [Session -> {"none", "booting", "serving", "dead"}]
         /\ sidecar \in [Session -> {"none", "booting", "loaded", "ready", "draining", "dead", "crashed"}]
         /\ run \in [Session -> SUBSET ({"dir", "socket"} \cup Shares)]
         /\ pid_file \in Session \cup {NoSession} /\ up_lock \in Session \cup {NoSession}
         /\ down \in [at : {"idle", "kill", "unlink"}, pid : Session \cup {NoSession}])'
    BY <1>7 DEF CheckPidFile, counters
  <2>6. QED
    BY <2>2, <2>3, <2>4, <2>5
<1>8. ASSUME NEW s \in Session, TakeUpLock(s) PROVE SessionTypeOK'
  <2>1. UNCHANGED <<signals, accidents>>
    BY <1>8 DEF TakeUpLock, counters
  <2>2. (signals \in 0..MaxSignals /\ accidents \in 0..MaxAccidents)'
    BY <2>1, Counted
  <2>3. (at \in [Session -> Points])'
    <3>1. \/ at' = [at EXCEPT ![s] = "end"]
          \/ at' = [at EXCEPT ![s] = "key"]
      BY <1>8 DEF TakeUpLock
    <3>2. QED
      BY ZenonT(60), <3>1
  <2>4. (over \in [Session -> {"no", "ok", "failed", "interrupted", "killed"}])'
    <3>1. \/ over' = over
          \/ over' = [over EXCEPT ![s] = "failed"]
      BY <1>8 DEF TakeUpLock
    <3>2. QED
      BY <3>1
  <2>5. (handler \in [Session -> {"default", "raise", "flag", "forward"}])'
    <3>1. \/ handler' = handler
          \/ handler' = [handler EXCEPT ![s] = "raise"]
      BY <1>8 DEF TakeUpLock
    <3>2. QED
      BY <3>1
  <2>6. (/\ stopping \in [Session -> BOOLEAN]
         /\ raised \in [Session -> {"no", "error", "interrupt"}]
         /\ found \in [Session -> Session \cup {NoSession}]
         /\ proxy \in [Session -> {"none", "booting", "serving", "dead"}]
         /\ sidecar \in [Session -> {"none", "booting", "loaded", "ready", "draining", "dead", "crashed"}]
         /\ run \in [Session -> SUBSET ({"dir", "socket"} \cup Shares)]
         /\ pid_file \in Session \cup {NoSession} /\ up_lock \in Session \cup {NoSession}
         /\ down \in [at : {"idle", "kill", "unlink"}, pid : Session \cup {NoSession}])'
    BY ZenonT(60), <1>8 DEF TakeUpLock, counters
  <2>7. QED
    BY <2>2, <2>3, <2>4, <2>5, <2>6
<1>9. ASSUME NEW s \in Session, KeyOpens(s) PROVE SessionTypeOK'
  BY <1>9 DEF KeyOpens, counters
<1>10. ASSUME NEW s \in Session, KeyRefused(s) PROVE SessionTypeOK'
  <2>1. Accident
    BY <1>10 DEF KeyRefused
  <2>2. (signals \in 0..MaxSignals /\ accidents \in 0..MaxAccidents)'
    BY <2>1, Counted
  <2>3. QED
    BY <1>10, <2>2 DEF KeyRefused
<1>11. ASSUME NEW s \in Session, KeyFixed(s) PROVE SessionTypeOK'
  BY <1>11 DEF KeyFixed, counters
<1>12. ASSUME NEW s \in Session, WritePid(s) PROVE SessionTypeOK'
  BY <1>12 DEF WritePid, counters
<1>13. ASSUME NEW s \in Session, UnlinkPid(s) PROVE SessionTypeOK'
  BY <1>13 DEF UnlinkPid, counters
<1>14. ASSUME NEW s \in Session, Unwind(s) PROVE SessionTypeOK'
  BY <1>14 DEF Unwind, counters
<1>15. ASSUME NEW s \in Session, StartWrap(s) PROVE SessionTypeOK'
  BY <1>15 DEF StartWrap, counters
<1>16. ASSUME NEW s \in Session, Split(s) PROVE SessionTypeOK'
  BY <1>16 DEF Split, counters
<1>17. ASSUME NEW s \in Session, SplitFails(s) PROVE SessionTypeOK'
  <2>1. Accident
    BY <1>17 DEF SplitFails
  <2>2. (signals \in 0..MaxSignals /\ accidents \in 0..MaxAccidents)'
    BY <2>1, Counted
  <2>3. QED
    BY <1>17, <2>2 DEF SplitFails
<1>18. ASSUME NEW s \in Session, SpawnSidecar(s) PROVE SessionTypeOK'
  BY <1>18 DEF SpawnSidecar, counters
<1>19. ASSUME NEW s \in Session, SidecarReady(s) PROVE SessionTypeOK'
  BY <1>19 DEF SidecarReady, counters
<1>20. ASSUME NEW s \in Session, SidecarNotReady(s) PROVE SessionTypeOK'
  <2>1. Accident \/ UNCHANGED <<signals, accidents>>
    BY <1>20 DEF SidecarNotReady, counters
  <2>2. (signals \in 0..MaxSignals /\ accidents \in 0..MaxAccidents)'
    BY <2>1, Counted
  <2>3. QED
    BY <1>20, <2>2 DEF SidecarNotReady, counters
<1>21. ASSUME NEW s \in Session, PortFree(s) PROVE SessionTypeOK'
  BY <1>21 DEF PortFree, counters
<1>22. ASSUME NEW s \in Session, PortInUse(s) PROVE SessionTypeOK'
  BY <1>22 DEF PortInUse, counters
<1>23. ASSUME NEW s \in Session, SpawnProxy(s) PROVE SessionTypeOK'
  BY <1>23 DEF SpawnProxy, counters
<1>24. ASSUME NEW s \in Session, SpawnProxyFails(s) PROVE SessionTypeOK'
  <2>1. Accident
    BY <1>24 DEF SpawnProxyFails
  <2>2. (signals \in 0..MaxSignals /\ accidents \in 0..MaxAccidents)'
    BY <2>1, Counted
  <2>3. QED
    BY <1>24, <2>2 DEF SpawnProxyFails
<1>25. ASSUME NEW s \in Session, Healthy(s) PROVE SessionTypeOK'
  BY <1>25 DEF Healthy, counters
<1>26. ASSUME NEW s \in Session, Unhealthy(s) PROVE SessionTypeOK'
  BY <1>26 DEF Unhealthy, counters
<1>27. ASSUME NEW s \in Session, LeaveLoop(s) PROVE SessionTypeOK'
  BY <1>27 DEF LeaveLoop, counters
<1>28. ASSUME NEW s \in Session, StopProxy(s) PROVE SessionTypeOK'
  BY <1>28 DEF StopProxy, counters
<1>29. ASSUME NEW s \in Session, StopSidecar(s) PROVE SessionTypeOK'
  BY <1>29 DEF StopSidecar, counters
<1>30. ASSUME NEW s \in Session, Reap(s) PROVE SessionTypeOK'
  <2>1. Accident \/ UNCHANGED <<signals, accidents>>
    BY <1>30 DEF Reap, counters
  <2>2. (signals \in 0..MaxSignals /\ accidents \in 0..MaxAccidents)'
    BY <2>1, Counted
  <2>3. (at \in [Session -> Points])'
    BY <1>30 DEF Reap, counters
  <2>4. (sidecar \in [Session -> {"none", "booting", "loaded", "ready", "draining", "dead", "crashed"}])'
    BY <1>30 DEF Reap, counters
  <2>5. (/\ over \in [Session -> {"no", "ok", "failed", "interrupted", "killed"}]
         /\ handler \in [Session -> {"default", "raise", "flag", "forward"}]
         /\ stopping \in [Session -> BOOLEAN]
         /\ raised \in [Session -> {"no", "error", "interrupt"}]
         /\ found \in [Session -> Session \cup {NoSession}]
         /\ proxy \in [Session -> {"none", "booting", "serving", "dead"}]
         /\ run \in [Session -> SUBSET ({"dir", "socket"} \cup Shares)]
         /\ pid_file \in Session \cup {NoSession} /\ up_lock \in Session \cup {NoSession}
         /\ down \in [at : {"idle", "kill", "unlink"}, pid : Session \cup {NoSession}])'
    BY <1>30 DEF Reap, counters
  <2>6. QED
    BY <2>2, <2>3, <2>4, <2>5
<1>31. ASSUME NEW s \in Session, Wipe(s) PROVE SessionTypeOK'
  BY <1>31 DEF Wipe, counters
<1>32. ASSUME NEW s \in Session, Release(s) PROVE SessionTypeOK'
  <2>1. UNCHANGED <<signals, accidents>>
    BY <1>32 DEF Release, counters
  <2>2. (signals \in 0..MaxSignals /\ accidents \in 0..MaxAccidents)'
    BY <2>1, Counted
  <2>3. (at \in [Session -> Points])'
    BY <1>32 DEF Release, counters
  <2>4. (over \in [Session -> {"no", "ok", "failed", "interrupted", "killed"}])'
    <3>1. over' = [over EXCEPT ![s] = [no |-> "ok", error |-> "failed", interrupt |-> "interrupted"][raised[s]]]
         /\ raised[s] \in {"no", "error", "interrupt"}
      BY <1>32 DEF Release
    <3>2. [no |-> "ok", error |-> "failed", interrupt |-> "interrupted"][raised[s]]
          \in {"ok", "failed", "interrupted"}
      <4> HIDE DEF SessionInv, SessionTypeOK
      <4>1. CASE raised[s] = "no"
        BY <4>1
      <4>2. CASE raised[s] = "error"
        BY <4>2
      <4>3. CASE raised[s] = "interrupt"
        BY <4>3
      <4>4. QED
        BY <3>1, <4>1, <4>2, <4>3
    <3>3. PICK e
          \in {"ok", "failed", "interrupted"} : e = [no |-> "ok", error |-> "failed", interrupt |-> "interrupted"][raised[s]]
      BY <3>2
    <3>4. over' = [over EXCEPT ![s] = e]
      BY <3>1, <3>3
    <3>5. QED
      BY <3>4
  <2>5. (/\ handler \in [Session -> {"default", "raise", "flag", "forward"}]
         /\ stopping \in [Session -> BOOLEAN]
         /\ raised \in [Session -> {"no", "error", "interrupt"}]
         /\ found \in [Session -> Session \cup {NoSession}]
         /\ proxy \in [Session -> {"none", "booting", "serving", "dead"}]
         /\ sidecar \in [Session -> {"none", "booting", "loaded", "ready", "draining", "dead", "crashed"}]
         /\ run \in [Session -> SUBSET ({"dir", "socket"} \cup Shares)]
         /\ pid_file \in Session \cup {NoSession} /\ up_lock \in Session \cup {NoSession}
         /\ down \in [at : {"idle", "kill", "unlink"}, pid : Session \cup {NoSession}])'
    BY <1>32 DEF Release, counters
  <2>6. QED
    BY <2>2, <2>3, <2>4, <2>5
<1>33. ASSUME NEW s \in Session, Flag(s) PROVE SessionTypeOK'
  <2>1. Signal
    BY <1>33 DEF Flag
  <2>2. (signals \in 0..MaxSignals /\ accidents \in 0..MaxAccidents)'
    BY <2>1, Counted
  <2>3. QED
    BY <1>33, <2>2 DEF Flag
<1>34. ASSUME NEW s \in Session, Interrupt(s) PROVE SessionTypeOK'
  <2>1. Signal
    BY <1>34 DEF Interrupt
  <2>2. (signals \in 0..MaxSignals /\ accidents \in 0..MaxAccidents)'
    BY <2>1, Counted
  <2>3. (at \in [Session -> Points])'
    <3>1. \/ at' = [at EXCEPT ![s] = "unwind"]
          \/ at' = [at EXCEPT ![s] = "release"]
          \/ at' = [at EXCEPT ![s] = "stop sidecar"]
      BY <1>34 DEF Interrupt
    <3>2. QED
      BY ZenonT(60), <3>1
  <2>4. (raised \in [Session -> {"no", "error", "interrupt"}])'
    BY <1>34 DEF Interrupt
  <2>5. (sidecar \in [Session -> {"none", "booting", "loaded", "ready", "draining", "dead", "crashed"}])'
    <3>1. \/ sidecar' = sidecar
          \/ sidecar' = [sidecar EXCEPT ![s] = "dead"]
      BY <1>34 DEF Interrupt
    <3>2. QED
      BY <3>1
  <2>6. (run \in [Session -> SUBSET ({"dir", "socket"} \cup Shares)])'
    <3>1. \/ run' = run
          \/ run' = [run EXCEPT ![s] = run[s] \ {"socket"}]
      BY <1>34 DEF Interrupt
    <3>2. CASE run' = run
      BY <3>2 DEF Shares
    <3>3. CASE run' = [run EXCEPT ![s] = run[s] \ {"socket"}]
      BY <3>3 DEF Shares
    <3>4. QED
      BY <3>1, <3>2, <3>3
  <2>7. (/\ over \in [Session -> {"no", "ok", "failed", "interrupted", "killed"}]
         /\ handler \in [Session -> {"default", "raise", "flag", "forward"}]
         /\ stopping \in [Session -> BOOLEAN]
         /\ found \in [Session -> Session \cup {NoSession}]
         /\ proxy \in [Session -> {"none", "booting", "serving", "dead"}]
         /\ pid_file \in Session \cup {NoSession} /\ up_lock \in Session \cup {NoSession}
         /\ down \in [at : {"idle", "kill", "unlink"}, pid : Session \cup {NoSession}])'
    BY <1>34 DEF Interrupt
  <2>8. QED
    BY <2>2, <2>3, <2>4, <2>5, <2>6, <2>7
<1>35. ASSUME NEW s \in Session, InterruptWrap(s) PROVE SessionTypeOK'
  <2>1. Signal
    BY <1>35 DEF InterruptWrap
  <2>2. (signals \in 0..MaxSignals /\ accidents \in 0..MaxAccidents)'
    BY <2>1, Counted
  <2>3. QED
    BY <1>35, <2>2 DEF InterruptWrap
<1>36. ASSUME NEW s \in Session, Forward(s) PROVE SessionTypeOK'
  <2>1. Signal
    BY <1>36 DEF Forward
  <2>2. (signals \in 0..MaxSignals /\ accidents \in 0..MaxAccidents)'
    BY <2>1, Counted
  <2>3. QED
    BY <1>36, <2>2 DEF Forward
<1>37. ASSUME NEW s \in Session, Kill(s) PROVE SessionTypeOK'
  <2>1. Accident
    BY <1>37 DEF Kill
  <2>2. (signals \in 0..MaxSignals /\ accidents \in 0..MaxAccidents)'
    BY <2>1, Counted
  <2>3. QED
    BY <1>37, <2>2 DEF Kill
<1>38. ASSUME NEW s \in Session, Bind(s) PROVE SessionTypeOK'
  BY <1>38 DEF Bind, counters
<1>39. ASSUME NEW s \in Session, ProxyCrash(s) PROVE SessionTypeOK'
  <2>1. Accident
    BY <1>39 DEF ProxyCrash
  <2>2. (signals \in 0..MaxSignals /\ accidents \in 0..MaxAccidents)'
    BY <2>1, Counted
  <2>3. QED
    BY <1>39, <2>2 DEF ProxyCrash
<1>40. ASSUME NEW s \in Session, LoadShares(s) PROVE SessionTypeOK'
  BY <1>40 DEF LoadShares, counters
<1>41. ASSUME NEW s \in Session, BindSocket(s) PROVE SessionTypeOK'
  <2>1. UNCHANGED <<signals, accidents>>
    BY <1>41 DEF BindSocket, counters
  <2>2. (signals \in 0..MaxSignals /\ accidents \in 0..MaxAccidents)'
    BY <2>1, Counted
  <2>3. (sidecar \in [Session -> {"none", "booting", "loaded", "ready", "draining", "dead", "crashed"}])'
    <3>1. \/ sidecar' = [sidecar EXCEPT ![s] = "ready"]
          \/ sidecar' = [sidecar EXCEPT ![s] = "dead"]
      BY <1>41 DEF BindSocket
    <3>2. QED
      BY <3>1
  <2>4. (run \in [Session -> SUBSET ({"dir", "socket"} \cup Shares)])'
    <3>1. \/ run' = run
          \/ run' = [run EXCEPT ![s] = {}]
          \/ run' = [run EXCEPT ![s] = run[s] \cup {"socket"}]
      BY <1>41 DEF BindSocket
    <3>2. CASE run' = run
      BY <3>2 DEF Shares
    <3>3. CASE run' = [run EXCEPT ![s] = {}]
      BY <3>3 DEF Shares
    <3>4. CASE run' = [run EXCEPT ![s] = run[s] \cup {"socket"}]
      BY <3>4 DEF Shares
    <3>5. QED
      BY <3>1, <3>2, <3>3, <3>4
  <2>5. (/\ at \in [Session -> Points]
         /\ over \in [Session -> {"no", "ok", "failed", "interrupted", "killed"}]
         /\ handler \in [Session -> {"default", "raise", "flag", "forward"}]
         /\ stopping \in [Session -> BOOLEAN]
         /\ raised \in [Session -> {"no", "error", "interrupt"}]
         /\ found \in [Session -> Session \cup {NoSession}]
         /\ proxy \in [Session -> {"none", "booting", "serving", "dead"}]
         /\ pid_file \in Session \cup {NoSession} /\ up_lock \in Session \cup {NoSession}
         /\ down \in [at : {"idle", "kill", "unlink"}, pid : Session \cup {NoSession}])'
    BY <1>41 DEF BindSocket, counters
  <2>6. QED
    BY <2>2, <2>3, <2>4, <2>5
<1>42. ASSUME NEW s \in Session, Orphaned(s) PROVE SessionTypeOK'
  BY <1>42 DEF Orphaned, counters
<1>43. ASSUME NEW s \in Session, Drained(s) PROVE SessionTypeOK'
  BY <1>43 DEF Drained, counters
<1>44. ASSUME NEW s \in Session, SidecarTerm(s) PROVE SessionTypeOK'
  <2>1. Signal
    BY <1>44 DEF SidecarTerm
  <2>2. (signals \in 0..MaxSignals /\ accidents \in 0..MaxAccidents)'
    BY <2>1, Counted
  <2>3. QED
    BY <1>44, <2>2 DEF SidecarTerm
<1>45. ASSUME NEW s \in Session, SidecarCrash(s) PROVE SessionTypeOK'
  <2>1. Accident
    BY <1>45 DEF SidecarCrash
  <2>2. (signals \in 0..MaxSignals /\ accidents \in 0..MaxAccidents)'
    BY <2>1, Counted
  <2>3. QED
    BY <1>45, <2>2 DEF SidecarCrash
<1>46. CASE DownReads
  BY <1>46 DEF DownReads, counters
<1>47. CASE DownKills
  BY <1>47 DEF DownKills, counters
<1>48. CASE DownUnlinks
  BY <1>48 DEF DownUnlinks, counters
<1>49. CASE RemoveDeadRuns
  BY <1>49 DEF RemoveDeadRuns, LooksDead, counters
<1>50. CASE UNCHANGED sessionVars
  BY <1>50 DEF sessionVars
<1>51. QED
  BY <1>1, <1>2, <1>3, <1>4, <1>5, <1>6, <1>7, <1>8, <1>9, <1>10, <1>11, <1>12, <1>13, <1>14,
     <1>15, <1>16, <1>17, <1>18, <1>19, <1>20, <1>21, <1>22, <1>23, <1>24, <1>25, <1>26, <1>27, <1>28,
     <1>29, <1>30, <1>31, <1>32, <1>33, <1>34, <1>35, <1>36, <1>37, <1>38, <1>39, <1>40, <1>41, <1>42,
     <1>43, <1>44, <1>45, <1>46, <1>47, <1>48, <1>49, <1>50
     DEF SessionNext, UpStep, SharedStep, Signals, ProcessStep, SidecarStep

-----------------------------------------------------------------------------
(* What a step of anybody else's may do to a session.                       *)
Spared(u) ==
    /\ at'[u] = at[u] /\ over'[u] = over[u] /\ handler'[u] = handler[u] /\ raised'[u] = raised[u]
    /\ NoProxy(u) => NoProxy(u)'
    /\ sidecar[u] = "none" => sidecar'[u] = "none"
    /\ NoSidecar(u) => NoSidecar(u)'
    /\ run[u] = {} => run'[u] = {}
    /\ pid_file' = u => pid_file = u
    /\ up_lock' = u => up_lock = u

(* What a session owes is not disturbed by a step that spares it. *)
LEMMA SparedStep ==
    ASSUME NEW u \in Session, UpOK(u), Spared(u)
    PROVE  UpOK(u)'
<1> USE DEF Spared, NoProxy, NoSidecar, Gone
<1>1. (up_lock = u => ~Gone(u) /\ at[u] \notin BeforeLock)'
  BY DEF UpOK
<1>2. UpRuns(u) => UpRuns(u)'
  BY DEF UpRuns
<1>3. (~Gone(u) => Live(u) /\ at[u] # "end")'
  BY <1>2 DEF UpOK, Live
<1>4. (over[u] \in {"ok", "failed"} => Clean(u))'
  BY DEF UpOK, Clean
<1>5. QED
  BY <1>1, <1>3, <1>4 DEF UpOK

(* Only the session whose step it is is disturbed, and it by no step of a   *)
(* process it started.                                                      *)
LEMMA OthersSpared ==
    ASSUME SessionInv, NEW s \in Session, UpStep(s) \/ SharedStep(s) \/ Signals(s),
           NEW u \in Session \ {s}
    PROVE  Spared(u)
<1> USE DEF SessionInv, SessionTypeOK, files, counters, Accident, Signal, To, Here, Only, End,
       Process, NoProxy, NoSidecar, Spared
<1>1. CASE StartUp(s)
  BY <1>1 DEF StartUp
<1>2. CASE OwnsPort(s)
  BY <1>2 DEF OwnsPort
<1>3. CASE Reclaim(s)
  BY ZenonT(60), <1>3 DEF Reclaim
<1>4. CASE ReclaimKill(s)
  BY <1>4 DEF ReclaimKill
<1>5. CASE CleanupStep(s)
  <2>1. CASE CleanupStalePid(s, "clean", "unlink stale", "pid file")
    BY <2>1 DEF CleanupStalePid
  <2>2. CASE UnlinkStale(s, "unlink stale", "pid file")
    BY <2>2 DEF UnlinkStale
  <2>3. CASE CleanupStalePid(s, "clean up", "unlink dead", "lock")
    BY <2>3 DEF CleanupStalePid
  <2>4. CASE UnlinkStale(s, "unlink dead", "lock")
    BY <2>4 DEF UnlinkStale
  <2>5. QED
    BY <1>5, <2>1, <2>2, <2>3, <2>4 DEF CleanupStep
<1>6. CASE RemoveRuns(s)
  BY <1>6 DEF RemoveRuns
<1>7. CASE CheckPidFile(s)
  BY ZenonT(60), <1>7 DEF CheckPidFile
<1>8. CASE TakeUpLock(s)
  BY <1>8 DEF TakeUpLock
<1>9. CASE KeyOpens(s)
  BY <1>9 DEF KeyOpens
<1>10. CASE KeyRefused(s)
  BY <1>10 DEF KeyRefused
<1>11. CASE KeyFixed(s)
  BY <1>11 DEF KeyFixed
<1>12. CASE WritePid(s)
  BY <1>12 DEF WritePid
<1>13. CASE UnlinkPid(s)
  BY <1>13 DEF UnlinkPid
<1>14. CASE Unwind(s)
  BY <1>14 DEF Unwind
<1>15. CASE StartWrap(s)
  BY <1>15 DEF StartWrap
<1>16. CASE Split(s)
  BY <1>16 DEF Split
<1>17. CASE SplitFails(s)
  BY <1>17 DEF SplitFails
<1>18. CASE SpawnSidecar(s)
  BY <1>18 DEF SpawnSidecar
<1>19. CASE SidecarReady(s)
  BY <1>19 DEF SidecarReady
<1>20. CASE SidecarNotReady(s)
  BY <1>20 DEF SidecarNotReady
<1>21. CASE PortFree(s)
  BY <1>21 DEF PortFree
<1>22. CASE PortInUse(s)
  BY <1>22 DEF PortInUse
<1>23. CASE SpawnProxy(s)
  BY <1>23 DEF SpawnProxy
<1>24. CASE SpawnProxyFails(s)
  BY <1>24 DEF SpawnProxyFails
<1>25. CASE Healthy(s)
  BY <1>25 DEF Healthy
<1>26. CASE Unhealthy(s)
  BY <1>26 DEF Unhealthy
<1>27. CASE LeaveLoop(s)
  BY <1>27 DEF LeaveLoop
<1>28. CASE StopProxy(s)
  BY <1>28 DEF StopProxy
<1>29. CASE StopSidecar(s)
  BY <1>29 DEF StopSidecar
<1>30. CASE Reap(s)
  BY <1>30 DEF Reap
<1>31. CASE Wipe(s)
  BY <1>31 DEF Wipe
<1>32. CASE Release(s)
  BY <1>32 DEF Release
<1>33. CASE Flag(s)
  BY <1>33 DEF Flag
<1>34. CASE Interrupt(s)
  <2>1. at'[u] = at[u] /\ raised'[u] = raised[u] /\ sidecar'[u] = sidecar[u] /\ run'[u] = run[u]
    <3>1. CASE at[s] = "ready"
      BY <1>34, <3>1 DEF Interrupt
    <3>2. CASE at[s] # "ready"
      BY <1>34, <3>2 DEF Interrupt
    <3>3. QED
      BY <3>1, <3>2
  <2>2. over' = over /\ handler' = handler /\ proxy' = proxy /\ pid_file' = pid_file /\ up_lock' = up_lock
    BY <1>34 DEF Interrupt
  <2>3. QED
    BY <2>1, <2>2
<1>35. CASE InterruptWrap(s)
  BY <1>35 DEF InterruptWrap
<1>36. CASE Forward(s)
  BY <1>36 DEF Forward
<1>37. CASE Kill(s)
  BY <1>37 DEF Kill
<1>38. QED
  BY <1>1, <1>2, <1>3, <1>4, <1>5, <1>6, <1>7, <1>8, <1>9, <1>10, <1>11, <1>12, <1>13, <1>14,
     <1>15, <1>16, <1>17, <1>18, <1>19, <1>20, <1>21, <1>22, <1>23, <1>24, <1>25, <1>26, <1>27, <1>28,
     <1>29, <1>30, <1>31, <1>32, <1>33, <1>34, <1>35, <1>36, <1>37
     DEF UpStep, SharedStep, Signals

(* The processes, `down` and doctor spare every session. *)
LEMMA AllSpared ==
    ASSUME SessionInv, NEW u \in Session,
           (\E s \in Session : ProcessStep(s)) \/ DownReads \/ DownKills \/ DownUnlinks \/ RemoveDeadRuns
    PROVE  Spared(u)
<1> USE DEF SessionInv, SessionTypeOK, files, counters, Accident, Signal, To, Here, Only, End,
       Process, NoProxy, NoSidecar, Spared, Alive, Gone
<1>1. ASSUME NEW s \in Session, Bind(s) PROVE Spared(u)
  BY <1>1 DEF Bind
<1>2. ASSUME NEW s \in Session, ProxyCrash(s) PROVE Spared(u)
  BY <1>2 DEF ProxyCrash
<1>3. ASSUME NEW s \in Session, LoadShares(s) PROVE Spared(u)
  BY <1>3 DEF LoadShares
<1>4. ASSUME NEW s \in Session, BindSocket(s) PROVE Spared(u)
  BY <1>4 DEF BindSocket
<1>5. ASSUME NEW s \in Session, Orphaned(s) PROVE Spared(u)
  BY <1>5 DEF Orphaned
<1>6. ASSUME NEW s \in Session, Drained(s) PROVE Spared(u)
  BY <1>6 DEF Drained
<1>7. ASSUME NEW s \in Session, SidecarTerm(s) PROVE Spared(u)
  BY <1>7 DEF SidecarTerm
<1>8. ASSUME NEW s \in Session, SidecarCrash(s) PROVE Spared(u)
  BY <1>8 DEF SidecarCrash
<1>9. CASE DownReads
  BY <1>9 DEF DownReads
<1>10. CASE DownKills
  BY <1>10 DEF DownKills
<1>11. CASE DownUnlinks
  BY <1>11 DEF DownUnlinks
<1>12. CASE RemoveDeadRuns
  BY <1>12 DEF RemoveDeadRuns, LooksDead
<1>13. QED
  BY <1>1, <1>2, <1>3, <1>4, <1>5, <1>6, <1>7, <1>8, <1>9, <1>10, <1>11, <1>12
     DEF ProcessStep, SidecarStep

(* What an `up` owes after a step of its own. *)
LEMMA OwnStep ==
    ASSUME SessionInv, NEW s \in Session \ Wraps, UpOK(s), UpStep(s) \/ SharedStep(s) \/ Signals(s)
    PROVE  UpOK(s)'
<1> USE DEF SessionInv, SessionTypeOK, files, counters, Accident, Signal, To, Here, Only, End,
       Process, Gone, BeforeLock, BeforeSplit, PidWritten, Leaving,
       NoProxy, NoSidecar, UpRuns, Live, Clean, UpOK
<1>1. CASE StartUp(s)
  BY <1>1 DEF StartUp
<1>2. CASE OwnsPort(s)
  BY <1>2 DEF OwnsPort
<1>3. CASE Reclaim(s)
  BY ZenonT(60), <1>3 DEF Reclaim
<1>4. CASE ReclaimKill(s)
  BY <1>4 DEF ReclaimKill
<1>5. CASE CleanupStep(s)
  <2>1. CASE CleanupStalePid(s, "clean", "unlink stale", "pid file")
    BY <2>1 DEF CleanupStalePid
  <2>2. CASE UnlinkStale(s, "unlink stale", "pid file")
    BY <2>2 DEF UnlinkStale
  <2>3. CASE CleanupStalePid(s, "clean up", "unlink dead", "lock")
    BY <2>3 DEF CleanupStalePid
  <2>4. CASE UnlinkStale(s, "unlink dead", "lock")
    BY <2>4 DEF UnlinkStale
  <2>5. QED
    BY <1>5, <2>1, <2>2, <2>3, <2>4 DEF CleanupStep
<1>6. CASE RemoveRuns(s)
  BY <1>6 DEF RemoveRuns
<1>7. CASE CheckPidFile(s)
  BY <1>7 DEF CheckPidFile
<1>8. CASE TakeUpLock(s)
  <2>1. CASE up_lock = NoSession
    <3>1. at'[s] = "key" /\ handler'[s] = "raise" /\ over' = over /\ raised' = raised
      BY ZenonT(60), <1>8, <2>1 DEF TakeUpLock
    <3>2. pid_file' = pid_file /\ proxy' = proxy /\ sidecar' = sidecar /\ run' = run
      BY <1>8 DEF TakeUpLock
    <3>3. at[s] = "lock" /\ ~Gone(s)
      BY <1>8 DEF TakeUpLock
    <3>4. QED
      BY <3>1, <3>2, <3>3
  <2>2. CASE up_lock # NoSession
    BY <1>8, <2>2 DEF TakeUpLock
  <2>3. QED
    BY <2>1, <2>2
<1>9. CASE KeyOpens(s)
  BY <1>9 DEF KeyOpens
<1>10. CASE KeyRefused(s)
  BY <1>10 DEF KeyRefused
<1>11. CASE KeyFixed(s)
  BY <1>11 DEF KeyFixed
<1>12. CASE WritePid(s)
  BY <1>12 DEF WritePid
<1>13. CASE UnlinkPid(s)
  BY <1>13 DEF UnlinkPid
<1>14. CASE Unwind(s)
  BY <1>14 DEF Unwind
<1>15. CASE StartWrap(s)
  BY <1>15 DEF StartWrap
<1>16. CASE Split(s)
  BY <1>16 DEF Split
<1>17. CASE SplitFails(s)
  BY ZenonT(60), <1>17 DEF SplitFails
<1>18. CASE SpawnSidecar(s)
  BY <1>18 DEF SpawnSidecar
<1>19. CASE SidecarReady(s)
  BY <1>19 DEF SidecarReady
<1>20. CASE SidecarNotReady(s)
  BY <1>20 DEF SidecarNotReady
<1>21. CASE PortFree(s)
  BY <1>21 DEF PortFree
<1>22. CASE PortInUse(s)
  BY <1>22 DEF PortInUse
<1>23. CASE SpawnProxy(s)
  BY <1>23 DEF SpawnProxy
<1>24. CASE SpawnProxyFails(s)
  BY <1>24 DEF SpawnProxyFails
<1>25. CASE Healthy(s)
  BY <1>25 DEF Healthy
<1>26. CASE Unhealthy(s)
  BY <1>26 DEF Unhealthy
<1>27. CASE LeaveLoop(s)
  BY <1>27 DEF LeaveLoop
<1>28. CASE StopProxy(s)
  BY <1>28 DEF StopProxy
<1>29. CASE StopSidecar(s)
  BY <1>29 DEF StopSidecar
<1>30. CASE Reap(s)
  BY ZenonT(60), <1>30 DEF Reap
<1>31. CASE Wipe(s)
  BY <1>31 DEF Wipe
<1>32. CASE Release(s)
  <2>1. over'[s] = [no |-> "ok", error |-> "failed", interrupt |-> "interrupted"][raised[s]]
       /\ raised[s] \in {"no", "error", "interrupt"}
    BY <1>32 DEF Release
  <2>2. over'[s] # "no" /\ (raised[s] = "interrupt" => over'[s] = "interrupted")
    <3> HIDE DEF SessionInv, SessionTypeOK, UpOK, Live, UpRuns
    <3>1. CASE raised[s] = "no"
      BY <2>1, <3>1
    <3>2. CASE raised[s] = "error"
      BY <2>1, <3>2
    <3>3. CASE raised[s] = "interrupt"
      BY <2>1, <3>3
    <3>4. QED
      BY <2>1, <3>1, <3>2, <3>3
  <2>3. raised[s] # "interrupt" => Clean(s)'
    BY <1>32 DEF Release
  <2>4. up_lock' # s
    BY <1>32 DEF Release
  <2>5. QED
    BY <2>2, <2>3, <2>4
<1>33. CASE Flag(s)
  BY <1>33 DEF Flag
<1>34. CASE Interrupt(s)
  <2>1. at'[s] \in Leaving /\ raised'[s] = "interrupt" /\ up_lock' = up_lock
    BY ZenonT(60), <1>34 DEF Interrupt
  <2>2. at[s] \notin BeforeLock /\ ~Gone(s) /\ over' = over /\ handler' = handler
    BY <1>34 DEF Interrupt
  <2>3. at'[s] \notin BeforeLock /\ at'[s] # "end"
    BY <2>1
  <2>4. Live(s)'
    BY <2>1, <2>3
  <2>5. QED
    <3> HIDE DEF Live, Clean, SessionInv, SessionTypeOK
    <3>1. ~Gone(s)' /\ over'[s] \notin {"ok", "failed"}
      BY <2>2
    <3>2. QED
      BY <2>1, <2>3, <2>4, <3>1
<1>35. CASE InterruptWrap(s)
  BY <1>35 DEF InterruptWrap
<1>36. CASE Forward(s)
  BY <1>36 DEF Forward
<1>37. CASE Kill(s)
  BY ZenonT(60), <1>37 DEF Kill
<1>38. QED
  BY <1>1, <1>2, <1>3, <1>4, <1>5, <1>6, <1>7, <1>8, <1>9, <1>10, <1>11, <1>12, <1>13, <1>14,
     <1>15, <1>16, <1>17, <1>18, <1>19, <1>20, <1>21, <1>22, <1>23, <1>24, <1>25, <1>26, <1>27, <1>28,
     <1>29, <1>30, <1>31, <1>32, <1>33, <1>34, <1>35, <1>36, <1>37
     DEF UpStep, SharedStep, Signals

(* Every step keeps what every `up` owes. *)
LEMMA UpOKStep ==
    ASSUME SessionInv, [SessionNext]_sessionVars, NEW u \in Session \ Wraps
    PROVE  UpOK(u)'
<1>1. UpOK(u)
  BY DEF SessionInv
<1>2. ASSUME NEW s \in Session, UpStep(s) \/ SharedStep(s) \/ Signals(s) PROVE UpOK(u)'
  <2>1. CASE u = s
    BY <1>1, <1>2, <2>1, OwnStep
  <2>2. CASE u # s
    BY <1>1, <1>2, <2>2, OthersSpared, SparedStep
  <2>3. QED
    BY <2>1, <2>2
<1>3. ASSUME (\E s \in Session : ProcessStep(s)) \/ DownReads \/ DownKills \/ DownUnlinks \/ RemoveDeadRuns
      PROVE UpOK(u)'
  BY <1>1, <1>3, AllSpared, SparedStep
<1>4. CASE UNCHANGED sessionVars
  <2>1. Spared(u)
    BY <1>4 DEF sessionVars, Spared, NoProxy, NoSidecar
  <2>2. QED
    BY <1>1, <2>1, SparedStep
<1>5. QED
  BY <1>2, <1>3, <1>4 DEF SessionNext

(* Nothing has started at first. *)
LEMMA SessionInvInit == SessionInit => SessionInv
<1> SUFFICES ASSUME SessionInit PROVE SessionInv
  OBVIOUS
<1>1. SessionTypeOK
  BY DEF SessionInit, SessionTypeOK, Points
<1>2. \A s \in Session : /\ at[s] = "idle" /\ over[s] = "no" /\ handler[s] = "default" /\ raised[s] = "no"
                         /\ proxy[s] = "none" /\ sidecar[s] = "none" /\ run[s] = {}
                         /\ pid_file # s /\ up_lock # s
  BY DEF SessionInit
<1>3. ASSUME NEW s \in Session \ Wraps PROVE UpOK(s)
  BY <1>2
     DEF UpOK, Live, UpRuns, Gone, BeforeLock, BeforeSplit, PidWritten, Leaving, NoProxy, NoSidecar
<1>4. QED
  BY <1>1, <1>3 DEF SessionInv

(* worthless up, by hand or under a service manager: whichever way it ends   *)
(* but a kill or an interrupt, it leaves no process, no half of the key, no  *)
(* pid file and no lock behind, for any number of sessions, signals,         *)
(* crashes and failing calls beside and below it.                            *)
THEOREM UpEndsClean == SessionSpec => []EndsClean
<1>1. SessionInv /\ [SessionNext]_sessionVars => SessionInv'
  BY SessionTypeStep, UpOKStep DEF SessionInv
<1>2. SessionInv => EndsClean
  BY DEF SessionInv, UpOK, Clean, Gone, NoProxy, NoSidecar, EndsClean
<1>3. QED
  BY <1>1, <1>2, SessionInvInit, PTL DEF SessionSpec

-----------------------------------------------------------------------------
(* TokenBudget. *)

USE BudgetAssumption

Reserving == {"running", "release", "lost"}

\* Requests whose reservation the total has to stand for.
Reservers == {r \in Request : stage[r] \in Reserving}

BudgetInv ==
    /\ BudgetTypeOK
    /\ \A r \in Request : got[r] <= estimate[r] /\ (stage[r] = "new" => got[r] = 0)
    /\ reserved <= Outstanding(Reservers)

-----------------------------------------------------------------------------
LEMMA SumIsNat ==
    ASSUME NEW g \in [Request -> Nat], NEW S, S \subseteq Request
    PROVE  Amounts([q \in S |-> g[q]]) /\ Total([q \in S |-> g[q]]) \in Nat
<1>1. IsFiniteSet(S)
  BY FS_Subset
<1>2. Amounts([q \in S |-> g[q]])
  BY <1>1 DEF Amounts
<1>3. QED
  BY <1>2, TotalType

LEMMA OneMoreInSum ==
    ASSUME NEW g \in [Request -> Nat], NEW S, S \subseteq Request, NEW r \in Request, r \notin S
    PROVE  Total([q \in S \cup {r} |-> g[q]]) = Total([q \in S |-> g[q]]) + g[r]
<1> DEFINE all == [q \in S \cup {r} |-> g[q]]
           rest == [q \in S |-> g[q]]
           one == [q \in {r} |-> g[q]]
<1>1. Amounts(all)
  BY SumIsNat
<1>2. /\ DOMAIN all = DOMAIN rest \cup DOMAIN one
      /\ DOMAIN rest \cap DOMAIN one = {}
      /\ \A q \in DOMAIN rest : rest[q] = all[q]
      /\ \A q \in DOMAIN one : one[q] = all[q]
  OBVIOUS
<1>3. DOMAIN one = {r} /\ one[r] = g[r] /\ g[r] \in Nat
  OBVIOUS
<1> HIDE DEF all, rest, one
<1>4. Total(all) = Total(rest) + Total(one)
  BY <1>1, <1>2, TotalSplit
<1>5. Total(one) = g[r]
  BY <1>3, TotalOfOne
<1>6. QED
  BY <1>4, <1>5 DEF all, rest

\* Below every budget that is not used up there is room: MinRemaining is a
\* positive amount.
LEMMA RoomLeft ==
    ASSUME BudgetTypeOK, Active # {}, ~Exhausted, NEW e \in Estimate
    PROVE  Reservation(e) \in Nat /\ Reservation(e) <= e
<1> DEFINE S == {budget[p] - Used(p) - reserved : p \in Active}
<1>1. ASSUME NEW p \in Active PROVE budget[p] - Used(p) - reserved \in Nat
  <2>1. budget[p] \in Nat /\ reserved \in Nat
    BY DEF BudgetTypeOK, Active
  <2>2. Used(p) \in Nat
    <3>1. p \in Period /\ Window[p] \in 1..3
      BY DEF Active, Period, Window
    <3>2. IsFiniteSet(1..Window[p]) /\ \A age \in 1..Window[p] : log[age] \in Nat
      <4>1. IsFiniteSet(1..Window[p])
        BY <3>1, FS_Interval
      <4>2. QED
        BY <3>1, <4>1 DEF BudgetTypeOK, Age
    <3>3. Amounts([age \in 1..Window[p] |-> log[age]])
      BY <3>2 DEF Amounts
    <3>4. QED
      BY <3>3, TotalType DEF Used
  <2>3. ~(Used(p) + reserved >= budget[p])
    BY DEF Exhausted
  <2>4. QED
    BY <2>1, <2>2, <2>3
<1>2. S \subseteq Nat /\ S # {}
  BY <1>1
<1>3. \E x \in S : \A y \in S : x <= y
  <2> HIDE DEF S
  <2>1. QED
    BY <1>2, LeastNat
<1>4. MinRemaining \in S
  BY <1>3 DEF MinRemaining, Min
<1>5. MinRemaining \in Nat
  BY <1>2, <1>4
<1>6. QED
  BY <1>5 DEF Reservation

LEMMA BudgetInitially == BudgetInit => BudgetInv
<1> SUFFICES ASSUME BudgetInit PROVE BudgetInv
  OBVIOUS
<1>1. BudgetTypeOK
  BY DEF BudgetInit, BudgetTypeOK, Age
<1>2. \A r \in Request : got[r] <= estimate[r] /\ (stage[r] = "new" => got[r] = 0)
  BY DEF BudgetInit
<1>3. Outstanding(Reservers) \in Nat
  BY <1>1, SumIsNat DEF BudgetTypeOK, Reservers, Outstanding
<1>4. reserved <= Outstanding(Reservers)
  BY <1>3 DEF BudgetInit
<1>5. QED
  BY <1>1, <1>2, <1>4 DEF BudgetInv

\* Steps that neither reserve nor release.
LEMMA NothingMoves ==
    ASSUME BudgetInv, UNCHANGED <<reserved, got>>, Reservers \subseteq Reservers'
    PROVE  reserved' <= Outstanding(Reservers)'
<1> DEFINE before == [q \in Reservers |-> got[q]]
           after == [q \in Reservers' |-> got'[q]]
<1>1. got \in [Request -> Nat] /\ reserved \in Nat
  BY DEF BudgetInv, BudgetTypeOK
<1>2. Amounts(before) /\ Outstanding(Reservers) \in Nat
  BY <1>1, SumIsNat DEF Reservers, Outstanding
<1>3. Amounts(after) /\ Total(after) \in Nat
  <2>1. IsFiniteSet(Reservers')
    BY FS_Subset DEF Reservers
  <2>2. Amounts(after)
    BY <1>1, <2>1 DEF Amounts, Reservers
  <2>3. QED
    BY <2>2, TotalType
<1>4. /\ DOMAIN before \subseteq DOMAIN after
      /\ \A q \in DOMAIN before : before[q] \in Nat /\ before[q] <= after[q]
  BY <1>1 DEF Reservers
<1>5. Total(before) <= Total(after)
  <2> HIDE DEF before, after
  <2>1. QED
    BY <1>3, <1>4, TotalMonotone
<1>6. QED
  BY <1>1, <1>2, <1>3, <1>5 DEF BudgetInv, Outstanding

LEMMA EvaluateKeeps ==
    ASSUME BudgetInv, NEW r \in Request, Evaluate(r)
    PROVE  BudgetInv'
<1>1. PICK e \in Estimate :
        /\ estimate' = [estimate EXCEPT ![r] = e]
        /\ \/ /\ Active = {}
              /\ stage' = [stage EXCEPT ![r] = "running"]
              /\ UNCHANGED <<reserved, got>>
           \/ /\ Active # {} /\ Exhausted
              /\ stage' = [stage EXCEPT ![r] = "release"]
              /\ UNCHANGED <<reserved, got>>
           \/ /\ Active # {} /\ ~Exhausted
              /\ stage' = [stage EXCEPT ![r] = "running"]
              /\ reserved' = reserved + Reservation(e)
              /\ got' = [got EXCEPT ![r] = Reservation(e)]
  BY DEF Evaluate
<1>2. stage[r] = "new" /\ UNCHANGED <<budget, log>> /\ BudgetTypeOK
  BY DEF Evaluate, BudgetInv
<1>3. /\ estimate' \in [Request -> Estimate \cup {0}]
      /\ stage' \in [Request -> {"new", "running", "release", "done", "lost"}]
      /\ Reservers' = Reservers \cup {r} /\ r \notin Reservers
  BY <1>1, <1>2 DEF BudgetTypeOK, Reservers, Reserving
<1>4. e \in Nat /\ got[r] = 0 /\ reserved \in Nat /\ got \in [Request -> Nat]
  BY <1>2 DEF BudgetInv, BudgetTypeOK
<1>5. CASE UNCHANGED <<reserved, got>>
  <2>1. BudgetTypeOK'
    BY <1>2, <1>3, <1>5 DEF BudgetTypeOK
  <2>2. \A q \in Request : got'[q] <= estimate'[q] /\ (stage'[q] = "new" => got'[q] = 0)
    BY <1>1, <1>2, <1>4, <1>5 DEF BudgetInv, BudgetTypeOK
  <2>3. reserved' <= Outstanding(Reservers)'
    BY <1>3, <1>5, NothingMoves
  <2>4. QED
    BY <2>1, <2>2, <2>3 DEF BudgetInv
<1>6. CASE /\ Active # {} /\ ~Exhausted
           /\ reserved' = reserved + Reservation(e)
           /\ got' = [got EXCEPT ![r] = Reservation(e)]
  <2>1. Reservation(e) \in Nat /\ Reservation(e) <= e
    BY <1>2, <1>6, RoomLeft
  <2>2. BudgetTypeOK'
    BY <1>2, <1>3, <1>4, <1>6, <2>1 DEF BudgetTypeOK
  <2>3. \A q \in Request : got'[q] <= estimate'[q] /\ (stage'[q] = "new" => got'[q] = 0)
    BY <1>1, <1>2, <1>4, <1>6, <2>1 DEF BudgetInv, BudgetTypeOK
  <2>4. Outstanding(Reservers)' = Outstanding(Reservers) + Reservation(e)
    <3>1. got' \in [Request -> Nat] /\ got'[r] = Reservation(e)
      BY <2>2, <1>6, <1>4 DEF BudgetTypeOK
    <3>2. Total([q \in Reservers \cup {r} |-> got'[q]]) = Total([q \in Reservers |-> got'[q]]) + got'[r]
      BY <1>3, <3>1, OneMoreInSum DEF Reservers
    <3>3. [q \in Reservers |-> got'[q]] = [q \in Reservers |-> got[q]]
      BY <1>3, <1>4, <1>6 DEF Reservers
    <3>4. Outstanding(Reservers)' = Total([q \in Reservers \cup {r} |-> got'[q]])
      BY <1>3 DEF Outstanding
    <3>5. QED
      BY <3>1, <3>2, <3>3, <3>4 DEF Outstanding
  <2>5. reserved <= Outstanding(Reservers) /\ Outstanding(Reservers) \in Nat
    BY <1>4, SumIsNat DEF BudgetInv, Outstanding, Reservers
  <2>6. reserved' <= Outstanding(Reservers)'
    BY <1>4, <1>6, <2>1, <2>4, <2>5
  <2>7. QED
    BY <2>2, <2>3, <2>6 DEF BudgetInv
<1>7. QED
  BY <1>1, <1>5, <1>6

\* What is released is at least what was reserved, or all there is.
LEMMA ReleaseKeeps ==
    ASSUME BudgetInv, NEW r \in Request, ReleaseReservation(r)
    PROVE  BudgetInv'
<1>1. /\ stage[r] = "release" /\ reserved' = Released(estimate[r])
      /\ stage' = [stage EXCEPT ![r] = "done"] /\ UNCHANGED <<budget, log, estimate, got>>
  BY DEF ReleaseReservation
<1>2. /\ BudgetTypeOK /\ reserved \in Nat /\ estimate[r] \in Nat /\ got \in [Request -> Nat]
      /\ got[r] <= estimate[r]
  <2>1. estimate[r] \in Estimate \cup {0}
    BY DEF BudgetInv, BudgetTypeOK
  <2>2. estimate[r] \in Nat
    <3>1. \A e \in Estimate \cup {0} : e \in Nat
      OBVIOUS
    <3>2. QED
      BY <2>1, <3>1
  <2>3. QED
    BY <2>2 DEF BudgetInv, BudgetTypeOK
<1>3. BudgetTypeOK'
  BY <1>1, <1>2 DEF BudgetTypeOK, Released
<1>4. /\ Reservers = Reservers' \cup {r} /\ r \notin Reservers' /\ Reservers' \subseteq Request
  BY <1>1, <1>2 DEF BudgetTypeOK, Reservers, Reserving
<1>5. Outstanding(Reservers) = Outstanding(Reservers)' + got[r]
  <2>1. Total([q \in Reservers' \cup {r} |-> got[q]]) = Total([q \in Reservers' |-> got[q]]) + got[r]
    BY <1>2, <1>4, OneMoreInSum
  <2>2. QED
    BY <1>1, <1>4, <2>1 DEF Outstanding
<1>6. Outstanding(Reservers)' \in Nat
  BY <1>1, <1>2, <1>4, SumIsNat DEF Outstanding
<1>7. reserved' <= Outstanding(Reservers)'
  BY <1>1, <1>2, <1>5, <1>6 DEF BudgetInv, Released
<1>8. \A q \in Request : got'[q] <= estimate'[q] /\ (stage'[q] = "new" => got'[q] = 0)
  BY <1>1, <1>2 DEF BudgetInv, BudgetTypeOK
<1>9. QED
  BY <1>3, <1>7, <1>8 DEF BudgetInv

LEMMA BudgetStep == BudgetInv /\ [BudgetNext]_budgetVars => BudgetInv'
<1> SUFFICES ASSUME BudgetInv, [BudgetNext]_budgetVars PROVE BudgetInv'
  OBVIOUS
<1>1. ASSUME NEW r \in Request, Fail(r) \/ RecordUsage(r) \/ Escape(r) \/ EvaluateRaises(r)
      PROVE  BudgetInv'
  <2>1. BudgetTypeOK'
    BY <1>1 DEF BudgetInv, BudgetTypeOK, Age, Fail, RecordUsage, Escape, EvaluateRaises
  <2>2. Reservers \subseteq Reservers' /\ UNCHANGED <<reserved, got>>
    BY <1>1 DEF BudgetInv, BudgetTypeOK, Reservers, Reserving, Fail, RecordUsage, Escape, EvaluateRaises
  <2>3. \A q \in Request : got'[q] <= estimate'[q] /\ (stage'[q] = "new" => got'[q] = 0)
    BY <1>1 DEF BudgetInv, BudgetTypeOK, Fail, RecordUsage, Escape, EvaluateRaises
  <2>4. QED
    BY <2>1, <2>2, <2>3, NothingMoves DEF BudgetInv
<1>2. CASE TimePasses
  <2>1. BudgetTypeOK'
    BY <1>2 DEF BudgetInv, BudgetTypeOK, Age, TimePasses
  <2>2. UNCHANGED <<reserved, got, stage, estimate>>
    BY <1>2 DEF TimePasses
  <2>3. Reservers \subseteq Reservers'
    BY <2>2 DEF Reservers
  <2>4. QED
    BY <2>1, <2>2, <2>3, NothingMoves DEF BudgetInv
<1>3. CASE UNCHANGED budgetVars
  BY <1>3 DEF budgetVars, BudgetInv, BudgetTypeOK, Outstanding, Reservers, Total, Units
<1>4. QED
  BY <1>1, <1>2, <1>3, EvaluateKeeps, ReleaseKeeps DEF BudgetNext

(* ReservationsReal. *)
THEOREM ReservationsAreReal == BudgetSpec => [](BudgetTypeOK /\ ReservationsReal)
<1>1. ASSUME BudgetInv PROVE BudgetTypeOK /\ ReservationsReal
  <2>1. Reservers = InFlight \cup {r \in Request : stage[r] = "lost"}
    BY DEF Reservers, Reserving, InFlight
  <2>2. NothingReservedTwice
    BY <1>1, <2>1 DEF BudgetInv, NothingReservedTwice
  <2>3. QuietMeansEmpty
    <3>1. ASSUME InFlight = {}, \A r \in Request : stage[r] # "lost" PROVE reserved = 0
      <4>1. Reservers = {}
        BY <2>1, <3>1
      <4>2. Outstanding(Reservers) = 0
        <5>1. DOMAIN [q \in {} |-> got[q]] = {}
          OBVIOUS
        <5>2. Total([q \in {} |-> got[q]]) = 0
          BY <5>1, TotalOfNone
        <5>3. QED
          BY <4>1, <5>2 DEF Outstanding
      <4>3. QED
        BY <1>1, <4>2 DEF BudgetInv, BudgetTypeOK
    <3>2. QED
      BY <3>1 DEF QuietMeansEmpty
  <2>4. QED
    BY <1>1, <2>2, <2>3 DEF BudgetInv, ReservationsReal
<1>2. QED
  BY <1>1, BudgetInitially, BudgetStep, PTL DEF BudgetSpec

-----------------------------------------------------------------------------
(* Tripwire.  What has been read, and what is loaded, was in the table: and *)
(* the table only grows.                                                    *)
TripwireInv ==
    /\ TripwireTypeOK
    /\ decoy_hashes \subseteq retired_decoys /\ reading.got \subseteq retired_decoys
    /\ reading.on => decoy_hashes \subseteq reading.got /\ serving

LEMMA TripwireStep == TripwireInv /\ [TripwireNext]_tripwireVars => TripwireInv'
<1> SUFFICES ASSUME TripwireInv, [TripwireNext]_tripwireVars PROVE TripwireInv'
  OBVIOUS
<1> USE TripwireAssumption DEF TripwireInv, TripwireTypeOK, NotReading
<1>1. ASSUME NEW t \in Token, RetireToken(t) PROVE TripwireInv'
  BY <1>1 DEF RetireToken
<1>2. CASE ServeUp
  BY <1>2 DEF ServeUp
<1>3. CASE ServeDown
  <2>1. reboots' \in 0..MaxReboots /\ trips' \in 0..MaxTrips
    BY <1>3 DEF ServeDown
  <2>2. reading' = NotReading /\ reading'.on = FALSE /\ reading'.got = {} /\ decoy_hashes' = {}
    BY <1>3 DEF ServeDown
  <2>3. retired_decoys' = retired_decoys /\ serving' = FALSE
    BY <1>3 DEF ServeDown
  <2>4. reading' \in [on : BOOLEAN, got : SUBSET Token]
    BY <2>2
  <2>5. QED
    BY <2>1, <2>2, <2>3, <2>4
<1>4. CASE FetchDecoys
  BY <1>4 DEF FetchDecoys
<1>5. CASE StoreDecoys
  BY <1>5 DEF StoreDecoys
<1>6. CASE FetchFails
  BY <1>6 DEF FetchFails
<1>7. CASE UNCHANGED tripwireVars
  BY <1>7 DEF tripwireVars
<1>8. QED
  BY <1>1, <1>2, <1>3, <1>4, <1>5, <1>6, <1>7 DEF TripwireNext

(* The half of TripwireKept that is not liveness: NeverBlanked. *)
THEOREM TripwireStaysArmed == TripwireSpec => []TripwireTypeOK /\ NeverBlanked
<1>1. TripwireInit => TripwireInv
  <2> SUFFICES ASSUME TripwireInit PROVE TripwireInv
    OBVIOUS
  <2>1. reading = NotReading /\ reading.on = FALSE /\ reading.got = {} /\ decoy_hashes = {}
    BY DEF TripwireInit, NotReading
  <2>2. reading \in [on : BOOLEAN, got : SUBSET Token]
    BY <2>1 DEF NotReading
  <2>3. 0 \in 0..MaxReboots /\ 0 \in 0..MaxTrips
    BY TripwireAssumption
  <2>4. TripwireTypeOK
    BY <2>2, <2>3 DEF TripwireInit, TripwireTypeOK
  <2>5. QED
    BY <2>1, <2>4 DEF TripwireInv
<1>2. TripwireInv /\ [TripwireNext]_tripwireVars
        => [serving /\ serving' => decoy_hashes \subseteq decoy_hashes']_tripwireVars
  <2> SUFFICES ASSUME TripwireInv, TripwireNext, serving, serving'
               PROVE  decoy_hashes \subseteq decoy_hashes'
    BY DEF tripwireVars
  <2>1. QED
    BY DEF TripwireInv, TripwireNext, RetireToken, ServeUp, ServeDown, FetchDecoys, StoreDecoys,
           FetchFails
<1>3. TripwireInv => TripwireTypeOK
  BY DEF TripwireInv
<1>4. QED
  BY <1>1, <1>2, <1>3, TripwireStep, PTL DEF TripwireSpec, NeverBlanked

-----------------------------------------------------------------------------
(* RateLimit. *)

USE RateAssumption

\* For a request that comes at now, w is what was let through.
Agrees(c, w, now) == \A t \in Clock : t + Second > now => w[t] = granted[c][t]

\* A lock is created once, and held by the one request that loads the limit.
LocksInv ==
    /\ \A q \in Caller : step[q] = "new" => \A c \in Client : locks[c] # q
    /\ \A q \in Caller : step[q] # "new" => came[q].lock \in Caller
    /\ \A q \in Caller : step[q] = "loading" => came[q].lock \in held
    /\ \A q, r \in Caller :
          step[q] = "loading" /\ step[r] = "loading" /\ came[q].lock = came[r].lock => q = r

\* Windows hold nothing that was not let through.
WindowsInv ==
    /\ \A c \in Client, t \in Clock : windows[c][t] <= granted[c][t]
    /\ \A q \in Caller : step[q] = "loading" =>
          \A t \in Clock : /\ came[q].window[t] <= granted[came[q].client][t]
                           /\ came[q].window[t] # 0 => t + Second > came[q].now

LocalWindow(q) == IF step[q] = "queued" THEN windows[came[q].client] ELSE came[q].window

\* Where no cleanup came between, the requests of a client share one lock, come
\* to it in the order of their clocks, and find the window they need.
ExactInv ==
    \A c \in Client \ overtaken :
        /\ Agrees(c, windows[c], ticks)
        /\ \A q \in Caller : Waits(q, c) =>
              /\ came[q].lock = locks[c] /\ came[q].now <= ticks
              /\ Agrees(c, LocalWindow(q), came[q].now)
        /\ \A q, r \in Caller :
              /\ Waits(q, c) /\ Waits(r, c)
              /\ step[q] = "queued" /\ step[r] = "loading"
              => came[r].now <= came[q].now

RateInv == RateTypeOK /\ LocksInv /\ WindowsInv /\ ExactInv /\ RateExact

-----------------------------------------------------------------------------
LEMMA TimestampsAreAmounts ==
    ASSUME NEW w \in Timestamps
    PROVE  Amounts(w) /\ Total(w) \in Nat
<1>1. IsFiniteSet(Clock)
  BY FS_Interval DEF Clock
<1>2. Amounts(w)
  BY <1>1 DEF Amounts, Timestamps
<1>3. QED
  BY <1>2, TotalType

LEMMA KeptType ==
    ASSUME NEW w \in Timestamps, NEW now \in Clock
    PROVE  Kept(w, now) \in Timestamps /\ Added(w, now) \in Timestamps
BY DEF Kept, Added, Timestamps, Clock

LEMMA LessIsLess ==
    ASSUME NEW v \in Timestamps, NEW w \in Timestamps, \A t \in Clock : v[t] <= w[t]
    PROVE  Total(v) <= Total(w)
<1>1. Amounts(w)
  BY TimestampsAreAmounts
<1>2. DOMAIN v = Clock /\ DOMAIN w = Clock /\ \A t \in Clock : v[t] \in Nat /\ v[t] <= w[t]
  BY DEF Timestamps
<1>3. QED
  BY <1>1, <1>2, TotalMonotone

\* One timestamp more is one more in all.
LEMMA OneMore ==
    ASSUME NEW v \in Timestamps, NEW w \in Timestamps, NEW now \in Clock,
           \A t \in Clock : v[t] <= IF t = now THEN w[t] + 1 ELSE w[t]
    PROVE  Total(v) <= Total(w) + 1
<1> DEFINE one == [t \in Clock |-> IF t = now THEN 1 ELSE 0]
           here == [t \in {now} |-> 1]
           elsewhere == [t \in Clock \ {now} |-> 0]
<1>1. one \in Timestamps
  BY DEF Timestamps
<1>2. Amounts(v) /\ Amounts(w) /\ Amounts(one)
  BY <1>1, TimestampsAreAmounts
<1>3. Total(v) <= Total(w) + Total(one)
  <2>1. /\ DOMAIN v = DOMAIN w /\ DOMAIN v = DOMAIN one
        /\ \A t \in DOMAIN v : v[t] <= w[t] + one[t]
    BY DEF Timestamps
  <2> HIDE DEF one
  <2>2. QED
    BY <1>2, <2>1, TotalCovered
<1>4. Total(here) = 1
  <2>1. DOMAIN here = {now} /\ here[now] = 1
    OBVIOUS
  <2> HIDE DEF here
  <2>2. QED
    BY <2>1, TotalOfOne
<1>5. Total(elsewhere) = 0
  <2>1. Units(elsewhere) = {}
    <3>1. ASSUME NEW u \in Units(elsewhere) PROVE FALSE
      <4>1. \E x \in DOMAIN elsewhere : \E n \in 1..elsewhere[x] : u = <<x, n>>
        BY UnitsOf
      <4>2. QED
        BY <4>1
    <3>2. QED
      BY <3>1
  <2>2. QED
    BY <2>1, FS_EmptySet DEF Total
<1>6. Total(one) = Total(here) + Total(elsewhere)
  <2>1. /\ DOMAIN one = DOMAIN here \cup DOMAIN elsewhere
        /\ DOMAIN here \cap DOMAIN elsewhere = {}
        /\ \A x \in DOMAIN here : here[x] = one[x]
        /\ \A x \in DOMAIN elsewhere : elsewhere[x] = one[x]
    OBVIOUS
  <2> HIDE DEF one, here, elsewhere
  <2>2. QED
    BY <1>2, <2>1, TotalSplit
<1>7. Total(v) \in Nat /\ Total(w) \in Nat
  BY TimestampsAreAmounts
<1> HIDE DEF one, here, elsewhere
<1>8. QED
  BY <1>3, <1>4, <1>5, <1>6, <1>7

LEMMA RateInitially == RateInit => RateInv
<1> SUFFICES ASSUME RateInit PROVE RateInv
  OBVIOUS
<1> USE DEF RateInit
<1>1. NoTimestamps \in Timestamps /\ 0 \in Clock
  BY DEF NoTimestamps, Timestamps, Clock
<1>2. RateTypeOK
  <2>1. \A c \in Client : [client |-> c, now |-> 0, lock |-> NoLock, window |-> NoTimestamps] \in Arrival
    BY <1>1 DEF Arrival
  <2>2. came \in [Caller -> Arrival]
    BY <2>1
  <2>3. QED
    BY <1>1, <2>2 DEF RateTypeOK
<1>3. LocksInv
  BY DEF LocksInv
<1>4. WindowsInv /\ ExactInv
  BY <1>1, <1>2 DEF WindowsInv, ExactInv, Agrees, Waits, NoTimestamps, RateTypeOK, Timestamps
<1>5. ASSUME NEW c \in Client, NEW start \in Clock PROVE Total(InSecond(c, start)) <= Rps
  <2>1. InSecond(c, start) = NoTimestamps
    BY DEF InSecond, NoTimestamps
  <2>2. Units(NoTimestamps) = {}
    <3>1. ASSUME NEW u \in Units(NoTimestamps) PROVE FALSE
      <4>1. \E x \in DOMAIN NoTimestamps : \E n \in 1..NoTimestamps[x] : u = <<x, n>>
        BY UnitsOf
      <4>2. QED
        BY <4>1 DEF NoTimestamps
    <3>2. QED
      BY <3>1
  <2>3. Total(NoTimestamps) = 0
    BY <2>2, FS_EmptySet DEF Total
  <2>4. QED
    BY <2>1, <2>3
<1>6. QED
  BY <1>2, <1>3, <1>4, <1>5 DEF RateInv, RateExact, RateHeld, RefusedOnlyWhenFull

\* A verdict on a window that holds what the second before has seen, given to a
\* request nobody of its client is before.
LEMMA VerdictKeeps ==
    ASSUME RateInv, NEW r \in Caller, NEW w \in Timestamps, Decide(r, w),
           step[r] \in {"queued", "loading"},
           UNCHANGED <<came, locks, ticks, overtaken>>,
           \A t \in Clock : /\ w[t] <= granted[came[r].client][t]
                            /\ w[t] # 0 => t + Second > came[r].now,
           came[r].client \notin overtaken =>
              /\ Agrees(came[r].client, w, came[r].now)
              /\ \A q \in Caller : Waits(q, came[r].client) /\ q # r =>
                    step[q] = "queued" /\ came[r].now <= came[q].now
    PROVE  /\ step' \in [Caller -> {"new", "queued", "loading", "ok", "429"}]
           /\ windows' \in [Client -> Timestamps] /\ granted' \in [Client -> Timestamps]
           /\ wrongly' \in BOOLEAN
           /\ WindowsInv' /\ ExactInv' /\ RateExact'
<1> DEFINE c == came[r].client
           now == came[r].now
<1>1. c \in Client /\ now \in Clock /\ ticks \in Clock
  BY DEF RateInv, RateTypeOK, Arrival
<1>2. /\ granted \in [Client -> Timestamps] /\ windows \in [Client -> Timestamps]
      /\ came \in [Caller -> Arrival] /\ overtaken \subseteq Client
      /\ step \in [Caller -> {"new", "queued", "loading", "ok", "429"}] /\ wrongly \in BOOLEAN
  BY DEF RateInv, RateTypeOK
<1>3. Added(w, now) \in Timestamps /\ Added(granted[c], now) \in Timestamps
  BY <1>1, <1>2, KeptType
<1>4. /\ step' \in [Caller -> {"new", "queued", "loading", "ok", "429"}]
      /\ windows' \in [Client -> Timestamps] /\ granted' \in [Client -> Timestamps]
      /\ wrongly' \in BOOLEAN
  <2>1. CASE Total(w) >= Rps
    BY <1>1, <1>2, <2>1 DEF Decide
  <2>2. CASE ~(Total(w) >= Rps)
    <3>1. /\ step' = [step EXCEPT ![r] = "ok"]
          /\ windows' = [windows EXCEPT ![c] = Added(w, now)]
          /\ granted' = [granted EXCEPT ![c] = Added(granted[c], now)] /\ UNCHANGED wrongly
      BY <1>1, <1>2, <2>2 DEF Decide
    <3>2. QED
      BY <1>1, <1>2, <1>3, <3>1
  <2>3. QED
    BY <2>1, <2>2
<1>5. \A v \in Timestamps : \A t \in Clock :
          v[t] \in Nat /\ Added(v, now)[t] = IF t = now THEN v[t] + 1 ELSE v[t]
  BY <1>1 DEF Timestamps, Added
<1>6. /\ \A k \in Client : k # c => windows'[k] = windows[k] /\ granted'[k] = granted[k]
      /\ \A q \in Caller : q # r => step'[q] = step[q]
      /\ step'[r] \in {"ok", "429"}
  BY <1>1, <1>2 DEF Decide
<1>7. \/ windows'[c] = w /\ granted'[c] = granted[c]
      \/ /\ windows'[c] = Added(w, now) /\ granted'[c] = Added(granted[c], now)
         /\ ~(Total(w) >= Rps)
  BY <1>1, <1>2 DEF Decide
<1>8. \A k \in Client : \A t \in Clock : granted[k][t] \in Nat /\ granted[k][t] <= granted'[k][t]
  <2> SUFFICES ASSUME NEW k \in Client, NEW t \in Clock
               PROVE  granted[k][t] \in Nat /\ granted[k][t] <= granted'[k][t]
    OBVIOUS
  <2>1. granted[k][t] \in Nat
    BY <1>2 DEF Timestamps
  <2>2. CASE granted'[k] = granted[k]
    BY <2>1, <2>2
  <2>3. CASE granted'[k] # granted[k]
    <3>1. k = c /\ granted'[k] = Added(granted[k], now)
      BY <1>6, <1>7, <2>3
    <3>2. granted'[k][t] = IF t = now THEN granted[k][t] + 1 ELSE granted[k][t]
      BY <1>2, <1>5, <3>1
    <3>3. QED
      BY <2>1, <3>2
  <2>4. QED
    BY <2>2, <2>3
<1>9. \A t \in Clock : windows'[c][t] <= granted'[c][t]
  BY <1>1, <1>2, <1>5, <1>7
<1>10. WindowsInv'
  <2>1. \A k \in Client, t \in Clock : windows'[k][t] <= granted'[k][t]
    BY <1>6, <1>9 DEF RateInv, WindowsInv
  <2>2. ASSUME NEW q \in Caller, step'[q] = "loading", NEW t \in Clock
        PROVE  /\ came'[q].window[t] <= granted'[came'[q].client][t]
               /\ came'[q].window[t] # 0 => t + Second > came'[q].now
    <3>1. step[q] = "loading"
      BY <1>6, <2>2
    <3>2. /\ came[q].window[t] <= granted[came[q].client][t]
          /\ came[q].window[t] # 0 => t + Second > came[q].now
      BY <3>1 DEF RateInv, WindowsInv
    <3>3. came[q].client \in Client /\ came[q].window[t] \in Nat
      BY <1>2 DEF Arrival, Timestamps
    <3>4. granted[came[q].client][t] \in Nat /\ granted'[came[q].client][t] \in Nat
          /\ granted[came[q].client][t] <= granted'[came[q].client][t]
      BY <1>4, <1>8, <3>3 DEF Timestamps
    <3>5. QED
      BY <3>2, <3>3, <3>4
  <2>3. QED
    BY <2>1, <2>2 DEF WindowsInv
<1>11. ExactInv'
  <2> SUFFICES ASSUME NEW k \in Client, k \notin overtaken
               PROVE  /\ Agrees(k, windows[k], ticks)'
                      /\ \A q \in Caller : Waits(q, k)' =>
                            /\ came'[q].lock = locks'[k] /\ came'[q].now <= ticks'
                            /\ Agrees(k, LocalWindow(q), came[q].now)'
                      /\ \A q, p \in Caller :
                            /\ Waits(q, k)' /\ Waits(p, k)'
                            /\ step'[q] = "queued" /\ step'[p] = "loading"
                            => came'[p].now <= came'[q].now
    BY DEF ExactInv
  <2>1. /\ Agrees(k, windows[k], ticks)
        /\ \A q \in Caller : Waits(q, k) =>
              /\ came[q].lock = locks[k] /\ came[q].now <= ticks
              /\ Agrees(k, LocalWindow(q), came[q].now)
        /\ \A q, p \in Caller :
              /\ Waits(q, k) /\ Waits(p, k)
              /\ step[q] = "queued" /\ step[p] = "loading"
              => came[p].now <= came[q].now
    BY DEF RateInv, ExactInv
  <2>2. \A q \in Caller : Waits(q, k)' => q # r /\ Waits(q, k) /\ step'[q] = step[q]
    BY <1>6 DEF Waits
  <2>3. CASE k # c
    <3>1. windows'[k] = windows[k] /\ granted'[k] = granted[k]
      BY <1>6, <2>3
    <3>2. \A q \in Caller : Waits(q, k) /\ q # r => LocalWindow(q)' = LocalWindow(q)
      BY <1>6, <3>1 DEF LocalWindow, Waits
    <3>3. QED
      BY <2>1, <2>2, <3>1, <3>2 DEF Agrees
  <2>4. CASE k = c
    <3>1. Agrees(c, w, now) /\ now <= ticks
      BY <2>1, <2>4 DEF Waits
    <3>2. \A q \in Caller : Waits(q, k) /\ q # r => step[q] = "queued" /\ now <= came[q].now
      BY <2>4
    <3>3. ASSUME NEW n \in Clock, now <= n
          PROVE  Agrees(c, windows[c], n)'
      <4>1. ASSUME NEW t \in Clock, t + Second > n PROVE windows'[c][t] = granted'[c][t]
        <5>1. w[t] = granted[c][t]
          BY <1>1, <3>1, <3>3, <4>1 DEF Agrees, Clock
        <5>2. QED
          BY <1>1, <1>2, <1>5, <1>7, <5>1
      <4>2. QED
        BY <4>1 DEF Agrees
    <3>4. \A q \in Caller : came[q].now \in Clock
      BY <1>2 DEF Arrival
    <3>5. Agrees(k, windows[k], ticks)'
      BY <1>1, <2>4, <3>1, <3>3 DEF Agrees
    <3>6. ASSUME NEW q \in Caller, Waits(q, k)'
          PROVE  /\ came'[q].lock = locks'[k] /\ came'[q].now <= ticks'
                 /\ Agrees(k, LocalWindow(q), came[q].now)'
      <4>1. step'[q] = "queued" /\ now <= came[q].now /\ came[q].client = c /\ Waits(q, k)
        BY <2>2, <2>4, <3>2, <3>6 DEF Waits
      <4>2. Agrees(c, windows[c], came[q].now)'
        BY <3>3, <3>4, <4>1 DEF Agrees
      <4>3. LocalWindow(q)' = windows'[c]
        BY <4>1 DEF LocalWindow
      <4>4. QED
        BY <2>1, <2>4, <4>1, <4>2, <4>3 DEF Agrees
    <3>7. QED
      BY <2>2, <3>2, <3>5, <3>6
  <2>5. QED
    BY <2>3, <2>4
<1>12. RateHeld'
  <2> SUFFICES ASSUME NEW k \in Client, k \notin overtaken, NEW start \in Clock
               PROVE  Total(InSecond(k, start))' <= Rps
    BY DEF RateHeld
  <2>1. Total(InSecond(k, start)) <= Rps
    BY DEF RateInv, RateExact, RateHeld
  <2>2. /\ InSecond(k, start) \in Timestamps
        /\ InSecond(k, start)' \in Timestamps
    BY <1>2, <1>4 DEF InSecond, Timestamps
  <2>3. CASE granted'[k] = granted[k]
    <3>1. InSecond(k, start)' = InSecond(k, start)
      BY <2>3 DEF InSecond
    <3>2. QED
      BY <2>1, <3>1
  <2>4. CASE granted'[k] # granted[k]
    <3>1. /\ k = c /\ granted'[c] = Added(granted[c], now)
          /\ ~(Total(w) >= Rps)
      BY <1>6, <1>7, <2>4
    <3>2. CASE ~(start <= now /\ now < start + Second)
      <4>1. InSecond(k, start)' = InSecond(k, start)
        <5>1. \A t \in Clock : start <= t /\ t < start + Second => granted'[k][t] = granted[k][t]
          BY <1>1, <1>2, <1>5, <3>1, <3>2
        <5>2. QED
          BY <5>1 DEF InSecond
      <4>2. QED
        BY <2>1, <4>1
    <3>3. CASE start <= now /\ now < start + Second
      <4>1. Agrees(c, w, now)
        BY <3>1
      <4>2. ASSUME NEW t \in Clock
            PROVE  InSecond(k, start)'[t] <= IF t = now THEN w[t] + 1 ELSE w[t]
        <5>1. w[t] \in Nat /\ granted[c][t] \in Nat
          BY <1>1, <1>2, <1>5
        <5>2. CASE start <= t /\ t < start + Second
          <6>1. w[t] = granted[c][t]
            BY <1>1, <3>3, <4>1, <5>2 DEF Agrees, Clock
          <6>2. InSecond(k, start)'[t] = granted'[c][t]
            BY <3>1, <5>2 DEF InSecond
          <6>3. QED
            BY <1>2, <1>5, <1>1, <3>1, <5>1, <6>1, <6>2
        <5>3. CASE ~(start <= t /\ t < start + Second)
          BY <5>1, <5>3 DEF InSecond
        <5>4. QED
          BY <5>2, <5>3
      <4>3. Total(InSecond(k, start)') <= Total(w) + 1
        BY <1>1, <2>2, <4>2, OneMore
      <4>4. Total(w) \in Nat /\ Total(InSecond(k, start)') \in Nat
        BY <2>2, TimestampsAreAmounts
      <4>5. Total(InSecond(k, start))' = Total(InSecond(k, start)')
        BY DEF Total, Units
      <4>6. QED
        BY <3>1, <4>3, <4>4, <4>5
    <3>4. QED
      BY <3>2, <3>3
  <2>5. QED
    BY <2>3, <2>4
<1>13. RefusedOnlyWhenFull'
  <2>1. ~wrongly
    BY DEF RateInv, RateExact, RefusedOnlyWhenFull
  <2>2. Kept(granted[c], now) \in Timestamps
    BY <1>1, <1>2, KeptType
  <2>3. \A t \in Clock : w[t] <= Kept(granted[c], now)[t]
    BY <1>1, <1>2, <1>5 DEF Kept
  <2>4. Total(w) <= Total(Kept(granted[c], now))
    BY <2>2, <2>3, LessIsLess
  <2>5. Total(w) \in Nat /\ Total(Kept(granted[c], now)) \in Nat
    BY <2>2, TimestampsAreAmounts
  <2>6. CASE Total(w) >= Rps
    <3>1. ~(Total(Kept(granted[c], now)) < Rps)
      BY <2>4, <2>5, <2>6
    <3>2. QED
      BY <2>1, <2>6, <3>1 DEF Decide, RefusedOnlyWhenFull
  <2>7. CASE ~(Total(w) >= Rps)
    BY <2>1, <2>7 DEF Decide, RefusedOnlyWhenFull
  <2>8. QED
    BY <2>6, <2>7
<1>14. QED
  BY <1>4, <1>10, <1>11, <1>12, <1>13 DEF RateExact

LEMMA EnterKeeps ==
    ASSUME RateInv, NEW r \in Caller, Enter(r)
    PROVE  RateInv'
<1> DEFINE c == came[r].client
           due == ticks >= last_cleanup + CleanupInterval
           gone == {k \in Client : due /\ StaleKey(k, ticks)}
           mine == IF c \in gone \/ locks[c] = NoLock THEN r ELSE locks[c]
<1>1. /\ step[r] = "new" /\ step' = [step EXCEPT ![r] = "queued"]
      /\ last_cleanup' = IF due THEN ticks ELSE last_cleanup
      /\ windows' = [k \in Client |-> IF k \in gone THEN NoTimestamps ELSE windows[k]]
      /\ locks' = [k \in Client |-> IF k = c THEN mine ELSE IF k \in gone THEN NoLock ELSE locks[k]]
      /\ overtaken' = overtaken \cup {k \in gone : \E q \in Caller \ {r} : Waits(q, k)}
      /\ came' = [came EXCEPT ![r].now = ticks, ![r].lock = mine]
      /\ UNCHANGED <<ticks, held, cached, granted, wrongly>>
  BY DEF Enter
<1>2. /\ c \in Client /\ came \in [Caller -> Arrival] /\ step \in [Caller -> {"new", "queued", "loading", "ok", "429"}]
      /\ ticks \in Clock /\ overtaken \subseteq Client /\ locks \in [Client -> Caller \cup {NoLock}]
      /\ windows \in [Client -> Timestamps] /\ granted \in [Client -> Timestamps]
  BY DEF RateInv, RateTypeOK, Arrival
<1>3. mine \in Caller
  BY <1>2
<1>4. gone \subseteq Client /\ NoTimestamps \in Timestamps
  BY DEF NoTimestamps, Timestamps
<1> HIDE DEF gone, mine
<1>5. /\ came' \in [Caller -> Arrival]
      /\ \A q \in Caller : q # r => came'[q] = came[q] /\ step'[q] = step[q]
      /\ came'[r].client = c /\ came'[r].now = ticks /\ came'[r].lock = mine /\ step'[r] = "queued"
  <2>1. /\ \A q \in Caller : q # r => came'[q] = came[q]
        /\ came' \in [Caller -> {came[q] : q \in Caller} \cup {[came[r] EXCEPT !.now = ticks, !.lock = mine]}]
        /\ came'[r] = [came[r] EXCEPT !.now = ticks, !.lock = mine]
    BY <1>1, <1>2
  <2>2. [came[r] EXCEPT !.now = ticks, !.lock = mine] \in Arrival
    <3>1. came[r] \in Arrival /\ ticks \in Clock /\ mine \in Caller \cup {NoLock}
      BY <1>2, <1>3
    <3>2. QED
      BY <3>1 DEF Arrival
  <2>3. \A q \in Caller : came[q] \in Arrival
    BY <1>2
  <2>4. came' \in [Caller -> Arrival]
    BY <2>1, <2>2, <2>3
  <2>5. came'[r].client = c /\ came'[r].now = ticks /\ came'[r].lock = mine
    BY <1>2, <2>1 DEF Arrival
  <2>6. QED
    BY <1>1, <1>2, <2>1, <2>4, <2>5
<1>6. RateTypeOK'
  <2>1. locks' \in [Client -> Caller \cup {NoLock}] /\ windows' \in [Client -> Timestamps]
    BY <1>1, <1>2, <1>3, <1>4
  <2>2. overtaken' \subseteq Client
    BY <1>1, <1>2, <1>4
  <2>3. QED
    BY <1>1, <1>5, <2>1, <2>2 DEF RateInv, RateTypeOK
<1>7. LocksInv'
  <2>1. ASSUME NEW q \in Caller, step'[q] = "new", NEW k \in Client PROVE locks'[k] # q
    <3>1. q # r /\ step[q] = "new"
      BY <1>5, <2>1
    <3>2. locks[k] # q /\ locks[c] # q
      BY <1>2, <3>1 DEF RateInv, LocksInv
    <3>3. QED
      BY <1>1, <3>1, <3>2 DEF mine
  <2>2. \A q \in Caller : step'[q] = "loading" => q # r /\ step[q] = "loading" /\ came'[q] = came[q]
    BY <1>5
  <2>3. \A q \in Caller : step'[q] # "new" => came'[q].lock \in Caller
    BY <1>3, <1>5 DEF RateInv, LocksInv
  <2>4. ASSUME NEW q \in Caller, step'[q] = "loading" PROVE came'[q].lock \in held'
    <3>1. came'[q] = came[q] /\ step[q] = "loading" /\ held' = held
      BY <1>1, <2>2, <2>4
    <3>2. came[q].lock \in held
      BY <3>1 DEF RateInv, LocksInv
    <3>3. QED
      BY <3>1, <3>2
  <2>5. \A q, p \in Caller :
           step'[q] = "loading" /\ step'[p] = "loading" /\ came'[q].lock = came'[p].lock => q = p
    BY <2>2 DEF RateInv, LocksInv
  <2>6. QED
    BY <2>1, <2>3, <2>4, <2>5 DEF LocksInv
<1>8. WindowsInv'
  <2>1. ASSUME NEW k \in Client, NEW t \in Clock PROVE windows'[k][t] <= granted'[k][t]
    <3>1. windows[k][t] <= granted[k][t] /\ granted[k][t] \in Nat
      BY <1>2 DEF RateInv, WindowsInv, Timestamps
    <3>2. QED
      BY <1>1, <3>1 DEF NoTimestamps
  <2>2. \A q \in Caller : step'[q] = "loading" => q # r /\ step[q] = "loading" /\ came'[q] = came[q]
    BY <1>5
  <2>3. QED
    BY <1>1, <2>1, <2>2 DEF RateInv, WindowsInv
<1>9. ExactInv'
  <2> SUFFICES ASSUME NEW k \in Client, k \notin overtaken'
               PROVE  /\ Agrees(k, windows[k], ticks)'
                      /\ \A q \in Caller : Waits(q, k)' =>
                            /\ came'[q].lock = locks'[k] /\ came'[q].now <= ticks'
                            /\ Agrees(k, LocalWindow(q), came[q].now)'
                      /\ \A q, p \in Caller :
                            /\ Waits(q, k)' /\ Waits(p, k)'
                            /\ step'[q] = "queued" /\ step'[p] = "loading"
                            => came'[p].now <= came'[q].now
    BY DEF ExactInv
  <2>1. k \notin overtaken
    BY <1>1
  <2>2. /\ Agrees(k, windows[k], ticks)
        /\ \A q \in Caller : Waits(q, k) =>
              /\ came[q].lock = locks[k] /\ came[q].now <= ticks
              /\ Agrees(k, LocalWindow(q), came[q].now)
        /\ \A q, p \in Caller :
              /\ Waits(q, k) /\ Waits(p, k)
              /\ step[q] = "queued" /\ step[p] = "loading"
              => came[p].now <= came[q].now
    BY <2>1 DEF RateInv, ExactInv
  <2>3. Agrees(k, windows[k], ticks)'
    <3>1. CASE k \notin gone
      <4>1. windows'[k] = windows[k]
        BY <1>1, <3>1
      <4>2. QED
        BY <1>1, <2>2, <4>1 DEF Agrees
    <3>2. CASE k \in gone
      <4>1. ASSUME NEW t \in Clock, t + Second > ticks PROVE granted[k][t] = 0
        <5>1. windows[k][t] = granted[k][t]
          BY <2>2, <4>1 DEF Agrees
        <5>2. windows[k][t] # 0 => t + 2 * Second < ticks
          BY <3>2 DEF gone, StaleKey
        <5>3. QED
          BY <1>2, <4>1, <5>1, <5>2 DEF Clock
      <4>2. windows'[k] = NoTimestamps
        BY <1>1, <3>2
      <4>3. QED
        BY <1>1, <4>1, <4>2 DEF Agrees, NoTimestamps
    <3>3. QED
      BY <3>1, <3>2
  <2>4. ASSUME NEW q \in Caller, Waits(q, k)', q # r
        PROVE  /\ Waits(q, k) /\ step'[q] = step[q] /\ came'[q] = came[q]
               /\ k \notin gone /\ locks'[k] = locks[k] /\ windows'[k] = windows[k]
    <3>1. Waits(q, k) /\ step'[q] = step[q] /\ came'[q] = came[q]
      BY <1>5, <2>4 DEF Waits
    <3>2. k \notin gone
      BY <1>1, <2>4, <3>1
    <3>3. locks[k] = came[q].lock /\ came[q].lock \in Caller
      BY <2>2, <3>1 DEF RateInv, LocksInv, Waits
    <3>4. locks'[k] = locks[k]
      BY <1>1, <3>2, <3>3 DEF mine
    <3>5. QED
      BY <1>1, <3>1, <3>2, <3>4
  <2>5. ASSUME NEW q \in Caller, Waits(q, k)'
        PROVE  /\ came'[q].lock = locks'[k] /\ came'[q].now <= ticks'
               /\ Agrees(k, LocalWindow(q), came[q].now)'
    <3>1. CASE q = r
      <4>1. k = c /\ locks'[k] = mine /\ LocalWindow(q)' = windows'[k]
        BY <1>1, <1>5, <2>5, <3>1 DEF Waits, LocalWindow
      <4>2. came'[q].lock = mine /\ came'[q].now = ticks /\ ticks' = ticks /\ ticks <= ticks
        BY <1>1, <1>2, <1>5, <3>1 DEF Clock
      <4>3. QED
        BY <2>3, <4>1, <4>2 DEF Agrees
    <3>2. CASE q # r
      <4>1. /\ Waits(q, k) /\ step'[q] = step[q] /\ came'[q] = came[q]
            /\ locks'[k] = locks[k] /\ windows'[k] = windows[k]
        BY <2>4, <2>5, <3>2
      <4>2. LocalWindow(q)' = LocalWindow(q)
        BY <4>1 DEF LocalWindow, Waits
      <4>3. QED
        BY <1>1, <2>2, <4>1, <4>2 DEF Agrees
    <3>3. QED
      BY <3>1, <3>2
  <2>6. ASSUME NEW q \in Caller, NEW p \in Caller, Waits(q, k)', Waits(p, k)',
               step'[q] = "queued", step'[p] = "loading"
        PROVE  came'[p].now <= came'[q].now
    <3>1. p # r
      BY <1>5, <2>6
    <3>2. Waits(p, k) /\ step[p] = "loading" /\ came'[p] = came[p]
      BY <2>4, <2>6, <3>1
    <3>3. CASE q = r
      BY <1>5, <2>2, <3>2, <3>3
    <3>4. CASE q # r
      BY <2>2, <2>4, <2>6, <3>2, <3>4
    <3>5. QED
      BY <3>3, <3>4
  <2>7. QED
    BY <2>3, <2>5, <2>6
<1>10. RateExact'
  <2>1. RateExact /\ overtaken \subseteq overtaken' /\ granted' = granted /\ wrongly' = wrongly
    BY <1>1 DEF RateInv
  <2>2. QED
    BY <2>1 DEF RateExact, RateHeld, RefusedOnlyWhenFull, InSecond, Total, Units
<1>11. QED
  BY <1>6, <1>7, <1>8, <1>9, <1>10 DEF RateInv

LEMMA AdmitKeeps ==
    ASSUME RateInv, NEW r \in Caller, Admit(r)
    PROVE  RateInv'
<1> DEFINE c == came[r].client
           now == came[r].now
           w == Kept(windows[c], now)
<1>1. /\ step[r] = "queued" /\ came[r].lock \notin held /\ FirstInLine(r)
      /\ UNCHANGED <<ticks, locks, last_cleanup, cached, overtaken>>
  BY DEF Admit, Prune
<1>2. /\ c \in Client /\ now \in Clock /\ came \in [Caller -> Arrival]
      /\ step \in [Caller -> {"new", "queued", "loading", "ok", "429"}]
      /\ ticks \in Clock /\ overtaken \subseteq Client /\ locks \in [Client -> Caller \cup {NoLock}]
      /\ windows \in [Client -> Timestamps] /\ granted \in [Client -> Timestamps]
      /\ came[r].lock \in Caller /\ held \subseteq Caller
  BY <1>1 DEF RateInv, RateTypeOK, Arrival, LocksInv
<1>3. w \in Timestamps
  BY <1>2, KeptType
<1>4. \A t \in Clock : /\ w[t] <= granted[c][t] /\ (w[t] # 0 => t + Second > now)
                       /\ (t + Second > now => w[t] = windows[c][t])
  <2>1. \A t \in Clock : windows[c][t] <= granted[c][t] /\ granted[c][t] \in Nat
    BY <1>2 DEF RateInv, WindowsInv, Timestamps
  <2>2. QED
    BY <2>1 DEF Kept
<1>5. c \notin overtaken => /\ Agrees(c, windows[c], now)
                            /\ \A q \in Caller : Waits(q, c) => came[q].lock = came[r].lock /\ came[q].now <= ticks
  BY <1>1, <1>2 DEF RateInv, ExactInv, Waits, LocalWindow
<1> HIDE DEF w
<1>6. c \notin overtaken => Agrees(c, w, now)
  BY <1>4, <1>5 DEF Agrees
<1>7. c \notin overtaken => \A q \in Caller : Waits(q, c) => step[q] = "queued" /\ now <= came[q].now
  <2>1. ASSUME c \notin overtaken, NEW q \in Caller, Waits(q, c)
        PROVE  step[q] = "queued" /\ now <= came[q].now
    <3>1. came[q].lock = came[r].lock
      BY <1>5, <2>1
    <3>2. step[q] # "loading"
      BY <1>1, <3>1 DEF RateInv, LocksInv
    <3>3. step[q] = "queued"
      BY <2>1, <3>2 DEF Waits
    <3>4. came[q].now >= now
      BY <1>1, <3>1, <3>3 DEF FirstInLine
    <3>5. came[q].now \in Clock
      BY <1>2 DEF Arrival
    <3>6. QED
      BY <1>2, <3>3, <3>4, <3>5 DEF Clock
  <2>2. QED
    BY <2>1
<1>8. CASE Decide(r, w) /\ UNCHANGED <<held, came>>
  <2>1. /\ step' \in [Caller -> {"new", "queued", "loading", "ok", "429"}]
        /\ windows' \in [Client -> Timestamps] /\ granted' \in [Client -> Timestamps]
        /\ wrongly' \in BOOLEAN
        /\ WindowsInv' /\ ExactInv' /\ RateExact'
    BY <1>1, <1>3, <1>4, <1>6, <1>7, <1>8, VerdictKeeps
  <2>2. RateTypeOK'
    BY <1>1, <1>8, <2>1 DEF RateInv, RateTypeOK
  <2>3. \A q \in Caller : (q # r => step'[q] = step[q]) /\ step'[r] \in {"ok", "429"}
    BY <1>2, <1>8 DEF Decide
  <2>4. LocksInv'
    BY <1>1, <1>2, <1>8, <2>3 DEF RateInv, LocksInv
  <2>5. QED
    BY <2>1, <2>2, <2>4 DEF RateInv
<1>9. CASE /\ step' = [step EXCEPT ![r] = "loading"]
           /\ held' = held \cup {came[r].lock}
           /\ came' = [came EXCEPT ![r].window = w]
           /\ UNCHANGED <<windows, granted, wrongly>>
  <2>1. /\ came' \in [Caller -> Arrival]
        /\ \A q \in Caller : /\ q # r => step'[q] = step[q] /\ came'[q] = came[q]
                             /\ came'[q].lock = came[q].lock /\ came'[q].now = came[q].now
                             /\ came'[q].client = came[q].client
        /\ step'[r] = "loading" /\ came'[r].window = w
    BY <1>2, <1>3, <1>9 DEF Arrival
  <2>2. RateTypeOK'
    BY <1>1, <1>2, <1>9, <2>1 DEF RateInv, RateTypeOK
  <2>3. LocksInv'
    <3>1. \A q \in Caller : step'[q] = "loading" => came'[q].lock \in held'
      BY <1>9, <2>1 DEF RateInv, LocksInv
    <3>2. ASSUME NEW q \in Caller, NEW p \in Caller, step'[q] = "loading", step'[p] = "loading",
                 came'[q].lock = came'[p].lock
          PROVE  q = p
      BY <1>1, <2>1, <3>2 DEF RateInv, LocksInv
    <3>3. /\ \A q \in Caller : step'[q] = "new" => \A k \in Client : locks'[k] # q
          /\ \A q \in Caller : step'[q] # "new" => came'[q].lock \in Caller
      BY <1>1, <1>2, <2>1 DEF RateInv, LocksInv
    <3>4. QED
      BY <3>1, <3>2, <3>3 DEF LocksInv
  <2>4. WindowsInv'
    BY <1>4, <1>9, <2>1 DEF RateInv, WindowsInv
  <2>5. ExactInv'
    <3> SUFFICES ASSUME NEW k \in Client, k \notin overtaken
                 PROVE  /\ Agrees(k, windows[k], ticks)'
                        /\ \A q \in Caller : Waits(q, k)' =>
                              /\ came'[q].lock = locks'[k] /\ came'[q].now <= ticks'
                              /\ Agrees(k, LocalWindow(q), came[q].now)'
                        /\ \A q, p \in Caller :
                              /\ Waits(q, k)' /\ Waits(p, k)'
                              /\ step'[q] = "queued" /\ step'[p] = "loading"
                              => came'[p].now <= came'[q].now
      BY <1>1 DEF ExactInv
    <3>1. /\ Agrees(k, windows[k], ticks)
          /\ \A q \in Caller : Waits(q, k) =>
                /\ came[q].lock = locks[k] /\ came[q].now <= ticks
                /\ Agrees(k, LocalWindow(q), came[q].now)
          /\ \A q, p \in Caller :
                /\ Waits(q, k) /\ Waits(p, k)
                /\ step[q] = "queued" /\ step[p] = "loading"
                => came[p].now <= came[q].now
      BY DEF RateInv, ExactInv
    <3>2. \A q \in Caller : Waits(q, k)' => Waits(q, k) /\ (q = r => k = c)
      BY <1>1, <2>1 DEF Waits
    <3>3. ASSUME NEW q \in Caller, Waits(q, k)'
          PROVE  Agrees(k, LocalWindow(q), came[q].now)'
      <4>1. CASE q = r
        BY <1>6, <1>9, <2>1, <3>2, <3>3, <4>1 DEF Agrees, LocalWindow
      <4>2. CASE q # r
        <5>1. Waits(q, k) /\ LocalWindow(q)' = LocalWindow(q) /\ came'[q].now = came[q].now
          BY <1>9, <2>1, <3>2, <3>3, <4>2 DEF LocalWindow
        <5>2. QED
          BY <1>9, <3>1, <5>1 DEF Agrees
      <4>3. QED
        BY <4>1, <4>2
    <3>4. ASSUME NEW q \in Caller, NEW p \in Caller, Waits(q, k)', Waits(p, k)',
                 step'[q] = "queued", step'[p] = "loading"
          PROVE  came'[p].now <= came'[q].now
      BY <1>7, <2>1, <3>1, <3>2, <3>4 DEF Waits
    <3>5. Agrees(k, windows[k], ticks)'
      BY <1>1, <1>9, <3>1 DEF Agrees
    <3>6. QED
      BY <1>1, <2>1, <3>1, <3>2, <3>3, <3>4, <3>5
  <2>6. RateExact'
    BY <1>1, <1>9 DEF RateInv, RateExact, RateHeld, RefusedOnlyWhenFull, InSecond, Total, Units
  <2>7. QED
    BY <2>2, <2>3, <2>4, <2>5, <2>6 DEF RateInv
<1>10. QED
  BY <1>8, <1>9 DEF Admit, Prune, w

LEMMA LoadKeeps ==
    ASSUME RateInv, NEW r \in Caller, LimitLoaded(r)
    PROVE  RateInv'
<1> DEFINE c == came[r].client
           now == came[r].now
           w == came[r].window
<1>1. /\ step[r] = "loading" /\ Decide(r, w)
      /\ cached' = (cached \/ InRow) /\ held' = held \ {came[r].lock}
      /\ UNCHANGED <<ticks, locks, last_cleanup, came, overtaken>>
  BY DEF LimitLoaded
<1>2. /\ c \in Client /\ now \in Clock /\ w \in Timestamps /\ came \in [Caller -> Arrival]
      /\ step \in [Caller -> {"new", "queued", "loading", "ok", "429"}] /\ cached \in BOOLEAN
  BY DEF RateInv, RateTypeOK, Arrival
<1>3. \A t \in Clock : w[t] <= granted[c][t] /\ (w[t] # 0 => t + Second > now)
  BY <1>1 DEF RateInv, WindowsInv
<1>4. c \notin overtaken =>
         /\ Agrees(c, w, now)
         /\ \A q \in Caller : Waits(q, c) /\ q # r => step[q] = "queued" /\ now <= came[q].now
  <2>1. ASSUME c \notin overtaken
        PROVE  /\ Waits(r, c)
               /\ \A q \in Caller : Waits(q, c) =>
                    /\ came[q].lock = locks[c]
                    /\ Agrees(c, LocalWindow(q), came[q].now)
                    /\ step[q] = "queued" => now <= came[q].now
    BY <1>1, <1>2, <2>1 DEF RateInv, ExactInv, Waits
  <2>2. LocalWindow(r) = w
    BY <1>1 DEF LocalWindow
  <2>3. ASSUME c \notin overtaken, NEW q \in Caller, Waits(q, c), q # r PROVE step[q] = "queued"
    BY <1>1, <2>1, <2>3 DEF RateInv, LocksInv, Waits
  <2>4. QED
    BY <2>1, <2>2, <2>3
<1>5. /\ step' \in [Caller -> {"new", "queued", "loading", "ok", "429"}]
      /\ windows' \in [Client -> Timestamps] /\ granted' \in [Client -> Timestamps]
      /\ wrongly' \in BOOLEAN
      /\ WindowsInv' /\ ExactInv' /\ RateExact'
  BY <1>1, <1>2, <1>3, <1>4, VerdictKeeps
<1>6. RateTypeOK'
  BY <1>1, <1>2, <1>5 DEF RateInv, RateTypeOK
<1>7. \A q \in Caller : (q # r => step'[q] = step[q]) /\ step'[r] \in {"ok", "429"}
  BY <1>1, <1>2 DEF Decide
<1>8. LocksInv'
  <2>1. ASSUME NEW q \in Caller, step'[q] = "loading" PROVE came'[q].lock \in held'
    BY <1>1, <1>7, <2>1 DEF RateInv, LocksInv
  <2>2. QED
    BY <1>1, <1>7, <2>1 DEF RateInv, LocksInv
<1>9. QED
  BY <1>5, <1>6, <1>8 DEF RateInv

LEMMA TickKeeps ==
    ASSUME RateInv, TickRate
    PROVE  RateInv'
<1> USE DEF TickRate
<1>1. ticks \in Clock /\ ticks' \in Clock /\ ticks <= ticks' /\ came \in [Caller -> Arrival]
  BY DEF RateInv, RateTypeOK, Clock
<1>2. RateTypeOK' /\ LocksInv' /\ WindowsInv'
  BY <1>1 DEF RateInv, RateTypeOK, LocksInv, WindowsInv
<1>3. RateExact'
  BY DEF RateInv, RateExact, RateHeld, RefusedOnlyWhenFull, InSecond, Total, Units
<1>4. \A c \in Client : Agrees(c, windows[c], ticks) => Agrees(c, windows[c], ticks)'
  BY <1>1 DEF Agrees, Clock
<1>5. \A q \in Caller, c \in Client :
         /\ Waits(q, c)' <=> Waits(q, c)
         /\ Agrees(c, LocalWindow(q), came[q].now)' <=> Agrees(c, LocalWindow(q), came[q].now)
  BY DEF Waits, Agrees, LocalWindow
<1>6. \A q \in Caller : came[q].now <= ticks => came'[q].now <= ticks'
  BY <1>1 DEF Clock, Arrival
<1>7. ExactInv'
  BY <1>4, <1>5, <1>6 DEF RateInv, ExactInv
<1>8. QED
  BY <1>2, <1>3, <1>7 DEF RateInv

LEMMA RateStep == RateInv /\ [RateNext]_rateVars => RateInv'
<1> SUFFICES ASSUME RateInv, [RateNext]_rateVars PROVE RateInv'
  OBVIOUS
<1>1. CASE UNCHANGED rateVars
  BY <1>1 DEF rateVars, RateInv, RateTypeOK, LocksInv, WindowsInv, ExactInv, Agrees, LocalWindow,
              Waits, RateExact, RateHeld, RefusedOnlyWhenFull, InSecond, Total, Units
<1>2. QED
  BY <1>1, EnterKeeps, AdmitKeeps, LoadKeeps, TickKeeps DEF RateNext

(* RateExact. *)
THEOREM RateLimitIsExact == RateSpec => [](RateTypeOK /\ RateExact)
<1>1. RateInv => RateTypeOK /\ RateExact
  BY DEF RateInv
<1>2. QED
  BY <1>1, RateInitially, RateStep, PTL DEF RateSpec

-----------------------------------------------------------------------------
(* IPCChannel. *)

USE ChannelAssumption

\* A reply to a call stands for work that was done.
SoundPart == {p \in Parts : p.kind = "resp" /\ p.id \in Call => p.id \in served}

ChannelInv ==
    /\ ChannelTypeOK
    /\ to_client \in Seq(SoundPart)
    /\ OwnReply /\ OnlyAdvertised
    /\ sidecar_end = "greeted" => uid_allowed
    /\ timed_out => ~connected

-----------------------------------------------------------------------------
\* The client's steps: what is served stays, what it reads it takes from the
\* front of the stream.
LEMMA ClientKeeps ==
    ASSUME ChannelInv, NEW r \in Call \cup {Hello},
           Ask(r) \/ TakeTurn(r) \/ Write(r) \/ WriteFails(r) \/ ReadHeader(r)
           \/ ReadGarbage(r) \/ Receive(r) \/ ReadTruncated(r) \/ Timeout(r) \/ CancelCall(r)
    PROVE  ChannelInv'
<1>1. /\ ChannelTypeOK /\ to_client \in Seq(SoundPart) /\ OwnReply /\ OnlyAdvertised
      /\ sidecar_end = "greeted" => uid_allowed
      /\ timed_out => ~connected
  BY DEF ChannelInv
<1>2. UNCHANGED <<sidecar_end, uid_allowed, served>>
  BY DEF Ask, TakeTurn, Write, WriteFails, ReadHeader, ReadGarbage, Receive, ReadTruncated, Timeout,
         CancelCall
<1>3. SoundPart' = SoundPart /\ SoundPart \subseteq Parts
  BY <1>2 DEF SoundPart
<1>4. to_client' \in Seq(SoundPart)
  <2>1. CASE UNCHANGED to_client
    BY <1>1, <2>1
  <2>2. CASE to_client # <<>> /\ to_client' = Tail(to_client)
    BY <1>1, <2>2, HeadTailProperties
  <2>3. ASSUME NEW n \in 1..Len(to_client), to_client' = SubSeq(to_client, n + 1, Len(to_client))
        PROVE  to_client' \in Seq(SoundPart)
    <3>1. Len(to_client) \in Nat /\ \A i \in 1..Len(to_client) : to_client[i] \in SoundPart
      BY <1>1, ElementOfSeq, LenProperties
    <3>2. \A i \in n + 1..Len(to_client) : to_client[i] \in SoundPart
      BY <3>1
    <3>3. QED
      BY <2>3, <3>1, <3>2, SubSeqProperties
  <2>4. QED
    BY <2>1, <2>2, <2>3
    DEF Ask, TakeTurn, Write, WriteFails, ReadHeader, ReadGarbage, Receive, ReadTruncated, Timeout,
        CancelCall
<1>5. to_client' \in Seq(Parts)
  BY <1>3, <1>4, SeqMonotonic
<1>6. to_sidecar' \in Seq(Ids)
  <2>1. r \in Ids /\ to_sidecar \in Seq(Ids)
    BY <1>1 DEF Ids, ChannelTypeOK
  <2>2. Append(to_sidecar, r) \in Seq(Ids)
    BY <2>1, AppendProperties
  <2>3. QED
    BY <2>1, <2>2
    DEF Ask, TakeTurn, Write, WriteFails, ReadHeader, ReadGarbage, Receive, ReadTruncated, Timeout,
        CancelCall
<1>7. CASE ~Receive(r)
  <2>1. /\ turn' \in Ids \cup {Silence}
        /\ asked' \in [Call \cup {Hello} -> AskedStates]
        /\ answer' \in [Call \cup {Hello} -> Ids \cup {Silence}]
        /\ connected' \in BOOLEAN /\ timed_out' \in BOOLEAN
    BY <1>1, <1>7
    DEF ChannelTypeOK, Ids, AskedStates, Becomes, Given, Fails, EndsTurn, Ask, TakeTurn, Write,
        WriteFails, ReadHeader, ReadGarbage, ReadTruncated, Timeout, CancelCall
  <2>2. \A q \in Call \cup {Hello} : asked'[q] = "done" => asked[q] = "done" /\ answer'[q] = answer[q]
    BY <1>1, <1>7
    DEF ChannelTypeOK, Becomes, Given, Fails, EndsTurn, Ask, TakeTurn, Write,
        WriteFails, ReadHeader, ReadGarbage, ReadTruncated, Timeout, CancelCall
  <2>3. timed_out' => ~connected'
    BY <1>1, <1>7
    DEF Fails, EndsTurn, Ask, TakeTurn, Write,
        WriteFails, ReadHeader, ReadGarbage, ReadTruncated, Timeout, CancelCall
  <2>4. ChannelTypeOK'
    BY <1>1, <1>2, <1>5, <1>6, <2>1 DEF ChannelTypeOK
  <2>5. OwnReply' /\ OnlyAdvertised'
    BY <1>1, <1>2, <2>2 DEF OwnReply, OnlyAdvertised
  <2>6. QED
    BY <1>1, <1>2, <1>3, <1>4, <2>3, <2>4, <2>5 DEF ChannelInv
<1>8. CASE Receive(r)
  <2> DEFINE frame == Head(to_client)
  <2>1. /\ asked[r] = "body" /\ to_client # <<>>
        /\ IF frame.kind = "resp" /\ Mine(r, frame)
           THEN /\ asked' = [asked EXCEPT ![r] = "done"]
                /\ Given(r, frame.id)
                /\ EndsTurn(r)
           ELSE Fails(r, frame.id)
        /\ connected' = (connected /\ (r = Hello => asked'[r] = "done"))
        /\ UNCHANGED <<to_sidecar, sidecar_end, uid_allowed, served, timed_out, cancels>>
    BY <1>8 DEF Receive
  <2>2. frame \in SoundPart
    BY <1>1, <2>1, HeadTailProperties
  <2>3. frame.id \in Ids
    BY <2>2 DEF SoundPart, Parts
  <2> HIDE DEF frame
  <2>4. /\ turn' \in Ids \cup {Silence}
        /\ asked' \in [Call \cup {Hello} -> AskedStates]
        /\ answer' \in [Call \cup {Hello} -> Ids \cup {Silence}]
        /\ connected' \in BOOLEAN /\ timed_out' \in BOOLEAN
    BY <1>1, <2>1, <2>3 DEF ChannelTypeOK, AskedStates, Given, Fails, EndsTurn
  <2>5. ChannelTypeOK'
    BY <1>1, <1>2, <1>5, <1>6, <2>4 DEF ChannelTypeOK
  <2>6. ASSUME NEW q \in Call, asked'[q] = "done"
        PROVE  answer'[q] = q /\ q \in served
    <3>1. CASE q = r
      <4>1. frame.kind = "resp" /\ frame.id = r /\ answer'[r] = frame.id
        BY <1>1, <2>1, <2>6, <3>1 DEF ChannelTypeOK, Mine, Given, Fails
      <4>2. QED
        BY <2>2, <3>1, <4>1 DEF SoundPart
    <3>2. CASE q # r
      BY <1>1, <2>1, <2>6, <3>2 DEF ChannelTypeOK, Given, Fails, OwnReply
    <3>3. QED
      BY <3>1, <3>2
  <2>7. OwnReply' /\ OnlyAdvertised'
    BY <1>1, <1>2, <2>6 DEF OwnReply, OnlyAdvertised
  <2>8. timed_out' => ~connected'
    BY <1>1, <2>1
  <2>9. QED
    BY <1>1, <1>2, <1>3, <1>4, <2>5, <2>7, <2>8 DEF ChannelInv
<1>9. QED
  BY <1>7, <1>8

\* A reply to what is refused, to the handshake, or to work that was done.
LEMMA ReplyIsSound ==
    ASSUME ChannelInv, NEW id \in Ids, NEW kind \in {"resp", "err"}, Reply(id, kind),
           served \subseteq served', kind = "resp" /\ id \in Call => id \in served'
    PROVE  to_client' \in Seq(SoundPart') /\ to_client' \in Seq(Parts)
<1> DEFINE header == [id |-> id, part |-> "header", kind |-> kind]
           body == [id |-> id, part |-> "body", kind |-> kind]
<1>1. header \in SoundPart' /\ body \in SoundPart'
  BY DEF SoundPart, Parts
<1>2. SoundPart \subseteq SoundPart' /\ SoundPart' \subseteq Parts
  BY DEF SoundPart
<1>3. to_client \in Seq(SoundPart')
  BY <1>2, SeqMonotonic DEF ChannelInv
<1>4. <<header, body>> \in Seq(SoundPart')
  BY <1>1
<1>5. to_client' = to_client \o <<header, body>>
  BY DEF Reply
<1> HIDE DEF header, body
<1>6. to_client' \in Seq(SoundPart')
  BY <1>3, <1>4, <1>5, ConcatProperties
<1>7. QED
  BY <1>2, <1>6, SeqMonotonic

LEMMA SidecarKeeps ==
    ASSUME ChannelInv,
           Authenticate \/ Greet \/ DispatchOp \/ DispatchFails \/ BadFrame \/ CloseSidecar
    PROVE  ChannelInv'
<1>1. /\ ChannelTypeOK /\ to_client \in Seq(SoundPart) /\ OwnReply /\ OnlyAdvertised
      /\ sidecar_end = "greeted" => uid_allowed
      /\ timed_out => ~connected
      /\ to_sidecar \in Seq(Ids) /\ to_client \in Seq(Parts)
  BY DEF ChannelInv, ChannelTypeOK
<1>2. UNCHANGED <<turn, asked, answer, connected, uid_allowed, timed_out, cancels>>
  BY DEF Authenticate, Greet, DispatchOp, DispatchFails, BadFrame, CloseSidecar, RefusePeer
<1>3. to_sidecar # <<>> => Head(to_sidecar) \in Ids /\ Tail(to_sidecar) \in Seq(Ids)
  BY <1>1, HeadTailProperties
<1>4. <<>> \in Seq(Ids)
  BY EmptySeq
<1>5. SUFFICES /\ to_client' \in Seq(SoundPart') /\ to_client' \in Seq(Parts)
               /\ to_sidecar' \in Seq(Ids)
               /\ sidecar_end' \in {"greeted", "closed"}
               /\ sidecar_end' = "greeted" => uid_allowed
               /\ served \subseteq served' /\ served' \subseteq Caps
               /\ served' # {} => uid_allowed
  <2>1. OwnReply' /\ OnlyAdvertised'
    BY <1>1, <1>2, <1>5 DEF OwnReply, OnlyAdvertised
  <2>2. ChannelTypeOK'
    BY <1>1, <1>2, <1>5 DEF ChannelTypeOK
  <2>3. QED
    BY <1>1, <1>2, <1>5, <2>1, <2>2 DEF ChannelInv
<1>6. ASSUME NEW id \in Ids, RefusePeer(id), served' = served
      PROVE  /\ to_client' \in Seq(SoundPart') /\ to_client' \in Seq(Parts)
             /\ to_sidecar' \in Seq(Ids) /\ sidecar_end' = "closed"
  <2>1. Reply(id, "err")
    BY <1>6 DEF RefusePeer
  <2>2. to_client' \in Seq(SoundPart') /\ to_client' \in Seq(Parts)
    BY <1>6, <2>1, ReplyIsSound
  <2>3. QED
    BY <1>4, <1>6, <2>2 DEF RefusePeer
<1>7. CASE Authenticate \/ DispatchFails \/ BadFrame
  <2>1. PICK id \in Ids : RefusePeer(id)
    BY <1>3, <1>7 DEF Authenticate, DispatchFails, BadFrame, Ids
  <2>2. served' = served
    BY <2>1 DEF RefusePeer
  <2>3. QED
    BY <1>1, <1>6, <2>1, <2>2 DEF OnlyAdvertised
<1>8. CASE Greet
  <2>1. Reply(Hello, "resp") /\ served' = served /\ Hello \in Ids /\ Hello \notin Call
    BY <1>8 DEF Greet, Ids
  <2>2. to_client' \in Seq(SoundPart') /\ to_client' \in Seq(Parts)
    BY <2>1, ReplyIsSound
  <2>3. QED
    BY <1>1, <1>3, <1>8, <2>2 DEF Greet, OnlyAdvertised
<1>9. CASE DispatchOp
  <2> DEFINE id == Head(to_sidecar)
  <2>1. /\ id \in Caps /\ id \in Ids /\ Reply(id, "resp") /\ served' = served \cup {id}
        /\ to_sidecar' = Tail(to_sidecar) /\ to_sidecar # <<>>
        /\ sidecar_end = "greeted" /\ sidecar_end' = sidecar_end
    BY <1>3, <1>9 DEF DispatchOp, Allowed
  <2> HIDE DEF id
  <2>2. to_client' \in Seq(SoundPart') /\ to_client' \in Seq(Parts)
    BY <2>1, ReplyIsSound
  <2>3. QED
    BY <1>1, <1>3, <2>1, <2>2 DEF OnlyAdvertised
<1>10. CASE CloseSidecar
  <2>1. SoundPart' = SoundPart
    BY <1>10 DEF CloseSidecar, SoundPart
  <2>2. QED
    BY <1>1, <1>10, <2>1 DEF CloseSidecar, OnlyAdvertised
<1>11. QED
  BY <1>7, <1>8, <1>9, <1>10

LEMMA ChannelStep == ChannelInv /\ [ChannelNext]_channelVars => ChannelInv'
<1> SUFFICES ASSUME ChannelInv, [ChannelNext]_channelVars PROVE ChannelInv'
  OBVIOUS
<1>1. CASE UNCHANGED channelVars
  BY <1>1 DEF channelVars, ChannelInv, ChannelTypeOK, SoundPart, OwnReply, OnlyAdvertised
<1>2. CASE ChannelNext
  BY <1>2, ClientKeeps, SidecarKeeps DEF ChannelNext
<1>3. QED
  BY <1>1, <1>2

(* ChannelKept. *)
THEOREM ChannelIsKept == ChannelSpec => ChannelKept
<1>1. ChannelInit => ChannelInv
  <2> SUFFICES ASSUME ChannelInit PROVE ChannelInv
    OBVIOUS
  <2>1. <<>> \in Seq(Ids) /\ <<>> \in Seq(Parts) /\ <<>> \in Seq(SoundPart)
    BY EmptySeq
  <2>2. ChannelTypeOK
    BY <2>1 DEF ChannelInit, ChannelTypeOK, AskedStates, Ids
  <2>3. QED
    BY <2>1, <2>2 DEF ChannelInit, ChannelInv, OwnReply, OnlyAdvertised
<1>2. ChannelInv /\ [ChannelNext]_channelVars
        => [timed_out /\ to_sidecar' # to_sidecar => Len(to_sidecar') < Len(to_sidecar)]_channelVars
  <2> SUFFICES ASSUME ChannelInv, ChannelNext, timed_out, to_sidecar' # to_sidecar
               PROVE  Len(to_sidecar') < Len(to_sidecar)
    BY DEF channelVars
  <2>1. ~connected /\ to_sidecar \in Seq(Ids)
    BY DEF ChannelInv, ChannelTypeOK
  <2>2. to_sidecar # <<>> =>
           /\ Len(to_sidecar) \in Nat /\ Len(to_sidecar) > 0
           /\ Len(Tail(to_sidecar)) = Len(to_sidecar) - 1 /\ Len(<<>>) = 0
    BY <2>1, HeadTailProperties, EmptySeq, LenProperties
  <2>3. \/ to_sidecar # <<>> /\ to_sidecar' = Tail(to_sidecar)
        \/ to_sidecar' = <<>>
    BY <2>1
    DEF ChannelNext, Ask, TakeTurn, Write, WriteFails, ReadHeader, ReadGarbage, Receive,
        ReadTruncated, Timeout, CancelCall, Authenticate, Greet, DispatchOp, DispatchFails,
        BadFrame, CloseSidecar, RefusePeer
  <2>4. QED
    BY <2>2, <2>3
<1>3. ChannelInv => OwnReply /\ OnlyAdvertised
  BY DEF ChannelInv
<1>4. QED
  BY <1>1, <1>2, <1>3, ChannelStep, PTL DEF ChannelSpec, ChannelKept, NoReuseAfterTimeout

=============================================================================
