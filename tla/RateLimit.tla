------------------------------ MODULE RateLimit ------------------------------
(***************************************************************************)
(* RateLimitRule of proxy/rules.py: a sliding window per (alias, client),   *)
(* an asyncio lock per window, and a cleanup that any request may run and    *)
(* that drops windows and locks of keys it finds stale.                      *)
(*                                                                          *)
(* Time is counted in ticks, Second of them to the second.  A coroutine      *)
(* gives way only where it awaits: at a lock that is taken, and in           *)
(* _load_limit, which runs on every request of an alias whose row has no     *)
(* limit, because only a limit that is there is cached.  The lists of        *)
(* timestamps are counts: only retry_after looks at their order.             *)
(***************************************************************************)
EXTENDS Integers, Totals

CONSTANTS
  Caller, Client,   \* requests, and the (alias, client) pairs they come from
  NoLock,
  Second,            \* ticks to the second
  CleanupInterval,   \* cleanup_interval, in ticks
  Rps,               \* the limit that applies
  InRow,             \* the alias's row names it: it is cached after the first load
  MaxTime            \* bound on the clock

ASSUME RateAssumption ==
  /\ NoLock \notin Caller
  /\ Second \in Nat \ {0} /\ CleanupInterval \in Nat /\ Rps \in Nat \ {0}
  /\ InRow \in BOOLEAN /\ MaxTime \in Nat

VARIABLES
  ticks,         \* time.monotonic()
  windows,       \* _windows
  locks,         \* _locks: the request that created the lock object
  held,          \* the lock objects that are taken
  last_cleanup,  \* _last_cleanup
  cached,        \* the alias is in _limits
  step,          \* where each request is
  came,          \* its client, its `now`, the lock it waits on, and its local `window`
  overtaken,     \* history: clients whose lock a cleanup dropped under a waiting request
  granted,       \* history: the requests of each client let through, by their `now`
  wrongly        \* history: a 429 without Rps requests let through in the second before

rateVars == <<ticks, windows, locks, held, last_cleanup, cached, step, came, overtaken, granted, wrongly>>

Clock == 0..MaxTime
Timestamps == [Clock -> Nat]
NoTimestamps == [t \in Clock |-> 0]
Arrival == [client : Client, now : Clock, lock : Caller \cup {NoLock}, window : Timestamps]

RateTypeOK ==
  /\ ticks \in Clock /\ last_cleanup \in Clock /\ cached \in BOOLEAN
  /\ windows \in [Client -> Timestamps]
  /\ locks \in [Client -> Caller \cup {NoLock}]
  /\ held \subseteq Caller
  /\ step \in [Caller -> {"new", "queued", "loading", "ok", "429"}]
  /\ came \in [Caller -> Arrival]
  /\ wrongly \in BOOLEAN /\ overtaken \subseteq Client
  /\ granted \in [Client -> Timestamps]

RateInit ==
  /\ ticks = 0 /\ last_cleanup = 0 /\ cached = FALSE
  /\ windows = [c \in Client |-> NoTimestamps] /\ locks = [c \in Client |-> NoLock]
  /\ held = {}
  /\ step = [r \in Caller |-> "new"]
  /\ came \in [Caller -> {[client |-> c, now |-> 0, lock |-> NoLock, window |-> NoTimestamps] : c \in Client}]
  /\ overtaken = {} /\ granted = [c \in Client |-> NoTimestamps] /\ wrongly = FALSE

\* _cleanup: keys all of whose timestamps are two seconds old
StaleKey(c, now) ==
  /\ windows[c] # NoTimestamps
  /\ \A t \in Clock : windows[c][t] # 0 => t + 2 * Second < now

\* What the second before now has seen
Kept(w, now) == [t \in Clock |-> IF t + Second > now THEN w[t] ELSE 0]
Added(w, now) == [w EXCEPT ![now] = @ + 1]

Waits(q, k) == step[q] \in {"queued", "loading"} /\ came[q].client = k

\* evaluate, up to `async with`: the clock, the cleanup when it is due, the lock of the key
Enter(r) ==
  LET c == came[r].client
      due == ticks >= last_cleanup + CleanupInterval
      gone == {k \in Client : due /\ StaleKey(k, ticks)}
      mine == IF c \in gone \/ locks[c] = NoLock THEN r ELSE locks[c]
  IN /\ step[r] = "new" /\ step' = [step EXCEPT ![r] = "queued"]
     /\ last_cleanup' = IF due THEN ticks ELSE last_cleanup
     /\ windows' = [k \in Client |-> IF k \in gone THEN NoTimestamps ELSE windows[k]]
     /\ locks' = [k \in Client |-> IF k = c THEN mine ELSE IF k \in gone THEN NoLock ELSE locks[k]]
     /\ overtaken' = overtaken \cup {k \in gone : \E q \in Caller \ {r} : Waits(q, k)}
     /\ came' = [came EXCEPT ![r].now = ticks, ![r].lock = mine]
     /\ UNCHANGED <<ticks, held, cached, granted, wrongly>>

\* The verdict: the limit is known, w is the local window
Decide(r, w) ==
  LET c == came[r].client
      now == came[r].now
  IN IF Total(w) >= Rps
     THEN /\ step' = [step EXCEPT ![r] = "429"] /\ windows' = [windows EXCEPT ![c] = w]
          /\ wrongly' = (wrongly \/ Total(Kept(granted[c], now)) < Rps)
          /\ UNCHANGED granted
     ELSE /\ step' = [step EXCEPT ![r] = "ok"] /\ windows' = [windows EXCEPT ![c] = Added(w, now)]
          /\ granted' = [granted EXCEPT ![c] = Added(@, now)] /\ UNCHANGED wrongly

\* An asyncio.Lock is handed on in the order in which it was asked for.
FirstInLine(r) ==
  \A q \in Caller :
    step[q] = "queued" /\ came[q].lock = came[r].lock => came[q].now >= came[r].now

\* Inside the lock: prune, and either decide at once or await _load_limit
Prune(r) ==
  LET w == Kept(windows[came[r].client], came[r].now) IN
  /\ \/ /\ cached /\ Decide(r, w) /\ UNCHANGED <<held, came>>
     \/ /\ ~cached /\ step' = [step EXCEPT ![r] = "loading"]
        /\ held' = held \cup {came[r].lock}
        /\ came' = [came EXCEPT ![r].window = w]
        /\ UNCHANGED <<windows, granted, wrongly>>
  /\ UNCHANGED <<ticks, locks, last_cleanup, cached, overtaken>>

\* Mutant
AdmitUnlocked(r) == step[r] = "queued" /\ FirstInLine(r) /\ Prune(r)

Admit(r) == step[r] = "queued" /\ came[r].lock \notin held /\ FirstInLine(r) /\ Prune(r)

\* _load_limit has answered
LimitLoaded(r) ==
  /\ step[r] = "loading" /\ Decide(r, came[r].window)
  /\ cached' = (cached \/ InRow) /\ held' = held \ {came[r].lock}
  /\ UNCHANGED <<ticks, locks, last_cleanup, came, overtaken>>

TickRate == ticks < MaxTime /\ ticks' = ticks + 1
        /\ UNCHANGED <<windows, locks, held, last_cleanup, cached, step, came, overtaken, granted, wrongly>>

RateNext == (\E r \in Caller : Enter(r) \/ Admit(r) \/ LimitLoaded(r)) \/ TickRate
RateSpec == RateInit /\ [][RateNext]_rateVars

\* A client is refused only when Rps of its requests were let through in the second before
\* it came, whichever windows and locks were cleaned up in the meantime
\* (RateLimitRule: "Returns 429 ... when rate is exceeded").
RefusedOnlyWhenFull == ~wrongly

\* The requests of a client let through in the second that starts at start
InSecond(c, start) ==
  [t \in Clock |-> IF start <= t /\ t < start + Second THEN granted[c][t] ELSE 0]

\* No more than Rps requests of one client are let through in a second, unless a cleanup
\* dropped its window and lock while a request of it was inside or queued.
RateHeld ==
  \A c \in Client \ overtaken : \A start \in Clock : Total(InSecond(c, start)) <= Rps

\* RateLimitRule lets through what the limit allows, no more and no less.
RateExact == RateHeld /\ RefusedOnlyWhenFull

=============================================================================
