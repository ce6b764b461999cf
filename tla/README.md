# Worthless, verified

TLA+ models of [Worthless](../src/README.md), a proxy that makes a leaked API
key useless: the key in the user's `.env` is replaced by one of two shards, the
other one is encrypted in a local database, and only the proxy, after its
spending rules have let a request pass, puts the two together and calls the
provider.

The implementation is `src/src/worthless/` (Python, asyncio, SQLite). The
models follow its code step by step where order matters and leave out what no
property depends on: HTTP, JSON, cryptography, wording, logging.

1. [Inventory](#inventory): what the system consists of
2. [Plan](#plan): what is modelled, and what comes next
3. [Modules](#modules): how state and actions correspond to the code
4. [Runs](#runs): what each model-checking run shows, bounds, fairness
5. [Proofs](#proofs): what holds for every value of the constants, and why
6. [Findings](#findings): where the code does not do what it says
7. [Limits](#limits): what is only model-checked, and what is not modelled

To check something by hand, in this directory:

    tlc -workers 2 -config MCCommands.cfg MCCommands.tla
    tlapm CommandsProofs.tla

`PROJECT.json` lists the runs, the theorems, the code each definition stands
for (`map`), the hazards the properties are aimed at, and for every property a
plausible bug (`mutants`) that TLC catches with it.

## Inventory

### The proxy (a long-running asyncio process)

**Spend ledger** — `storage/spend_ledger.py`. State: the tables
`pending_charges` (one row per hold) and `spend_log` (one row per charge) in
SQLite, reached through one shared `aiosqlite` connection and one
`asyncio.Lock`. Operations: `hold` (admit a request if committed + held +
estimate fits under its cap), `settle`, `settle_at_estimate`, `refund`, `sweep`.
Hard: several tasks on one connection; statements that raise; cancellation;
death in the middle of a transaction; the sweeper against a live request.
Correct when: commitments stay under the cap, each hold is resolved once, no
half of an operation is ever committed.

**Request lifecycle** — `proxy/app.py` (`proxy_request`, its stream and buffer
background tasks, `_sweep_loop`, `_lifespan`). State: per request, the hold
handle, the estimate, the provider's answer and usage. Interacts with the rules
engine (gate), the IPC supervisor (decrypt), the provider (`httpx`), and the
ledger (settle or refund once the answer is over). Hard: a dozen exits, each of
which owes the ledger something; ledger calls that fail on the way out; crashes;
streams longer than the sweeper's patience. Correct when: a served request is
never free, a charge is what was reported or fail-closed, no hold stays for ever.

**Rules engine** — `proxy/rules.py`. `SpendCapRule` reads the cap and calls
`hold`. `TokenBudgetRule` counts daily, weekly and monthly usage plus an
in-memory reservation that every exit has to release. `RateLimitRule` keeps a
sliding window and a lock per (alias, client), which a clean-up drops.
`TimeWindowRule` is a pure check of the clock. Correct when: reservations equal
what live requests really hold, and the limit is neither exceeded nor anticipated.

**Metering** — `proxy/metering.py`. Parses usage out of bodies and, line by
line, out of a stream the network cuts anywhere; `record_spend` logs the usage
of uncapped requests over a connection of its own. Correct when: what is billed
does not depend on the cuts, and half an answer is not billed as a whole one.

**Decoy tripwire** — `proxy/app.py`. A set of retired shards, reloaded on an
interval; presenting one is answered with a denial. Correct when: armed for
every retired shard in the end, never disarmed, never for a shard in use.

**Bind probe** — `proxy/app.py` (`/healthz`, `bind_probe`). Counters by which
`lock` and `verify` find out whether requests for an alias reach this proxy.

**IPC supervisor** — `proxy/ipc_supervisor.py`. State: one `IPCClient`, a state
(`DISCONNECTED`, `CONNECTING`, `READY`, `CLOSED`), a drain flag, a semaphore, an
in-flight counter, two events. Operations: `open`, `mac`, `connect`, `aclose`.
Hard: concurrent calls that all find the sidecar gone, reconnect with back-off,
retry, shutdown during a reconnect, another binary after a restart. Correct
when: slots are given back on every path, calls end, sockets are closed, the
capabilities latched at first connect stay pinned.

**IPC client, sidecar** — `ipc/client.py`, `sidecar/server.py`. One request at a
time over a Unix socket, msgpack frames, replies matched by id; the sidecar
holds the Fernet key in a hardened process and answers `seal`, `open`, `mac`.
Hard: a reply that arrives after its request was cancelled, damaged frames,
timeouts. Correct when: every answer is one's own.

### The command line

**lock, unlock, uninstall, revoke, doctor** — `cli/commands/`. They move a key
between the `.env`, the database (shard, enrollment and configuration rows) and
OpenClaw's configuration. `lock` writes all rows (pass 1), rewrites the `.env`
once, and unwinds the rows on failure or signal unless the `.env` is committed.
Hard: a kill or a press of Ctrl-C between two stores; keys that share a file, a
`*_BASE_URL` line, an alias; what earlier commands left half done. Correct when:
at every point the key can be recovered from what is on disk, unlocking restores
what locking found, and a finished lock leaves no key behind.

**dotenv rewriter** — `cli/dotenv_rewriter.py`. Edits lines of a `.env` and
keeps the rest. Hard: python-dotenv, by which everybody else reads the file,
does not agree with it on what a line is.

**safe rewrite** — `cli/safe_rewrite.py`. Replaces the `.env` through a
temporary file, fsync, a recheck of the target, and rename. Hard: crashes and
concurrent writers at each of these steps.

**bootstrap, keystore** — `cli/bootstrap.py`, `cli/keystore.py`,
`cli/keystore_macos.py`. First run, the Fernet key in keyring or file, the
exclusive lock file (`O_EXCL` plus `flock`) and the reclaiming of a dead holder's
lock, the database schema. Hard: two processes at once at each of these.

**OpenClaw** — `openclaw/`. `lock` points the provider entries of
`openclaw.json` at the proxy and remembers the originals, `unlock` puts them
back; the agents' cached credentials have to follow. Hard: other writers, writes
that fail half way, a command killed in between and run again.

**up, down, wrap, service** — `cli/commands/`, `cli/sidecar_lifecycle.py`,
`sidecar/__main__.py`. Splits the Fernet key into two share files, spawns sidecar
then proxy, supervises, tears down. Hard: signals during start-up, stale pid
files, kill -9 of the supervisor.

**scan, status, verify, providers, restore, MCP server** — reports and thin
wrappers over the above; no protocol of their own.

**Shard splitting** — `crypto/splitter.py`, `crypto/reconstruction.py`. A
one-time pad, modulo the size of the key's alphabet, character by character; a
commitment to check reconstruction.

**Shard repository** — `storage/repository.py`, `storage/schema.py`. The tables,
their migrations, the settings the rules read, pruning of old log rows.

**Adapters, installer, deployment, worker** — stateless header rewriting, shell
scripts, container and edge configuration.

### Who calls whom

    client -> proxy_request -> decoy_hashes
                            -> RulesEngine.evaluate -> RateLimitRule
                                                    -> TokenBudgetRule (reserve)
                                                    -> SpendCapRule -> ledger.hold
                            -> IPCSupervisor.open -> IPCClient -> sidecar
                            -> provider -> usage collector
                            -> background task -> ledger.settle | settle_at_estimate
                                                  | refund      -> release reservation
    _sweep_loop -> ledger.sweep       _decoy_reload_loop -> retired_decoys
    lock | unlock | uninstall -> acquire_lock -> rows: the same SQLite file
                              -> safe_rewrite(.env) -> openclaw.json, caches
                              -> proxy /healthz, bind_probe
    up | wrap -> sidecar (key shares) -> proxy

## Plan

The order is that of what would hurt most if it were wrong: money first, then
the connection every request depends on, then the stores that hold the key.

Done:

1. `SpendCap`, `SpendLedger`, `LedgerTotals`, proved: the promise, the tables, and
   that the sums over the tables keep it; `LedgerConn`, proved: the transactions under
   them, statement by statement.
2. `ProxyRequest`, proved: the handlers, as clients of `SpendLedger`.
3. `TokenBudget`, `RateLimit`, `Tripwire`, proved, and `UsageStream`: the rest of
   what decides about a request and its bill.
4. `IPCSupervisor` and `IPCChannel`, proved: the connection to the sidecar.
5. `Session`: the processes and what they leave behind; proved for `up`.
6. `KeyStores`: the stores of lock, unlock, uninstall, revoke, doctor; under it
   `KeySplit`, `SafeRewrite`, `ExclusiveLock`, `FernetKey`, `Migrations`; beside it
   `LockInterrupts`, `EnvLines`, `OpenClaw`, `BindProbe`, each a part of the same
   commands seen more closely. All but `EnvLines` are proved.

Next:

7. Cancellation of calls in `IPCSupervisor`, for what a shutdown may leave.
8. `lock --keys-only`, the creation of a missing `.env`, the sidecar's own
   health checks.

## Modules

| module | models | builds on |
|---|---|---|
| `SpendCap` | the promise of a cap, as four running totals | |
| `Totals` | sums as numbers of units | |
| `SpendLedger` | tables and operations, one step per transaction | `Totals` |
| `LedgerTotals` | the totals of one alias | extends `SpendLedger`, implements `SpendCap` |
| `LedgerConn` | lock, transaction, worker queue, cancellation, death | extends and implements `SpendLedger` |
| `ProxyRequest` | the life of requests, sweep loop, restart | extends and implements `SpendLedger` |
| `TokenBudget` | budgets of one alias and the reservation | `Totals` |
| `RateLimit` | the sliding window, its locks and their clean-up | `Totals` |
| `Tripwire` | the table of retired shards and the proxy's copy of it | |
| `UsageStream` | usage read from a stream that is cut anywhere | |
| `IPCSupervisor` | the supervisor, its client, the sidecar as environment | |
| `IPCChannel` | one connection, both ends | |
| `Session` | `up`, `wrap`, `down`, their sidecars and proxies | |
| `KeyStores` | where a key is kept, and every command that moves it | |
| `LockInterrupts` | presses of Ctrl-C during one lock | |
| `EnvLines` | the lines of a `.env` through lock and unlock | |
| `SafeRewrite` | the replacement of a `.env` | |
| `OpenClaw` | `openclaw.json` and the agents' caches | |
| `BindProbe` | the proof that requests reach the proxy | |
| `KeySplit` | the arithmetic of a split and who may reconstruct | |
| `FernetKey` | the master key: minted, moved, removed | |
| `ExclusiveLock` | the lock file of a home | |
| `Migrations` | an older database brought up to date | |
| `CountingTheorems` | lemmas: least numbers, sums and what changes them | `Totals` |
| `CommandsProofs` | theorems about seven of the commands' parts | `ExclusiveLock`, `LockInterrupts`, `BindProbe`, `SafeRewrite`, `FernetKey`, `Migrations`, `KeySplit` |
| `ProxyPartsProofs` | theorems about six of the proxy's parts | `IPCSupervisor`, `Session`, `TokenBudget`, `RateLimit`, `Tripwire`, `IPCChannel`, `CountingTheorems` |
| `KeyStoresProofs` | theorems | `KeyStores`, `OpenClaw` |
| `LedgerTotalsProofs` | theorems | `LedgerTotals`, `SpendLedgerProofs`, `CountingTheorems` |
| other `...Proofs` | theorems | the module they name |
| `MCProxyParts`, `MCCommands` | several of these side by side | the modules they list |
| other `MC...` | refinement mappings, symmetry sets, bounds for TLC | the modules they name |

### Money

**`SpendLedger`.** `pending` and `spend_log` are the two tables; a record is a
row. `issued`, `refunded`, `charged`, `caps_seen` and the fields `origin`, `nth`
and `estimate` of a log row are history variables: nothing in the code reads
them. `Hold`, `Settle`, `SettleAtEstimate`, `Refund`, `Sweep` are the five
methods; the `DELETE ... RETURNING` that makes them idempotent is `Rows(h)`. Time
is not a number: `stale` holds the handles older than `sweep_max_age_seconds`,
and `GrowOld` puts one there at any moment. `RecordSpend`, `SetSpendCap`,
`SetCeilingOverride` and `PruneOldSpendLog` are what the rest of the system does
to the same tables. `EffectiveCeiling` is `_effective_ceiling`, with NULL also
standing for text that `int()` rejects, and with the 64-bit limit of a column.

**`LedgerConn`.** The same operations, cut where the code awaits. `lock` is the
`asyncio.Lock`; `queue` is the queue of aiosqlite's worker thread, which executes
a statement even when the coroutine that awaited it is gone; `txn` and `view` are
SQLite's open transaction and what it would commit. `Invoke` takes the lock and
enqueues `BEGIN IMMEDIATE`; `Execute` is the worker; `Raises` is a statement that
fails; `Resume` and `ResumeWithError` continue the coroutine; `Cancel` delivers a
`CancelledError` at its await; `Elsewhere` is any other connection, kept out by
SQLite's write lock; `Die` ends the process.

**`ProxyRequest`.** One handle per request, so `pc[h]` is where the request is.
Phases are named after what the request will do next: `hold`, `gated` (decrypt
and prepare), `sent`, `relay`, then `settle`, `estimate`, `refund` or `record`.
`Metering` is the decision both background tasks make. `..._again` are the
fallbacks after a ledger call that raised: settle falls back to
`settle_at_estimate`, a streaming `settle_at_estimate` and any refund are tried
once more, and `SettleRaises`, `EstimateRaises`, `RefundRaises` follow exactly
these. `lost` is a request whose exception no handler catches, or that died with
the process: it owes the ledger something and will never pay.

**`TokenBudget`.** `reserved` is `_reserved[alias]`; a request carries `estimate`,
which is what the exits release, and (history) `got`, which is what `evaluate`
really reserved. The three windows are sums over age classes of the log, and
`TimePasses` moves rows to the next class. `stage` is where a request is between
`evaluate` and its exit.

**`RateLimit`.** The two places where `evaluate` gives way are its lock and
`_load_limit`; `Enter` runs up to the first, with the clean-up any request may
have to do, `Admit` and `LimitLoaded` go on from there. `overtaken` remembers the
clients whose lock a clean-up dropped under a waiting request: for these alone
two requests may share a window, and the limit is not promised. A lock is named by
the request that created it, and a window is the number of requests at each instant.
`FirstInLine` is what `asyncio.Lock` adds to mutual exclusion: it is handed on in the
order in which it was asked for. `RateExact` needs it, since a request prunes the
window by the time it came, and one that is overtaken would find fewer than there were.

**`UsageStream`.** A line is abstracted to what the parsers tell apart (`event:`,
`data:` with or without usage, `[DONE]`, blank, too long), a position in the
stream to a third of a line: inside its text, behind its text, behind its
newline. `Feed` delivers any number of positions at once, `Drop` ends the stream
where it is. `Extracted` is the parse of a whole body, which the code has in
separate functions.

**`Tripwire`.** A reload is a read (`FetchDecoys`) and, after the await, an
assignment (`StoreDecoys`); in between unlock may retire another shard.

### The sidecar

**`IPCSupervisor`.** A step runs from one await to the next. `slots` is `_sem`,
`inflight` the drain counter, `pc[t]` the place of a call in `acquire`,
`_ensure_ready`, `_reconnect_with_backoff`, `_wait_for_connector` and the
clean-up. `wire[c]` tells whether connection `c` is live, broken at the other end
or closed here. A waiter that finds the supervisor ready goes on to `connect`,
as the code does. Connection numbers are reused once nobody can reach them.

**`IPCChannel`.** The two streams are sequences; a reply is a header and a body,
because a reader may be cancelled between them. `asked[r]` is where a request is
in `_roundtrip`, `turn` the client's lock, `sidecar_end` the state of the
server's handler. `CancelCall` strikes a request that waits, writes or reads;
`Timeout` makes the client give up the stream, which a cancellation does not.

**`Session`.** A process id is the session that owns it. `at[s]` is the place of
its main thread, `handler[s]` what SIGINT and SIGTERM do to it at that place
(Python's default before the handlers are installed, a flag, or an exception),
`run[s]` what is in its `run/<pid>`. `StopProxy` ... `Release` are the steps of
`_supervise_proxy_with_sidecar`'s way out, in its order; `Orphaned` and `Drained`
are the sidecar noticing that its parent has gone.

### Keys

**`KeyStores`.** One command runs at a time; a step of it is one transaction or
one replacement of a `.env`. `files` holds lines, `rows` the three tables,
`command` the command's locals, and between any two steps comes `Die`, a failing
transaction, or the user's editor (`Edit`). A value is a secret or the shard-A of
a value: which split it came from decides whether a row opens it. `Enroll`,
`Supersede`, `RecordBaseUrlRestores`, `Rewrite`, `Unwind`, `UnwindShard` are lock
(passes 1 and 2 and the compensation); `Restore`, `Forget`, `Retire`, `Drop` are
unlock; `UninstallFile`, `Wipe`, `Revoke`, `Purge`, `Teardown` the others.

**`LockInterrupts`.** A signal has two halves. `Signal` is the handler Python
runs at once, between any two steps; `Dispatch` is the callback the event loop
runs only while the lock's task awaits. `phase` says what either may do. The
`.env`'s rewrite, which no phase may interrupt, is one step (`Commit`).

**`EnvLines`.** A file is a sequence of lines. `Logical` and `Sets` are the
rewriter's reading of it, `ReadLine` and `Reads` python-dotenv's, and the models
of lock and unlock use each where the code does. A line's `shape` is why they
differ; its `value` is a text and perhaps a `${NAME}`; `aside` is a comment behind
it. `LockLines` and `UnlockLines` are whole commands: `SafeRewrite` justifies one
snapshot, `KeyStores` has their steps.

**`SafeRewrite`.** A name refers to an inode; of inodes and of the directory there
is what a reader sees and what is on the disk, and a power loss leaves of what was
not synced anything at all. A file's content is the set of changes in it, so a
lost change is a missing member. `EditInPlace` and `EditByRename` are the two ways
editors write.

**`ExclusiveLock`.** `acquire_lock`, system call by system call, with the lock file's inode, its
flock (local to a host on a shared mount), the host named in it and its age.

**`FernetKey`.** Keys are numbers, places are the keychain's three slots, the key
file and the recovery file. `Begin` ... `Seed` are `ensure_home` and the first
run; `Stage` ... `Unstage` are doctor's move out of iCloud with its recovery
(`Healed`); `BeginUninstall` ... `FinalizeWipe` are uninstall.

**`OpenClaw`.** A stage changes one file under its flock; `OthersEntry` is anybody
else's change in between. `Captured` is what lock takes for the original, and
`Neutralize` and `Scrub` take keys out of the agents' caches, `Rollback` and
`UndoOwnProviderWrites` undo; `RestoreProvider`, `Unroll`, `RestoreCaches` are unlock.

**`BindProbe`.** Counters before, one probe per alias, counters after; meanwhile
the listener restarts, is replaced, or is probed by others.

**`KeySplit`.** `Minus` and `Plus` are the pad, modulo the alphabet's size.
`LockAgain` derives the shard-A a second line gets, `UnlockLine` reconstructs and
checks the commitment, `Damage...` corrupts a line or a row.

**`Migrations`.** A start is a program of statements (`Program`), each committed by
itself; what a table lacks is read once, before its columns are added. An older
database has any columns of any tables.

## Runs

| run | shows | instance |
|---|---|---|
| `spend_ledger` | each hold is resolved once; the rows implement the cap of `SpendCap` | 2 aliases, 2 holds, a direct row, estimates and usage on both sides of each other and of the ceiling |
| `ledger_conn` | the committed tables change by whole operations only (`LedgerSpec`); failures alone leave no transaction open | 2 tasks, 1 failing statement, 1 cancellation, 1 death |
| `ledger_conn_cancelled` | *violation*: cancelled during `BEGIN`, the transaction stays open | 2 tasks, 1 cancellation |
| `request` | billing is fail-closed, served requests are not refunded, undisturbed requests cost what was reported, the handlers are legal ledger clients, no hold stays for ever | 2 requests, 2 estimates, 1 usage above the cap, an override, a direct row, 1 ledger error, 1 crash |
| `ipc` | slots accounted for, capabilities pinned, every call ends | 1 `open`, 2 `mac`, 2 slots, 2 troubles |
| `ipc_serial` | a restart of the same sidecar is invisible; a drained shutdown leaves no socket open | 2 `open`, 1 `mac`, 1 slot, 3 troubles |
| `proxy_parts` | reservations are real, the rate limit exact, usage is as reported, the tripwire stays armed, answers reach their requests, sessions end clean, an orphaned sidecar removes the key's halves | `TokenBudget`, `RateLimit`, `Tripwire`, `UsageStream`, `IPCChannel`, `Session` |
| `commands` | keys stay recoverable and private, files whole, locks all or nothing, reports true, whatever is killed, interrupted or run side by side | `KeyStores`, `LockInterrupts`, `BindProbe`, `SafeRewrite`, `ExclusiveLock`, `FernetKey`, `OpenClaw`, `KeySplit`, `EnvLines`, `Migrations` |
| `doctor_two_names` | *violation*: purge of one broken name deletes a healthy one, and the shard | 2 keys, 1 file, 2 names |
| `live_decoy` | *violation*: a killed unlock leaves a decoy that the next lock makes the live shard | 2 keys, 1 file, 1 kill |
| `uninstall_wipe` | *violation*: the wipe takes the rows of a lock that ran after the restore | 2 commands |
| `lock_open_quote` | *violation*: lock overwrites everything behind an open quote | every file of 1 or 2 key lines and up to 3 more |

The properties of `proxy_parts` and `commands`, one by one:

| property | of | says |
|---|---|---|
| `ReservationsReal` | `TokenBudget` | never more reserved than requests under way hold, nothing when all have ended |
| `RateExact` | `RateLimit` | no more than the limit in a second, no refusal below it |
| `UsageAsReported` | `UsageStream` | the cuts do not matter, half an answer reports nothing |
| `TripwireKept` | `Tripwire` | never disarmed for a shard, armed for each in the end |
| `ChannelKept` | `IPCChannel` | one's own answer, only what was offered, no stream used after a timeout |
| `EndsClean` | `Session` | no process, half of the key, pid file or lock left |
| `OrphanWiped` | `Session` | after kill -9 of the supervisor the halves of the key go |
| `EveryKeyRecoverable` | `KeyStores` | a line has its key, or a shard-A its row opens |
| `RouteRemembersOwner` | `KeyStores` | somebody remembers what a `*_BASE_URL` line was |
| `RetiredIsUnused` | `KeyStores` | a retired shard stands on no line any more |
| `AllOrNothing` | `LockInterrupts` | rows stay iff the `.env` needs them; an early press locks nothing |
| `ExitCodeHonest` | `LockInterrupts` | a press is not exit 0; unfinished stays unfinished for the next lock |
| `VerdictsTrue` | `BindProbe` | pass: every alias was counted; fail: one was not |
| `EnvKept` | `SafeRewrite` | whole files, no change lost |
| `OneCommand` | `ExclusiveLock` | one command at a time, its name standing |
| `OneKeyKept` | `FernetKey` | one key, and it is somewhere |
| `OriginalKept` | `OpenClaw` | the user's entry is in the file or in a row |
| `OpenClawFollows` | `OpenClaw` | ok means routed; caches follow entries |
| `OpensToItsKey`, `NeverAnotherKey` | `KeySplit` | a pair opens to its key; damage never yields another one |
| `KeysStayPrivate` | `EnvLines` | no copy of a locked key left, no key on its way to the proxy |
| `ReadsComeBack` | `EnvLines` | unlocked, everything reads as before |
| `StartsSafely` | `Migrations` | done means whole, only a race fails, backed up first |

### Parts side by side

`MCProxyParts` and `MCCommands` put components that share no variable into one
run. `part`, chosen at the start, names the one that moves; the others stay in an
initial state. A behaviour of the run is a behaviour of one component, so every
property holds of the run iff it holds of its component, and the numbers of states
add up instead of multiplying. What they do to each other is in the modules: each
says in its head which of its atomic steps another one justifies. `ExclusiveLock`
is why `KeyStores`, `LockInterrupts`, `OpenClaw` and `EnvLines` have one command at
a time; `SafeRewrite` is why a rewrite is one step; `KeySplit` is why a shard-A
opens with its row alone; `FernetKey` leaves out `ensure_home`'s exclusion because
the code does.

### Bounds

- Two holds (or requests) are enough for every question about their mutual
  effect: they compete for the cap, one is swept while the other settles, one
  crashes while the other is admitted. `SpendLedgerProofs`, `LedgerTotalsProofs` and
  `LedgerConnProofs` remove the bound for all they check, `ProxyRequestProofs` for all but
  `HoldsResolve`.
- `Amount` (what one step may move on the totals) covers every sum the run can reach.
- Amounts are chosen around the comparisons in the code: an estimate below and
  one above `GLOBAL_CEILING_TOKENS`, usage below and above the estimate (in
  `spend_ledger`; in `request`, where the comparison is the ledger's, above the cap), an
  override above the floor and one beyond `SQLITE_INT64_MAX`, a cap that two
  estimates together exceed.
- `MaxFaults`, `MaxCrashes`, `MaxCancels`, `MaxTrouble`, `MaxAccidents`,
  `MaxKills`, `MaxLosses`, `MaxPresses` bound how often the environment interferes.
  One failing ledger call reaches every first fallback, and a fallback that is never
  reached again behaves as in the run with a crash. Three presses reach a lock
  before, during and after its commit, and once more during the unwind.
- Rate limit: four requests of one client, a limit of two a second, a clean-up every
  three, a clock up to four. The clean-up drops the lock under a request, and the
  requests behind it are enough to exceed the limit if the lock were not fair.
- `KeyStores`: two keys, two files, two variables that share one `*_BASE_URL` line,
  two splits, two edits by the user and one failure, at any step. Two edits put a key
  into two files, or into one and away again; the two violation runs have four.
- `EnvLines`: every file of one or two key lines followed by up to two lines out of
  sixteen kinds, or by up to three out of the seven of them that lead from one name to
  another, in every order. Three are what a chain of references needs.
- `SafeRewrite`: two commands with homes of their own, two edits, four inodes, a kill
  or a power loss. `ExclusiveLock`: two commands on two hosts, three lock files, two
  kills: a holder that dies and a newcomer that reclaims, in either order.
- `FernetKey`: two commands, three keys, three troubles. `Migrations`: two processes and
  two starts, from a database with any columns of any tables, so that what earlier,
  killed starts left is among the initial ones. `OpenClaw`: two keys of one provider,
  seven states of the file, one failure.
- `LockInterrupts`: two keys, three presses. `BindProbe`: two aliases probed, another one
  asked for meanwhile, a table of two.
- But for `EnvLines` and `UsageStream`, the theorems remove the bounds of all of these:
  see *Proofs*.
- `KeySplit`: two alphabets of two and three letters, two keys of one alias, two
  lines; `SplitOpens` removes the bound.
- `Session`: three sessions (by hand, managed, wrap), two of them started, a signal
  and an accident; `UpEndsClean` removes the bounds for `EndsClean`.
- `Conn` is large enough that a reconnect always finds a free number.
- Symmetry is used only where the permuted values are interchangeable (handles,
  tasks, keys, files), and never in a run with a liveness property.

### Fairness

- `request`: time passes (`HoldGrowsOld`), the sweep loop runs and survives its own
  exceptions (`SweepOnce`, `app.py` `_sweep_loop`), and a dead service is started
  again (`Restart`: systemd, launchd or the user). Nothing is assumed of requests:
  one may hang for ever.
- `ipc`: each call keeps taking steps. Every await in it is bounded by a timeout
  (`acquire_timeout_s`, `request_timeout_s`, `connect_timeout_s`,
  `drain_ceiling_s`). Nothing is assumed of the sidecar or of `aclose`.
- `proxy_parts`: the reload loop reads again on its interval (weak fairness of
  `FetchDecoys`; restarts likewise), and a read that is tried for ever succeeds
  some time (strong fairness of `StoreDecoys`, for `FetchFails` may disable it);
  a sidecar's event loop keeps polling its parent and draining (`SidecarStep`).

Deadlock is checked in the runs about money and the supervisor: `ipc` allows the
terminated state explicitly (`AllDone`), so calls that wait for each other would be
reported. A part of `proxy_parts` or `commands` ends when its commands have run and
its bounds are used up, so these runs do not check it.

## Proofs

`SpendLedgerProofs` (assuming `LedgerAssumption`: amounts are natural numbers,
NULL is no amount, handles are not direct row ids): `HoldsResolvedOnce`, for any
number of aliases, handles and tokens: a handle that `hold` returned is still
held, or was refunded, or produced exactly one charge, and no two of these.
`ResolvedOnce` alone is not inductive: `Bill` adds one to `charged[h]` for the
handles of the rows it removes, which is once per *hold* only if no two rows
share a handle. The inductive invariant `LedgerInv` adds `LedgerTypeOK` and
`RowsDistinct` (one row per handle, and every log row is older than the counter
of its origin, so that a new one never coincides with an old one). The proof has
one step per operation; the three that charge go through one lemma about `Bill`.

`LedgerTotalsProofs` (assuming also that the tracked alias is one of the aliases):
`RowsImplementCap`, the refinement `ImplementsCap`, for any number of aliases, holds and
tokens, if a step of the abstract cap may move any natural number (`Amount = Nat`). The
sums of an alias are numbers of units (`Totals`: the set of pairs of a row and a number
from 1 to its amount), which turns arithmetic on sums into facts about finite sets
(`CountingTheorems`): the sum over a table is that of what stays and what goes, since
these are the cardinalities of disjoint sets. Where induction would be needed, the least
counterexample serves (`LeastNat`, from the library's well-founded orderings, whose
induction theorem itself cannot be instantiated). `TotalsInv` adds to `LedgerInv` that the tables are finite
and that the caps seen have a highest one. Then each operation is a step of `SpendCap`:
`Hold` reserves, `Bill` turns what an alias holds into charges and books the rest as
excess, a refund releases, pruning forgets at least as much charge as excess. `CapHolds`
is `SpendCap`'s own promise, `committed + held <= limit + excess`: admission is the only
step that spends room under the limit, and its guard is that room. `RowsWithinCap` puts
the two together.

`ProxyRequestProofs` (assuming also that there is an alias and an estimate, and
natural bounds): `HandlersAreLegal`, that the handlers implement `LedgerSpec`, by
`LegalStep`: each step is one operation of the ledger, or leaves it alone. For
that a request must remember what the ledger knows of it (`ClientOK`: the cap it
read is one that was configured, and past the gate a capped request has a handle
that was issued), which is the inductive invariant `ClientInv`, together with
`LedgerInv`. `RequestsResolvedOnce` follows. `NeverRefundsServed` adds what is known of
the answer at each phase (`AnswerOK`: nothing before it is relayed, a rejection
where metering refunds, a refunded request is done). `ChargesAreHonest` adds that
a hold carries the estimate of its request (`OwnHold`) and that a row a request
wrote is fail-closed, or that request is done and its answer final (`HonestRow`).
`BillsFollowAnswers` (`BilledAsAnswered`) is about the last step of a request, and needs
to know of the ones before it (`BilledOK`) that a hold was got for the request's own cap,
that without a failing call there is no second attempt, and that metering went by the
answer; that nothing was billed while the hold was there is `ResolvedOnce`.

`ProxyPartsProofs` (assuming that `open` and `mac` calls are different ones and
there is a connection): `SlotsNeverLeak`, where the invariant adds that only
finitely many calls hold a slot, without which `Cardinality` says nothing;
entering adds one holder, leaving removes one, every other step keeps a holder a
holder. `CapsStayPinned`: a fresh connection is one nobody uses, so pinning its
capabilities disturbs no call under way.

`LedgerConnProofs` (assuming also that `None` is no task and natural bounds), for any
number of tasks, faults, cancellations and deaths: `StatementsImplementOperations`, that
the statements implement `LedgerSpec` (`OperationsAtomic`), and from it
`HoldsResolvedOnceByStatements`. What is committed must change at `COMMIT` by exactly one
whole operation, so `ConnInv` says what the connection's uncommitted `view` is, as a
function of the committed tables and of how far the call has come: `Ready` before each
statement, `Left` after it, `BilledTables`, `HeldTables`, `RefundedTables`. A cancelled
coroutine releases the lock while its statement is still in the worker's queue, so
`HolderOK`, `WaitingOK`, `ChangesOK`, `BeginsOK` tie the queue to the holder: only the
last statement has somebody waiting, and one that changes something without its caller is
followed by a rollback. `IdleConnectionClosed` adds `Orderly`: as long as nothing was
cancelled, every queued statement has its caller waiting, and the connection is in a
transaction only while somebody has the lock.

`CommandsProofs` proves seven components, each with an inductive invariant of its own:

- `OneCommandAtATime` (`ExclusiveInv`), for any commands, hosts, files and kills:
  `OneCommand`, and that whoever made a lock file and has not ended is alone. The
  argument is `Prober`: what a reclaimer judges dead has no live writer on its host,
  since a holder names its file only under the file's flock.
- `InterruptedLockIsHonest` (`LockInv`), for any finite set of keys and any number of
  presses: it pairs each place of lock with the handler installed there (`PhaseFits`),
  the press that was heard (`SignalFits`), the rows (`RowsFit`), the exit code
  (`CodeFits`) and the status file (`StatusFits`). `ExitTellsTheTruth` states
  `ExitCodeHonest` by itself.
- `VerdictsAreTrue` (`ProbeInv`): counters only grow until the listener restarts, so
  between two readings of one process an alias that answered was counted.
- `EnvKeptByRewrites` (`RewriteInv`), where edits do not fall between a check and the
  rename (`~LateEdits`, as in the run): every name leads, now and after a power loss,
  to a whole file (`TargetOK`); a temporary file is nobody else's (`TmpOK`) and holds
  what was verified under the target's flock, with the change (`ContentOK`).
- `MasterKeyIsKept` (`FernetInv`), where an uninstall or a raising keychain meets no
  other command (`~Overlaps`, as in the run): rows are sealed under one key (`RowsOK`),
  and it stands where only a first run or an uninstall removes it (`Durable`,
  `SealedDurable`); those two find no row (`Sealing`), and doctor's move makes a copy
  before it removes one (`MoveOK`), with no second key meanwhile (`OnlyOldKey`).
- `StartsAreSafe` (`MigrationsInv`), for any number of processes and starts: what was
  created stays (`CreatedStays`), so whoever is past a statement finds what it made;
  alone, a start finds a table as it saw it (`AloneOK`); an older table is copied before
  it is altered (`BackupOK`).

`CommandsProofs` also has the two of `KeySplit` (assuming that an alphabet has no letter
twice and a key has a body): for any alphabets, keys, prefixes and lines. The arithmetic comes first:
`MinusThenPlus` and `PlusThenMinus` about remainders, by cases on which of two
letters comes first; from them, position by position, `SplitUndone` (what was split
adds up to the key again) and `SplitUnique` (only one shard-A does). `SplitOpens` has
the inductive invariant `SplitInv`: while nothing is damaged, the row is the split of
some key under an alphabet that covers it, and each line holds its key or the one
shard-A of that row. `OpensToItsKey` alone would not do, since `LockAgain` derives a
shard-A from the row and needs to know that its pad fits. `UnlockNeverInvents` has no
use for the arithmetic: whatever was damaged, a row's commitment is still to a key of
the user's (`Pledged`), and unlock writes nothing the commitment does not confirm.

`KeyStoresProofs` proves `NoKeyIsLost` (`EveryKeyRecoverable`) where a key has one name
in a file and the user does not edit behind unlock's back (`~TwoNames`, `~EditsRace`;
either breaks it, see *Findings*), for any keys, files, variables, splits, edits and
failures, whichever steps a kill may hit. `StoresInv` says of the data that a line the
user wants has its key, or the shard-A of its row's split (`KeysSafe`, `SplitsOK`), and
that no other line's rows can be taken for it (`OneNameEach`, `BurntOK`); of a running
command, that its plan is still true of the rows and the file although both may have
changed since it was made (`LockingOK`, `RestoringOK`, `UninstallOK`, `PurgeOK`). The hard
steps are those that delete: each needs that no sealed line of the file counts on the
rows that go. Under the same two assumptions `RetiredShardsAreUnused` (`RetiredIsUnused`):
the last enrollment of an alias goes only with the last line that holds its shard-A. For a
key that is in `StoresInv`; but what a revoked key left on a line may be locked again, with
the shard-A of a shard-A on a line nobody wants a key on. `AgainInv` says of those that
what was locked again is dead, that its shard-A is enrolled while the stored split opens
it (`AgainEnrolled`), and that it stands on one line of a file, the one its rows name
(`OneLineEach`, `RowsNameLines`); lock's snapshot, unlock's plan and doctor's list of
orphans each carry their part (`LockingAgain`, `RestoringAgain`, `PurgeAgain`). And
`RoutesRememberOwners` (`RouteRemembersOwner`), on top of both: the rows an alias has in a
file name one line (`OneVarEach`), a `*_BASE_URL` line that is no route is as the user left
it (`LinesOwned`), and while a line routes an alias every row of it in that file has that
route's record (`RoutesRemember`); lock starts on files that route nothing and rewrites
only what it has recorded (`LockingLines`), unlock's plan has what a row remembers
(`RestoringLines`). `AgainInv` and this invariant were run with TLC before they were proved.
What the proofs assume of the constants (`StoresAssumption`, `ValuesAssumption`) is that a
key, a shard-A, a split, a route, the user's own line and "nothing" are told apart.

The same module proves `OriginalsAreKept` (`OriginalKept`) where nobody else writes
`openclaw.json` before it is rolled back (`~RollbackRaces`), for any providers and keys:
the file says what its owner wrote, or a row says it (`Faithful`, `TrueRecord`); lock
rewrites an entry only when a row has its record (`CapturedOK`), and going back to the
snapshot loses nothing either (`SnapshotOK`). `RoutesAndCachesFollow`
(`OpenClawFollows`) needs no such assumption: the entries of the command's own providers
are its own while it runs (`PlanOK`); without an error so far, what is no longer in
lock's queue is routed (`RouteOK`); and a key that had a record has its provider's own
entry back after unlock's turn with it, or that provider's caches are barred (`ReturnOK`).

`ProxyPartsProofs` also proves `TurnsSurviveRestarts` (`RestartSurvived` and
`NothingLeftOpen`), where calls take turns (`MaxConcurrency = 1`; with two slots both fail,
see *Findings*): the holder of the slot is the only one that touches the client, there
is one connection at most (`OneClient`), and the call that meets the broken one replaces
it in its first attempt (`RetryWorks`). And `UpEndsClean` (`EndsClean`), for any sessions,
signals and accidents: what an `up` has running is known from where it is, unless an
interrupt has skipped a cleanup (`UpRuns`, `Live`), and once it is over nothing is left
(`Clean`). Steps of other sessions and of processes spare all this (`SparedStep`); its
own are taken one by one. The same module has four more, one for each part around a request:

- `ReservationsAreReal` (`BudgetInv`), for any finite set of requests: what is reserved
  is at most the sum of what the requests under way got, and none got more than the
  estimate its exit gives back, so that each exit takes out of the sum at least its term.
- `RateLimitIsExact` (`RateInv`), for any requests, clients and limits: of those who share
  a lock one at most loads the limit (`LocksInv`); a window holds nothing that was not let
  through (`WindowsInv`); and where no clean-up came between, the requests of a client
  share one lock, come to it in the order of their clocks, and find in the window
  everything they need to count (`ExactInv`).
- `TripwireStaysArmed` (`NeverBlanked`, the safety half of `TripwireKept`): a read that
  is under way contains what is loaded, and all of it was retired (`TripwireInv`).
- `ChannelIsKept` (`ChannelInv`): a reply in the stream stands for work that was done
  (`SoundPart`), and a reader that gave up after a timeout has given up the stream.

`ClosedLeavesNothingOpen` states `NothingLeftOpen` by itself.

The constants' assumptions these need beyond natural bounds: a marker for "nothing"
(`None`, `NoKey`, `Torn`, `NoInode`, `Nothing`, `NoFile`, ...) is not one of the values it
stands beside; the sets of keys, of aliases probed and of OpenClaw's keys are finite; and
there is a key to lock, a connection, an inode, a split.

`ConnTypeOK`, a property of `ledger_conn`, is `ConnectionTyped`. The
other type invariants (`LedgerTypeOK`, `RequestTypeOK`, `IPCSupervisor!TypeOK`,
`SessionTypeOK`, `LockTypeOK`, `ExclusiveTypeOK`, `RewriteTypeOK`, `FernetTypeOK`) are parts
of the inductive invariants, and proved with them. TLC has checked each inductive
invariant named here on the instance of its run, `OpenClawInv` on two providers and three
keys as well.

## Findings

Each is a run that TLC refutes; `PROJECT.json` quotes the sentence it refutes.

1. `ledger_conn_cancelled`: `BEGIN IMMEDIATE` is awaited before the `try` that
   rolls back. A cancellation there leaves the connection inside a transaction
   after the lock is released. The server does not cancel handlers when a client
   goes away, so this needs a shutdown or a task cancelled by other code.
2. `doctor_two_names`: doctor deletes a broken enrollment by alias and path, not by
   name. A key that stands under two names in one file loses the healthy enrollment
   too, and with it the shard.
3. `live_decoy`: unlock retires the shard-A in one transaction and deletes its row in
   the next. Killed in between, it leaves a row from which the next lock derives the
   retired shard-A again: the proxy refuses that key's own requests.
4. `uninstall_wipe`: uninstall restores under the exclusive lock and wipes after
   releasing it. A lock command in between is wiped without having been restored.
5. `lock_open_quote`: a `*_BASE_URL` line with an open quote is, to the rewriter, the
   whole rest of the file; lock overwrites it with the proxy's address.

More came up while the models were written. They are behaviours of the models (a
guard, an exception in a property, a constant that is FALSE where they are left out),
without a run of their own:

*Billing.* The sweeper selects holds by age alone (300 s by default), a stream may
last 900 s: its usage, reported later, finds no hold, and the fail-closed bill stands
(`MayOutlive`, `BilledAsAnswered`). An exception past the gate that no handler
catches, or a refund that raises, leaves a reservation for ever; the exits release
the estimate where `evaluate` reserved less, and the difference is taken from other
requests (`TokenBudget`: `lost`, `got`; `NothingReservedTwice` is a bound for this
reason, not an equation).

*Supervisor.* A failed call closes the supervisor's *current* client without
comparing it with the one it used. A waiter that wakes up to a ready supervisor falls
through to its own connect (`ipc_supervisor.py:452`), so two calls may be connecting
and the first client is overwritten unclosed: `RestartSurvived` and `NothingLeftOpen`
are claimed for calls that take turns. A reconnect that fails after a forced close
sets `DISCONNECTED` over `CLOSED` (463, 467); the drain flag keeps this without
effect. The client raises an error frame before it has compared its id
(`ipc/client.py:302-309`), so a late failure is given to the next request
(`OwnReply` is about success).

*Sessions.* "On any exit path the proxy is terminated first, then the sidecar"
(`up.py:516-518`) does not hold of SIGHUP after the sidecar was spawned (623). wrap's
sidecar that fails to start leaves its shares; `cleanup_stale_pid` reads twice and
unlinks what it did not check; `down` unlinks whatever the pid file names by then.
A second `up` that finds a reused PID, or `rmtree`s the run of a wrap that is
starting, is possible. wrap looks at the port before it spawns the proxy; the comment at
`wrap.py:326-329` leaves a daemon that starts in between to the time-out of
`poll_health`, but the poll (372) is satisfied by whoever serves the port, as the same
comment says above, and wrap then uses that daemon. The sidecar looks twice whether its
parent lives; a supervisor killed after the second look leaves the shares
(`sidecar/__main__.py:369`).

*Stores.* `EditsRace` FALSE: what the user writes to a locked line between unlock's
first pass and its rewrite is overwritten by the restored key. doctor imports recovery
files only after it has opened the install (`doctor/__init__.py:1033-1038`): where the
key is in the recovery file alone it returns before, while
`docs/troubleshooting.md:109` says "unconditionally". `_compensating_unwind`
(`lock.py:1255-1266`) deletes enrollments by alias and path, so a lock that fails while it
gives a key a second name also drops the row of the first, against `_lock_keys`' "the
system is consistent either way". The docstring of `_pass3_db_cleanup`
(`unlock.py:534-541`) says that unlock can be run again after a kill between its rewrite
and its deletions; the run stops at a key that no longer reconstructs (243-248), and the
rows stay until doctor or another lock removes them. In `SafeRewrite` a last directory
fsync that fails is logged only, and unlock then deletes the rows although the rename may
not be on the disk.

*Master key.* doctor, killed while it moves the synced key of an older version to this
machine, and killed again when it resumes, leaves the key in both places. An
uninstall then removes the local one only; a first run whose read of the keychain raises
mints a new key, rows are sealed under it, and the next doctor moves the stale synced key
over it. `OneKeyKept` is therefore claimed for mints that find no synced key
(`Overlaps` FALSE).

*OpenClaw.* Two keys of one provider share one entry, the last one wins. An entry
whose lock was killed and whose row is gone keeps pointing at a dead alias. Agents'
caches are restored without looking when `openclaw.json` cannot be read. A lock that
exits 73 leaves a status only a complete lock removes.

*Lines.* Quoted names and repeated lines defeat the check that a file's references do
not lead to a key's `*_BASE_URL` (`Unclear`): after a partial unlock `${X}` may expand to
another key's proxy address. Of two lines that set one key, the shadowed one's text
is overwritten and lost. unlock keeps an added `*_BASE_URL` line when an open quote
of another name stands before it. An address that contains the key itself is kept in
the clear in `shards.base_url`, and may come back into the file without a record;
`SealedAway` has these exceptions.

*Start-up.* `_migrate_pending_charges` does not tolerate a column another process has
just added, so a racing start fails (`OnlyARaceFails` is about the others). A second
`VACUUM INTO` within one second fails. A repository opened without bootstrap on a
database older than `decoy_hash` would fail at the schema's index.

## Limits

*Only model-checked*, on the instances above, and why: `UsageAsReported`,
`KeysStayPrivate` and `ReadsComeBack` (folds over the parts of a stream and the lines of a
file) need induction over data, for which no prover at hand can instantiate the library's
theorems. Liveness (`HoldsResolve`, `EveryCallEnds`, `OrphanWiped`, and that a tripwire is
armed in the end) the proof system does not do under fairness. `PartsTypeOK`
and `CommandsTypeOK` only join the type invariants of parts. No module declares a
RECURSIVE operator.

*Abstracted.* A provider's own bill is not part of the state: a request refunded
after a read timeout may have been served and billed there. Usage is "readable or
not" and a number; a line with usage is assumed shorter than `_MAX_PARTIAL_LINE`
(64 KB). Ages are "old or not". An alias's budgets are fixed during a run. Back-off
durations and the cancellation of a call are left out of `IPCSupervisor`; `connect()`
is its initial state, since `_lifespan` awaits it first. The random pad of a split
never happens to yield another key of the user's. SQLite's "database is locked" is a
failing step like others. The kernel's peer credentials and process table are inputs.

*Not modelled.* `lock --keys-only` and `add_or_rewrite_env_key`; the creation of a
missing `.env`; the older XOR split, which no command calls; Windows, file systems
without flock, and the age rule for lock files of unknown origin; doctor's own lock
file; a recovery file cut short by a kill, a keychain that raises on a first run
while another command runs, the service's read of the key, `WORTHLESS_FERNET_KEY`;
the skill OpenClaw is given and the text of its audit. `cli/default_command.py`,
scanning, status, printing, the MCP server, adapters, installers, deployment,
hardening system calls and the keychain's foreign-function interface will not be:
they keep no state, or are interfaces to an operating system whose behaviour would be
an assumption and nothing else.
