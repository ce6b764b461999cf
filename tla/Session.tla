------------------------------- MODULE Session -------------------------------
(***************************************************************************)
(* One home directory and the processes that live on it: `worthless up`    *)
(* (by hand or under launchd/systemd) and `worthless wrap`, each of which   *)
(* starts a sidecar and then a proxy, the sidecars and the proxies          *)
(* themselves, `worthless down` and doctor's sweep of run/<pid>.            *)
(*   cli/commands/up.py, wrap.py, down.py, cli/sidecar_lifecycle.py,        *)
(*   cli/process.py, sidecar/__main__.py, doctor/checks/dead_proxy_run_dirs *)
(*                                                                          *)
(* A process id is the session that owns it: the proxy of s is "the proxy   *)
(* process s spawned".  Signals are Python's: a handler runs between two    *)
(* steps and either raises KeyboardInterrupt there or sets a flag.          *)
(***************************************************************************)
EXTENDS Naturals, FiniteSets

CONSTANTS
  Session,       \* up and wrap processes, each started at most once
  Wraps,         \* those that are `wrap`
  Managed,       \* those `up` that a service manager runs
  NoSession,     \* no process
  MaxStarts,     \* how many of them start
  MaxSignals,    \* SIGINT, SIGTERM, SIGHUP from outside
  MaxAccidents   \* crashes, kills -9 and failing calls

ASSUME SessionAssumption ==
  /\ Wraps \subseteq Session /\ Managed \subseteq Session \ Wraps
  /\ NoSession \notin Session /\ MaxStarts \in Nat /\ MaxSignals \in Nat /\ MaxAccidents \in Nat

VARIABLES
  at,         \* where each session's main thread is
  over,       \* "no" while the process lives, then how it ended
  handler,    \* what SIGINT and SIGTERM do to it
  stopping,   \* _on_signal's _shutdown flag
  raised,     \* an exception is on its way out of _start_foreground_locked
  found,      \* the pid it read from the pid file
  proxy,      \* its proxy process
  sidecar,    \* its sidecar process
  run,        \* what is in its run/<pid>
  pid_file,   \* whose proxy proxy.pid names
  up_lock,    \* who holds the flock on .up.lock
  down,       \* `worthless down`: where it is, and the pid it read
  signals, accidents

sessionVars == <<at, over, handler, stopping, raised, found, proxy, sidecar, run,
                 pid_file, up_lock, down, signals, accidents>>
files == <<run, pid_file, up_lock>>
counters == <<signals, accidents>>

Shares == {"share_a", "share_b"}
Points == {"idle", "owns", "kill", "clean", "unlink stale", "rmtree",
           "pid file", "clean up", "unlink dead", "lock", "key", "wait for key", "split", "spawn", "ready", "port",
           "proxy", "write pid", "health", "loop", "stop proxy", "unlink pid",
           "stop sidecar", "reap", "wipe", "unwind", "release", "end"}

SessionTypeOK ==
  /\ at \in [Session -> Points]
  /\ over \in [Session -> {"no", "ok", "failed", "interrupted", "killed"}]
  /\ handler \in [Session -> {"default", "raise", "flag", "forward"}]
  /\ stopping \in [Session -> BOOLEAN] /\ raised \in [Session -> {"no", "error", "interrupt"}]
  /\ found \in [Session -> Session \cup {NoSession}]
  /\ proxy \in [Session -> {"none", "booting", "serving", "dead"}]
  /\ sidecar \in [Session -> {"none", "booting", "loaded", "ready", "draining", "dead", "crashed"}]
  /\ run \in [Session -> SUBSET ({"dir", "socket"} \cup Shares)]
  /\ pid_file \in Session \cup {NoSession} /\ up_lock \in Session \cup {NoSession}
  /\ down \in [at : {"idle", "kill", "unlink"}, pid : Session \cup {NoSession}]
  /\ signals \in 0..MaxSignals /\ accidents \in 0..MaxAccidents

SessionInit ==
  /\ at = [s \in Session |-> "idle"] /\ over = [s \in Session |-> "no"]
  /\ handler = [s \in Session |-> "default"]
  /\ stopping = [s \in Session |-> FALSE] /\ raised = [s \in Session |-> "no"]
  /\ found = [s \in Session |-> NoSession]
  /\ proxy = [s \in Session |-> "none"] /\ sidecar = [s \in Session |-> "none"]
  /\ run = [s \in Session |-> {}]
  /\ pid_file = NoSession /\ up_lock = NoSession
  /\ down = [at |-> "idle", pid |-> NoSession]
  /\ signals = 0 /\ accidents = 0

Gone(s) == over[s] # "no"
Alive(s) == s # NoSession /\ proxy[s] \in {"booting", "serving"}
Listeners == {s \in Session : proxy[s] = "serving"}
\* _managed_sidecar_healthy: a socket under run/ whose sidecar answers and opens a stored shard
SidecarHealthy == \E s \in Session : "socket" \in run[s] /\ sidecar[s] = "ready"

Accident == accidents < MaxAccidents /\ accidents' = accidents + 1 /\ UNCHANGED signals
To(s, p) == at' = [at EXCEPT ![s] = p]
Here(s, p) == at[s] = p /\ ~Gone(s)
\* What a step of the session's own control leaves alone
Only(s) == UNCHANGED <<over, handler, stopping, raised, down, counters>>
End(s, how) == To(s, "end") /\ over' = [over EXCEPT ![s] = how]

MayStart == Cardinality({s \in Session : at[s] # "idle"}) < MaxStarts

-----------------------------------------------------------------------------
(* up: before the lock                                                     *)

StartUp(s) ==
  /\ s \notin Wraps /\ Here(s, "idle") /\ MayStart
  /\ To(s, IF s \in Managed THEN "owns" ELSE "pid file")
  /\ Only(s) /\ UNCHANGED <<found, proxy, sidecar, files>>

\* _service_managed_session_owns_port: our pid file names the healthy listener
OwnsPort(s) ==
  /\ Here(s, "owns") /\ SidecarHealthy
  /\ Alive(pid_file) /\ Listeners = {pid_file}
  /\ End(s, "ok")
  /\ UNCHANGED <<handler, stopping, raised, found, proxy, sidecar, files, down, counters>>

\* _reclaim_managed_proxy_without_sidecar: which branch it takes
Reclaim(s) ==
  /\ Here(s, "owns")
  /\ ~(SidecarHealthy /\ Alive(pid_file) /\ Listeners = {pid_file})
  /\ found' = [found EXCEPT ![s] = pid_file]
  /\ \/ SidecarHealthy /\ To(s, "pid file")
     \/ ~SidecarHealthy /\ Listeners = {} /\ To(s, "clean")
     \/ ~SidecarHealthy /\ Listeners # {}
        /\ To(s, IF ~Alive(pid_file) THEN "rmtree" ELSE IF Listeners = {pid_file} THEN "kill" ELSE "clean")
  /\ Only(s) /\ UNCHANGED <<proxy, sidecar, files>>

\* os.kill(existing_pid, SIGTERM), five seconds, SIGKILL
ReclaimKill(s) ==
  /\ Here(s, "kill") /\ To(s, "rmtree")
  /\ proxy' = [proxy EXCEPT ![found[s]] = "dead"]
  /\ Only(s) /\ UNCHANGED <<found, sidecar, files>>

\* cleanup_stale_pid reads the file once more, then unlinks in a second step
CleanupStalePid(s, here, unlink, there) ==
  /\ Here(s, here)
  /\ To(s, IF Alive(pid_file) THEN there ELSE unlink)
  /\ Only(s) /\ UNCHANGED <<found, proxy, sidecar, files>>

UnlinkStale(s, here, there) ==
  /\ Here(s, here) /\ To(s, there) /\ pid_file' = NoSession
  /\ Only(s) /\ UNCHANGED <<found, proxy, sidecar, run, up_lock>>

CleanupStep(s) ==
  \/ CleanupStalePid(s, "clean", "unlink stale", "pid file")
  \/ UnlinkStale(s, "unlink stale", "pid file")
  \/ CleanupStalePid(s, "clean up", "unlink dead", "lock")
  \/ UnlinkStale(s, "unlink dead", "lock")

\* The end of _reclaim: unlink a dead pid, remove run/ with everything below it
RemoveRuns(s) ==
  /\ Here(s, "rmtree") /\ To(s, "pid file")
  /\ pid_file' = IF Alive(pid_file) THEN pid_file ELSE NoSession
  /\ run' = [t \in Session |-> {}]
  /\ Only(s) /\ UNCHANGED <<found, proxy, sidecar, up_lock>>

\* up's own look at the pid file: refuse a live one, clean a dead one
CheckPidFile(s) ==
  /\ Here(s, "pid file")
  /\ \/ Alive(pid_file) /\ End(s, "failed")
     \/ ~Alive(pid_file) /\ To(s, IF pid_file = NoSession THEN "lock" ELSE "clean up") /\ UNCHANGED over
  /\ UNCHANGED <<handler, stopping, raised, found, proxy, sidecar, files, down, counters>>

-----------------------------------------------------------------------------
(* up: under the lock                                                      *)

\* _start_foreground: the raising handlers, then LOCK_EX | LOCK_NB
TakeUpLock(s) ==
  /\ Here(s, "lock")
  /\ \/ /\ up_lock = NoSession /\ To(s, "key") /\ up_lock' = s /\ UNCHANGED over
        /\ handler' = [handler EXCEPT ![s] = "raise"]
     \/ /\ up_lock # NoSession /\ End(s, "failed") /\ UNCHANGED <<up_lock, handler>>
  /\ UNCHANGED << stopping, raised, found, proxy, sidecar, run, pid_file, down, counters>>

\* _refuse_unless_key_opens_locked_keys
KeyOpens(s) ==
  /\ Here(s, "key") /\ To(s, "split") /\ Only(s) /\ UNCHANGED <<found, proxy, sidecar, files>>

KeyRefused(s) ==
  /\ Here(s, "key") /\ To(s, IF s \in Managed THEN "wait for key" ELSE "release")
  /\ raised' = [raised EXCEPT ![s] = IF s \in Managed THEN "no" ELSE "error"] /\ Accident
  /\ UNCHANGED <<over, handler, stopping, found, proxy, sidecar, files, down>>

\* _wait_for_a_key_that_opens ends in typer.Exit(75): the manager starts another up
KeyFixed(s) ==
  /\ Here(s, "wait for key") /\ To(s, "release") /\ raised' = [raised EXCEPT ![s] = "error"]
  /\ UNCHANGED <<over, handler, stopping, found, proxy, sidecar, files, down, counters>>

StartWrap(s) ==
  /\ s \in Wraps /\ Here(s, "idle") /\ MayStart /\ To(s, "split")
  /\ Only(s) /\ UNCHANGED <<found, proxy, sidecar, files>>

\* split_to_tmpfs: the directory and both halves of the key, or none of it
Split(s) ==
  /\ Here(s, "split") /\ To(s, "spawn") /\ run' = [run EXCEPT ![s] = {"dir"} \cup Shares]
  /\ Only(s) /\ UNCHANGED <<found, proxy, sidecar, pid_file, up_lock>>

SplitFails(s) ==
  /\ Here(s, "split") /\ To(s, "release") /\ run' = [run EXCEPT ![s] = {}]
  /\ raised' = [raised EXCEPT ![s] = "error"] /\ Accident
  /\ UNCHANGED <<over, handler, stopping, found, proxy, sidecar, pid_file, up_lock, down>>

\* spawn_sidecar: Popen, then _wait_for_ready on its socket
SpawnSidecar(s) ==
  /\ Here(s, "spawn") /\ To(s, "ready") /\ sidecar' = [sidecar EXCEPT ![s] = "booting"]
  /\ Only(s) /\ UNCHANGED <<found, proxy, files>>

SidecarReady(s) ==
  /\ Here(s, "ready") /\ sidecar[s] = "ready" /\ "socket" \in run[s] /\ To(s, "port")
  /\ Only(s) /\ UNCHANGED <<found, proxy, sidecar, files>>

\* Timed out or exited: _kill_and_close_proc.  up unwinds the shares; wrap has no handle to
\* shut down and leaves them
SidecarNotReady(s) ==
  /\ Here(s, "ready")
  /\ (sidecar[s] \in {"dead", "crashed"} /\ UNCHANGED counters) \/ Accident
  /\ sidecar' = [sidecar EXCEPT ![s] = "dead"]
  /\ run' = [run EXCEPT ![s] = @ \ {"socket"}]
  /\ To(s, IF s \in Wraps THEN "release" ELSE "unwind")
  /\ raised' = [raised EXCEPT ![s] = "error"]
  /\ UNCHANGED <<over, handler, stopping, found, proxy, pid_file, up_lock, down>>

\* wrap asks first whether somebody listens (_port_in_use); up does not
PortFree(s) ==
  /\ Here(s, "port") /\ (s \in Wraps => Listeners = {}) /\ To(s, "proxy")
  /\ Only(s) /\ UNCHANGED <<found, proxy, sidecar, files>>

PortInUse(s) ==
  /\ Here(s, "port") /\ s \in Wraps /\ Listeners # {} /\ To(s, "stop sidecar")
  /\ raised' = [raised EXCEPT ![s] = "error"]
  /\ UNCHANGED <<over, handler, stopping, found, proxy, sidecar, files, down, counters>>

SpawnProxy(s) ==
  /\ Here(s, "proxy") /\ proxy' = [proxy EXCEPT ![s] = "booting"]
  /\ To(s, IF s \in Wraps THEN "health" ELSE "write pid")
  /\ Only(s) /\ UNCHANGED <<found, sidecar, files>>

SpawnProxyFails(s) ==
  /\ Here(s, "proxy") /\ To(s, "stop sidecar") /\ raised' = [raised EXCEPT ![s] = "error"] /\ Accident
  /\ UNCHANGED <<over, handler, stopping, found, proxy, sidecar, files, down>>

\* _supervise_proxy_with_sidecar: the pid file, then the flag handlers
WritePid(s) ==
  /\ Here(s, "write pid") /\ To(s, "health") /\ pid_file' = s
  /\ handler' = [handler EXCEPT ![s] = "flag"]
  /\ UNCHANGED <<over, stopping, raised, found, proxy, sidecar, run, up_lock, down, counters>>

\* poll_health_pid, poll_health: any healthy listener on the port counts
Healthy(s) ==
  /\ Here(s, "health") /\ Listeners # {} /\ To(s, "loop")
  /\ handler' = [handler EXCEPT ![s] = IF s \in Wraps THEN "forward" ELSE @]
  /\ UNCHANGED <<over, stopping, raised, found, proxy, sidecar, files, down, counters>>

Unhealthy(s) ==
  /\ Here(s, "health") /\ Listeners = {} /\ To(s, "stop proxy")
  /\ raised' = [raised EXCEPT ![s] = "error"]
  /\ UNCHANGED <<over, handler, stopping, found, proxy, sidecar, files, down, counters>>

\* up watches both processes and its flag; wrap waits for its child alone
LeaveLoop(s) ==
  /\ Here(s, "loop")
  /\ s \in Wraps \/ stopping[s] \/ ~Alive(s) \/ sidecar[s] \in {"dead", "crashed"}
  /\ To(s, "stop proxy") /\ Only(s) /\ UNCHANGED <<found, proxy, sidecar, files>>

\* proxy.terminate(), wait, kill
StopProxy(s) ==
  /\ Here(s, "stop proxy") /\ proxy' = [proxy EXCEPT ![s] = "dead"]
  /\ To(s, IF s \in Wraps THEN "stop sidecar" ELSE "unlink pid")
  /\ Only(s) /\ UNCHANGED <<found, sidecar, files>>

\* Mutant
UnlinkPidForgotten(s) ==
  /\ Here(s, "unlink pid") /\ To(s, "stop sidecar") /\ UNCHANGED pid_file
  /\ Only(s) /\ UNCHANGED <<found, proxy, sidecar, run, up_lock>>

UnlinkPid(s) ==
  /\ Here(s, "unlink pid") /\ To(s, "stop sidecar") /\ pid_file' = NoSession
  /\ Only(s) /\ UNCHANGED <<found, proxy, sidecar, run, up_lock>>

-----------------------------------------------------------------------------
(* shutdown_sidecar and the ends                                           *)

StopSidecar(s) ==
  /\ Here(s, "stop sidecar") /\ To(s, "reap")
  /\ sidecar' = [sidecar EXCEPT ![s] = IF @ = "ready" THEN "draining" ELSE @]
  /\ Only(s) /\ UNCHANGED <<found, proxy, files>>

Reap(s) ==
  /\ Here(s, "reap") /\ To(s, "wipe")
  /\ (sidecar[s] \in {"dead", "crashed"} /\ UNCHANGED <<sidecar, counters>>)
     \/ (sidecar' = [sidecar EXCEPT ![s] = "dead"] /\ Accident)
  /\ UNCHANGED <<over, handler, stopping, raised, found, proxy, files, down>>

Wipe(s) ==
  /\ Here(s, "wipe") /\ To(s, "release") /\ run' = [run EXCEPT ![s] = {}]
  /\ Only(s) /\ UNCHANGED <<found, proxy, sidecar, pid_file, up_lock>>

\* _start_foreground_locked without a handle: the shares by hand
Unwind(s) ==
  /\ Here(s, "unwind") /\ To(s, "release") /\ run' = [run EXCEPT ![s] = {}]
  /\ Only(s) /\ UNCHANGED <<found, proxy, sidecar, pid_file, up_lock>>

Release(s) ==
  /\ Here(s, "release") /\ End(s, [no |-> "ok", error |-> "failed", interrupt |-> "interrupted"][raised[s]])
  /\ up_lock' = IF up_lock = s THEN NoSession ELSE up_lock
  /\ UNCHANGED <<handler, stopping, raised, found, proxy, sidecar, run, pid_file, down, counters>>

-----------------------------------------------------------------------------
(* Signals                                                                 *)

Signal == signals < MaxSignals /\ signals' = signals + 1 /\ UNCHANGED accidents

\* SIGINT or SIGTERM under _on_signal
Flag(s) ==
  /\ ~Gone(s) /\ handler[s] = "flag" /\ stopping' = [stopping EXCEPT ![s] = TRUE] /\ Signal
  /\ UNCHANGED <<at, over, handler, raised, found, proxy, sidecar, files, down>>

\* A KeyboardInterrupt in up: SIGINT, SIGTERM before _on_signal, or SIGHUP at any time.
\* The frames it leaves run their cleanups, and none of those stops the proxy
Interrupt(s) ==
  /\ s \notin Wraps /\ ~Gone(s) /\ handler[s] \in {"raise", "flag"} /\ Signal
  /\ IF at[s] = "ready"
     THEN /\ sidecar' = [sidecar EXCEPT ![s] = "dead"]
          /\ run' = [run EXCEPT ![s] = @ \ {"socket"}]
          /\ To(s, "unwind")
     ELSE /\ UNCHANGED <<sidecar, run>>
          /\ To(s, IF at[s] \in {"key", "wait for key", "split", "release", "unwind"}
                      \/ (raised[s] # "no" /\ at[s] \in {"stop sidecar", "reap", "wipe"})
                   THEN "release"
                   ELSE IF at[s] = "spawn" THEN "unwind" ELSE "stop sidecar")
  /\ raised' = [raised EXCEPT ![s] = "interrupt"]
  /\ UNCHANGED <<over, handler, stopping, found, proxy, pid_file, up_lock, down>>

\* wrap before forward_signals: Python's own KeyboardInterrupt, which no except there catches
InterruptWrap(s) ==
  /\ s \in Wraps /\ ~Gone(s) /\ handler[s] = "default"
  /\ at[s] \notin {"idle", "stop proxy", "stop sidecar", "reap", "wipe", "release"} /\ Signal
  /\ sidecar' = [sidecar EXCEPT ![s] = IF at[s] = "ready" THEN "dead" ELSE @]
  /\ run' = [run EXCEPT ![s] = IF at[s] = "ready" THEN @ \ {"socket"} ELSE @]
  /\ End(s, "interrupted")
  /\ UNCHANGED <<handler, stopping, raised, found, proxy, pid_file, up_lock, down>>

\* forward_signals: the child and the proxy get the signal, wrap goes on waiting
Forward(s) ==
  /\ ~Gone(s) /\ handler[s] = "forward" /\ Signal
  /\ proxy' = [proxy EXCEPT ![s] = "dead"]
  /\ UNCHANGED <<at, over, handler, stopping, raised, found, sidecar, files, down>>

Kill(s) ==
  /\ ~Gone(s) /\ at[s] # "idle" /\ Accident /\ End(s, "killed")
  /\ up_lock' = IF up_lock = s THEN NoSession ELSE up_lock
  /\ UNCHANGED <<handler, stopping, raised, found, proxy, sidecar, run, pid_file, down>>

-----------------------------------------------------------------------------
(* The processes a session starts                                          *)

Process(s) == UNCHANGED <<at, over, handler, stopping, raised, found, pid_file, up_lock, down>>

Bind(s) ==
  /\ proxy[s] = "booting"
  /\ proxy' = [proxy EXCEPT ![s] = IF Listeners = {} THEN "serving" ELSE "dead"]
  /\ Process(s) /\ UNCHANGED <<sidecar, run, counters>>

ProxyCrash(s) ==
  /\ Alive(s) /\ proxy' = [proxy EXCEPT ![s] = "dead"] /\ Accident
  /\ Process(s) /\ UNCHANGED <<sidecar, run>>

\* _load_shares: without both files it exits with 1
LoadShares(s) ==
  /\ sidecar[s] = "booting"
  /\ sidecar' = [sidecar EXCEPT ![s] = IF Shares \subseteq run[s] THEN "loaded" ELSE "dead"]
  /\ Process(s) /\ UNCHANGED <<proxy, run, counters>>

\* _parent_gone before the bind, else start_sidecar
BindSocket(s) ==
  /\ sidecar[s] = "loaded"
  /\ IF Gone(s)
     THEN /\ run' = [run EXCEPT ![s] = {}] /\ sidecar' = [sidecar EXCEPT ![s] = "dead"]
     ELSE IF "dir" \in run[s]
          THEN /\ run' = [run EXCEPT ![s] = @ \cup {"socket"}]
               /\ sidecar' = [sidecar EXCEPT ![s] = "ready"]
          ELSE /\ sidecar' = [sidecar EXCEPT ![s] = "dead"] /\ UNCHANGED run
  /\ Process(s) /\ UNCHANGED <<proxy, counters>>

\* _wipe_when_orphaned: the poll of getppid saw the parent go; the files first, then the drain
Orphaned(s) ==
  /\ sidecar[s] = "ready" /\ Gone(s)
  /\ run' = [run EXCEPT ![s] = {}] /\ sidecar' = [sidecar EXCEPT ![s] = "draining"]
  /\ Process(s) /\ UNCHANGED <<proxy, counters>>

\* Mutant
DrainedUnchecked(s) ==
  /\ sidecar[s] = "draining"
  /\ sidecar' = [sidecar EXCEPT ![s] = "dead"] /\ UNCHANGED run
  /\ Process(s) /\ UNCHANGED <<proxy, counters>>

\* The end of _drain_server, and the second look at the parent
Drained(s) ==
  /\ sidecar[s] = "draining"
  /\ sidecar' = [sidecar EXCEPT ![s] = "dead"]
  /\ run' = [run EXCEPT ![s] = IF Gone(s) THEN {} ELSE @]
  /\ Process(s) /\ UNCHANGED <<proxy, counters>>

\* A SIGTERM of somebody else's
SidecarTerm(s) ==
  /\ sidecar[s] = "ready" /\ sidecar' = [sidecar EXCEPT ![s] = "draining"] /\ Signal
  /\ Process(s) /\ UNCHANGED <<proxy, run>>

SidecarCrash(s) ==
  /\ sidecar[s] \in {"booting", "loaded", "ready", "draining"}
  /\ sidecar' = [sidecar EXCEPT ![s] = "crashed"] /\ Accident
  /\ Process(s) /\ UNCHANGED <<proxy, run>>

-----------------------------------------------------------------------------
(* down, and doctor's dead_proxy_run_dirs                                  *)

DownReads ==
  /\ down.at = "idle" /\ pid_file # NoSession
  /\ down' = [at |-> IF Alive(pid_file) THEN "kill" ELSE "unlink", pid |-> pid_file]
  /\ UNCHANGED <<at, over, handler, stopping, raised, found, proxy, sidecar, files, counters>>

\* kill_tree, the five seconds, kill_tree(force)
DownKills ==
  /\ down.at = "kill" /\ down' = [down EXCEPT !.at = "unlink"]
  /\ proxy' = [proxy EXCEPT ![down.pid] = "dead"]
  /\ UNCHANGED <<at, over, handler, stopping, raised, found, sidecar, files, counters>>

\* _done: pf.unlink, whatever it names by now
DownUnlinks ==
  /\ down.at = "unlink" /\ down' = [at |-> "idle", pid |-> NoSession] /\ pid_file' = NoSession
  /\ UNCHANGED <<at, over, handler, stopping, raised, found, proxy, sidecar, run, up_lock, counters>>

\* remove_run_dirs: process gone, sidecar silent, and no proxy running
LooksDead(s) == Gone(s) /\ ~("socket" \in run[s] /\ sidecar[s] = "ready")
RemoveDeadRuns ==
  /\ ~Alive(pid_file) /\ \E s \in Session : LooksDead(s) /\ run[s] # {}
  /\ run' = [s \in Session |-> IF LooksDead(s) THEN {} ELSE run[s]]
  /\ UNCHANGED <<at, over, handler, stopping, raised, found, proxy, sidecar, pid_file, up_lock, down, counters>>

-----------------------------------------------------------------------------
UpStep(s) ==
  \/ StartUp(s) \/ OwnsPort(s) \/ Reclaim(s) \/ ReclaimKill(s) \/ CleanupStep(s)
  \/ RemoveRuns(s) \/ CheckPidFile(s) \/ TakeUpLock(s) \/ KeyOpens(s)
  \/ KeyRefused(s) \/ KeyFixed(s) \/ WritePid(s) \/ UnlinkPid(s) \/ Unwind(s)
SharedStep(s) ==
  \/ StartWrap(s) \/ Split(s) \/ SplitFails(s) \/ SpawnSidecar(s) \/ SidecarReady(s)
  \/ SidecarNotReady(s) \/ PortFree(s) \/ PortInUse(s) \/ SpawnProxy(s) \/ SpawnProxyFails(s)
  \/ Healthy(s) \/ Unhealthy(s) \/ LeaveLoop(s) \/ StopProxy(s) \/ StopSidecar(s) \/ Reap(s)
  \/ Wipe(s) \/ Release(s)
Signals(s) == Flag(s) \/ Interrupt(s) \/ InterruptWrap(s) \/ Forward(s) \/ Kill(s)
SidecarStep(s) == LoadShares(s) \/ BindSocket(s) \/ Orphaned(s) \/ Drained(s)
ProcessStep(s) == Bind(s) \/ ProxyCrash(s) \/ SidecarStep(s) \/ SidecarTerm(s) \/ SidecarCrash(s)

SessionNext ==
  \/ \E s \in Session : UpStep(s) \/ SharedStep(s) \/ Signals(s) \/ ProcessStep(s)
  \/ DownReads \/ DownKills \/ DownUnlinks \/ RemoveDeadRuns

\* A sidecar's event loop keeps running: its poll of the parent and its drain are timers
SessionFairness == \A s \in Session : WF_sessionVars(SidecarStep(s))
SessionSpec == SessionInit /\ [][SessionNext]_sessionVars /\ SessionFairness

-----------------------------------------------------------------------------
(* Properties                                                              *)

\* An `up` that ends by itself, on an error, a crash of one of its two processes, a `down` or
\* a SIGINT or SIGTERM it had a flag for, leaves no process, no half of the key, no pid file
\* and no lock behind (_supervise_proxy_with_sidecar, shutdown_sidecar).
EndsClean ==
  \A s \in Session \ Wraps : over[s] \in {"ok", "failed"} =>
    /\ proxy[s] \in {"none", "dead"} /\ sidecar[s] \in {"none", "dead", "crashed"}
    /\ run[s] = {} /\ pid_file # s /\ up_lock # s

\* The halves of the key do not outlive a session killed while its sidecar served, whether
\* the sidecar notices by itself or is told to stop first (_wipe_when_orphaned and the
\* second look in _run).
OrphanWiped ==
  \A s \in Session :
    (over[s] = "killed" /\ sidecar[s] = "ready")
      ~> (run[s] \cap Shares = {} \/ sidecar[s] = "crashed")
=============================================================================
