--------------------------- MODULE LockInterrupts ---------------------------
(***************************************************************************)
(* What SIGINT, SIGTERM and SIGHUP do to a running lock (_LockInterrupts   *)
(* and _lock_keys in cli/commands/lock.py).                                *)
(*                                                                         *)
(* A signal reaches the Python handler _on_raw at once, between any two    *)
(* steps; its second half, the event loop's callback, runs only while the  *)
(* lock's task awaits.  The phase says what either may do: raise in the    *)
(* task, cancel it, or only record the signal.  The rows lock writes are   *)
(* unwound until the .env is rewritten, and needed afterwards.             *)
(***************************************************************************)
EXTENDS Naturals, FiniteSets

CONSTANTS
    Key,            \* candidates to lock
    MaxPresses,     \* bound: signals per lock
    MaxFailures     \* bound: failing steps

ASSUME InterruptsAssumption ==
    /\ IsFiniteSet(Key)
    /\ Key # {}
    /\ MaxPresses \in Nat
    /\ MaxFailures \in Nat

Signum == {1, 2, 15}    \* SIGHUP, SIGINT, SIGTERM

Unfinished == 73        \* _EXIT_OPENCLAW_UNFINISHED

VARIABLES
    at,             \* where _lock_async is
    phase,          \* _LockInterrupts.phase
    signum,         \* .signum, 0 before the first signal
    answered,       \* .answered
    committed,      \* .committed
    callbacks,      \* signals the event loop has not dispatched yet
    cancelling,     \* task.cancel() was called
    planned,        \* planned
    written,        \* the rows of planned keys
    code,           \* the exit code the lock is about to leave with
    present,        \* is there an OpenClaw on this host?
    wired,          \* does its configuration route through the proxy?
    sentinel,       \* last-lock-status.json
    heard,          \* history: where the first signal was received
    unclean,        \* history: a failure the lock does not hide
    failures, presses

machine == <<phase, signum, answered, committed>>
loop == <<callbacks, cancelling>>
outside == <<present, wired, sentinel>>
limits == <<heard, unclean, failures, presses>>
lockVars == <<at, machine, loop, planned, written, code, outside, limits>>

Synchronous ==
    {"preflight", "stretch", "rewrite", "committed", "postflight", "refused",
     "apply", "confirm", "record", "tail", "except", "wipe"}

Place == Synchronous \cup {"idle", "pass1", "unwind", "done"}

Codes == {0, Unfinished, 1, 87, 91, 92} \cup {128 + s : s \in Signum}

LockTypeOK ==
    /\ at \in Place
    /\ phase \in {"off", "raise", "cancel", "defer"}
    /\ signum \in Signum \cup {0}
    /\ answered \in BOOLEAN
    /\ committed \in BOOLEAN
    /\ callbacks \in Nat
    /\ cancelling \in BOOLEAN
    /\ planned \subseteq Key
    /\ written \subseteq Key
    /\ code \in Codes
    /\ present \in BOOLEAN
    /\ wired \in BOOLEAN
    /\ sentinel \in {"none", "ok", "absent", "unfinished", "failed"}
    /\ heard \in Place
    /\ unclean \in BOOLEAN
    /\ failures \in Nat
    /\ presses \in Nat

LockInit ==
    /\ at = "idle"
    /\ phase = "off"
    /\ signum = 0
    /\ answered = FALSE
    /\ committed = FALSE
    /\ callbacks = 0
    /\ cancelling = FALSE
    /\ planned = {}
    /\ written = {}
    /\ code = 0
    /\ present \in BOOLEAN
    /\ wired = FALSE
    /\ sentinel = "none"
    /\ heard = "idle"
    /\ unclean = FALSE
    /\ failures = 0
    /\ presses = 0

ExitCode == 128 + signum

\* The exception handler, reached with a signal or with a failure's code.
Raise(c) ==
    /\ at' = "except"
    /\ code' = c

Failure ==
    /\ failures < MaxFailures
    /\ failures' = failures + 1

Pending == signum # 0 /\ ~answered

-----------------------------------------------------------------------------
(* Signals.                                                                *)

\* After the commit, KeyboardInterrupt leads to _openclaw_steps' own handler,
\* out of raising().
Interrupted(s) ==
    /\ answered' = TRUE
    /\ IF committed
       THEN /\ at' = "record"
            /\ phase' = "defer"
            /\ UNCHANGED code
       ELSE /\ Raise(128 + s)
            /\ UNCHANGED phase

\* _on_raw
Signal(s) ==
    /\ phase # "off"
    /\ presses < MaxPresses
    /\ presses' = presses + 1
    /\ callbacks' = callbacks + 1
    /\ signum' = IF signum = 0 THEN s ELSE signum
    /\ heard' = IF signum = 0 THEN at ELSE heard
    /\ IF phase = "raise" /\ ~answered
       THEN Interrupted(signum')
       ELSE UNCHANGED <<at, code, answered, phase>>
    /\ UNCHANGED <<committed, cancelling, planned, written, outside,
                   unclean, failures>>

\* __call__, which the loop can only run while the task awaits.
Dispatch ==
    /\ at \in {"pass1", "unwind"}
    /\ callbacks > 0
    /\ callbacks' = callbacks - 1
    /\ IF phase = "cancel" /\ ~answered /\ ~committed
       THEN answered' = TRUE /\ cancelling' = TRUE
       ELSE UNCHANGED <<answered, cancelling>>
    /\ UNCHANGED <<at, phase, signum, committed, planned, written, code,
                   outside, limits>>

\* CancelledError at the next await: a rollback would stop where it is.
Cancelled ==
    /\ cancelling
    /\ at \in {"pass1", "unwind"}
    /\ cancelling' = FALSE
    /\ IF at = "pass1" THEN Raise(ExitCode)
                       ELSE at' = "wipe" /\ UNCHANGED code
    /\ UNCHANGED <<machine, callbacks, planned, written, outside, limits>>

-----------------------------------------------------------------------------
(* The lock up to the commit.                                              *)

\* arm(): the key is not locked yet.
Start ==
    /\ at = "idle"
    /\ ~committed
    /\ at' = "preflight"
    /\ phase' = "raise"
    /\ UNCHANGED <<signum, answered, committed, loop, planned, written, code,
                   outside, limits>>

\* Mutant: the status of the last lock is not read.
RelockIsFine ==
    /\ at = "idle"
    /\ committed
    /\ at' = "done"
    /\ code' = 0
    /\ UNCHANGED <<machine, loop, planned, written, outside, limits>>

\* Everything is locked: a lock only says whether the last one finished.
Relock ==
    /\ at = "idle"
    /\ committed
    /\ at' = "done"
    /\ code' = IF sentinel = "unfinished" THEN Unfinished ELSE 0
    /\ UNCHANGED <<machine, loop, planned, written, outside, limits>>

\* _openclaw_audit_preflight, then the probe of the proxy; enter(CANCEL).
Preflight ==
    /\ at = "preflight"
    /\ at' = "pass1"
    /\ phase' = "cancel"
    /\ UNCHANGED <<signum, answered, committed, loop, planned, written, code,
                   outside, limits>>

PreflightRefuses ==
    /\ at = "preflight"
    /\ present
    /\ \E c \in {1, 73, 87} : Raise(c)
    /\ UNCHANGED <<machine, loop, planned, written, outside, limits>>

\* _pass1_db_writes: the plan has a key before its row is written.
WriteRow(k) ==
    /\ at = "pass1"
    /\ ~cancelling
    /\ k \notin planned
    /\ planned' = planned \cup {k}
    /\ written' = written \cup {k}
    /\ UNCHANGED <<at, machine, loop, code, outside, limits>>

WriteRowFails(k) ==
    /\ at = "pass1"
    /\ ~cancelling
    /\ k \notin planned
    /\ Failure
    /\ planned' = planned \cup {k}
    /\ Raise(1)
    /\ UNCHANGED <<machine, loop, written, outside, heard, unclean, presses>>

\* Pass 1's last await is over: no callback runs from here on.
LastAwait ==
    /\ at = "pass1"
    /\ planned = Key
    /\ ~cancelling
    /\ at' = "stretch"
    /\ UNCHANGED <<machine, loop, planned, written, code, outside, limits>>

\* Mutant: a pending signal is not looked at.
EnterDeferAnyway ==
    /\ at = "stretch"
    /\ phase' = "defer"
    /\ at' = "rewrite"
    /\ UNCHANGED <<signum, answered, committed, loop, planned, written, code,
                   outside, limits>>

\* enter(DEFER): a signal recorded and never dispatched is answered now.
EnterDefer ==
    /\ at = "stretch"
    /\ phase' = "defer"
    /\ IF Pending
       THEN Raise(ExitCode) /\ answered' = TRUE
       ELSE at' = "rewrite" /\ UNCHANGED <<code, answered>>
    /\ UNCHANGED <<signum, committed, loop, planned, written, outside, limits>>

Commit ==
    /\ at = "rewrite"
    /\ committed' = TRUE
    /\ at' = "committed"
    /\ UNCHANGED <<phase, signum, answered, loop, planned, written, code,
                   outside, limits>>

CommitFails ==
    /\ at = "rewrite"
    /\ Failure
    /\ Raise(1)
    /\ UNCHANGED <<machine, loop, planned, written, outside, heard, unclean, presses>>

\* rolling_back(): from here a signal explains and never cancels.
Except ==
    /\ at = "except"
    /\ IF planned # {} /\ ~committed
       THEN /\ answered' = TRUE
            /\ phase' = "cancel"
            /\ at' = "unwind"
       ELSE /\ at' = "wipe"
            /\ UNCHANGED <<answered, phase>>
    /\ UNCHANGED <<signum, committed, loop, planned, written, code,
                   outside, limits>>

\* _compensating_unwind; a deletion that fails is reported.
UnwindRow(k) ==
    /\ at = "unwind"
    /\ k \in planned
    /\ planned' = planned \ {k}
    /\ written' = written \ {k}
    /\ UNCHANGED <<at, machine, loop, code, outside, limits>>

UnwindRowFails(k) ==
    /\ at = "unwind"
    /\ k \in planned
    /\ Failure
    /\ unclean' = TRUE
    /\ planned' = planned \ {k}
    /\ UNCHANGED <<at, machine, loop, written, code, outside, heard, presses>>

Unwound ==
    /\ at = "unwind"
    /\ planned = {}
    /\ at' = "wipe"
    /\ UNCHANGED <<machine, loop, planned, written, code, outside, limits>>

\* p.zero(), then disarm().
ZeroPlanned ==
    /\ at = "wipe"
    /\ phase' = "off"
    /\ at' = "done"
    /\ UNCHANGED <<signum, answered, committed, loop, planned, written, code,
                   outside, limits>>

\* The next lock: a new process.
Again ==
    /\ at = "done"
    /\ at' = "idle"
    /\ signum' = 0
    /\ answered' = FALSE
    /\ callbacks' = 0
    /\ cancelling' = FALSE
    /\ code' = 0
    /\ heard' = "idle"
    /\ presses' = 0
    /\ planned' = {}
    /\ UNCHANGED <<phase, committed, written, outside, unclean, failures>>

-----------------------------------------------------------------------------
(* After the commit: the OpenClaw steps.                                   *)

\* _note_added_lines and its like print, and printing may fail.
NoteFails ==
    /\ at = "committed"
    /\ Failure
    /\ unclean' = TRUE
    /\ Raise(1)
    /\ UNCHANGED <<machine, loop, planned, written, outside, heard, presses>>

\* raising(): enter(RAISE) answers what was recorded since the stretch.
EnterRaise ==
    /\ at = "committed"
    /\ phase' = "raise"
    /\ IF Pending
       THEN at' = "record" /\ answered' = TRUE
       ELSE at' = "postflight" /\ UNCHANGED answered
    /\ UNCHANGED <<signum, committed, loop, planned, written, code,
                   outside, limits>>

Leave(c) ==
    /\ at' = "tail"
    /\ phase' = "defer"
    /\ code' = c

\* _openclaw_audit_postflight, and the adoption prompt: Ctrl-D is an Abort.
Postflight ==
    /\ at = "postflight"
    /\ \/ /\ at' = "apply"
          /\ UNCHANGED phase
       \/ /\ present
          /\ at' = "refused"
          /\ UNCHANGED phase
       \/ /\ at' = "record"
          /\ phase' = "defer"
    /\ UNCHANGED <<signum, answered, committed, loop, planned, written, code,
                   outside, limits>>

\* _record_openclaw_unfinished
Refused ==
    /\ at = "refused"
    /\ sentinel' = "unfinished"
    /\ Leave(87)
    /\ UNCHANGED <<signum, answered, committed, loop, planned, written,
                   present, wired, limits>>

\* _apply_openclaw: absent, failed, or wired as far as apply_lock can tell.
Apply ==
    /\ at = "apply"
    /\ \/ /\ ~present
          /\ sentinel' = "absent"
          /\ Leave(0)
          /\ UNCHANGED wired
       \/ /\ present
          /\ sentinel' = "failed"
          /\ \E c \in {73, 87} : Leave(c)
          /\ UNCHANGED wired
       \/ /\ present
          /\ wired' = TRUE
          /\ at' = "confirm"
          /\ UNCHANGED <<phase, code, sentinel>>
    /\ UNCHANGED <<signum, answered, committed, loop, planned, written,
                   present, limits>>

\* Reload events of the gateway's log; an earlier lock's are not fresh.
Event == [kind : {"applied", "rejected"}, fresh : BOOLEAN]

\* _classify_reload_lines
Kinds(events) == {ev.kind : ev \in {e \in events : e.fresh}}

\* _confirm_openclaw_reload: a rejection beats everything, and a path that is
\* configured but broken counts as one.
ReloadVerdict(binary, events) ==
    IF binary = "broken" \/ (binary = "found" /\ "rejected" \in Kinds(events))
    THEN "fail"
    ELSE IF binary = "found" /\ "applied" \in Kinds(events) THEN "pass" ELSE "skipped"

\* _finalise_openclaw_success: the reload's verdict, then the probe's (see
\* BindProbe); an entry the user did not adopt still leads past the proxy.
Confirm ==
    /\ at = "confirm"
    /\ \E binary \in {"found", "unset", "broken"}, events \in SUBSET Event,
          bind \in {"pass", "fail", "skipped"}, adopted \in BOOLEAN :
        LET rejected == ReloadVerdict(binary, events) = "fail"
            proven == ~rejected /\ bind # "fail"
        IN  /\ Leave(IF rejected THEN 92 ELSE IF bind = "fail" THEN 91 ELSE 0)
            /\ wired' = (proven /\ adopted)
            /\ sentinel' = IF wired' THEN "ok" ELSE "failed"
    /\ UNCHANGED <<signum, answered, committed, loop, planned, written,
                   present, limits>>

\* The handler of _openclaw_steps: the record first, the exit code last.
RecordUnfinished ==
    /\ at = "record"
    /\ sentinel' = IF present THEN "unfinished" ELSE "absent"
    /\ at' = "tail"
    /\ code' = IF signum = 0 THEN 130 ELSE ExitCode
    /\ UNCHANGED <<machine, loop, planned, written, present, wired, limits>>

\* The result is returned; signals are only recorded.
Epilogue ==
    /\ at = "tail"
    /\ at' = "wipe"
    /\ UNCHANGED <<machine, loop, planned, written, code, outside, limits>>

LockNext ==
    \/ Start \/ Relock \/ Preflight \/ PreflightRefuses
    \/ \E k \in Key :
            \/ WriteRow(k) \/ WriteRowFails(k) \/ UnwindRow(k) \/ UnwindRowFails(k)
    \/ LastAwait \/ EnterDefer \/ Commit \/ CommitFails \/ Except \/ Unwound
    \/ ZeroPlanned \/ NoteFails \/ EnterRaise \/ Postflight \/ Refused \/ Apply
    \/ Confirm \/ RecordUnfinished \/ Epilogue \/ Dispatch \/ Cancelled
    \/ Again
    \/ \E s \in Signum : Signal(s)

LockSpec == LockInit /\ [][LockNext]_lockVars

-----------------------------------------------------------------------------
(* Properties.                                                             *)

\* When a lock has ended, the rows are there iff the .env needs them: a signal
\* after the commit unwinds nothing, and one before it, however often it is
\* repeated, never cuts the rollback short.
RowsFollowTheFile ==
    at = "done" => IF committed THEN written = Key ELSE written = {} \/ unclean

\* A signal that came before the rewrite means no key is locked, even if the
\* loop never got to dispatch it.
EarlyPressLocksNothing ==
    phase # "off" /\ heard \in {"preflight", "pass1", "stretch"} => ~committed

\* A lock that a signal reached while there was still something to stop does
\* not exit 0.
PressHeeded ==
    at = "done" /\ code = 0 => heard \in {"idle", "tail", "wipe"}

\* Keys locked with OpenClaw not routed: last-lock-status.json says so, and
\* until a set-up finished, no later lock calls it protected.
StatusHonest ==
    at = "done" /\ committed /\ present /\ ~wired /\ ~unclean =>
        \/ sentinel = "failed"
        \/ sentinel = "unfinished" /\ code # 0

\* An interrupted lock is all or nothing: before the commit it undoes everything,
\* from there on it undoes nothing (_LockInterrupts).
AllOrNothing == RowsFollowTheFile /\ EarlyPressLocksNothing

\* The exit code and the status file of a lock tell the truth, to the shell and to
\* the next lock.
ExitCodeHonest == PressHeeded /\ StatusHonest

=============================================================================
