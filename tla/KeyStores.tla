----------------------------- MODULE KeyStores -----------------------------
(***************************************************************************)
(* Where a key is kept, and how lock, unlock, uninstall, revoke and        *)
(* doctor move it (cli/commands/ over storage/repository.py): the .env     *)
(* files of the user's projects, and the tables shards, enrollments and    *)
(* retired_decoys.                                                         *)
(*                                                                         *)
(* One command runs at a time (acquire_lock, see ExclusiveLock).  A step   *)
(* is one transaction, or one replacement of a .env (see SafeRewrite);     *)
(* between two steps the command may be killed, a transaction or a rewrite *)
(* may fail, a signal may arrive, and the user may edit any file.          *)
(*                                                                         *)
(* A value of a key line is a secret, or the shard-A of a value: what the  *)
(* n-th split of it left in the file.  Reconstruction succeeds iff the     *)
(* row's split is the one the shard-A came from.  An alias is derived from *)
(* the value that was split, so the value stands for its alias.            *)
(***************************************************************************)
EXTENDS Naturals, Sequences, FiniteSets, SequencesExt

CONSTANTS
    Secret,         \* the user's API keys
    Env,            \* .env files
    Var,            \* variables that hold keys
    Slot,           \* *_BASE_URL variables
    SlotOf,         \* _derive_base_url_var
    Canonical,      \* variables named <SLOT>_API_KEY
    None,
    Own,            \* a *_BASE_URL value of the user's
    TwoNames,       \* may the user keep one key under two names in a file?
    EditsRace,      \* may the user edit a file while unlock is restoring it?
    Mortal,         \* steps that may fail or be killed
    MaxSplits,      \* bound: fresh splits
    MaxEdits,       \* bound: edits by the user
    MaxFaults       \* bound: kills, signals, failing transactions

Steps == {"idle", "enroll", "supersede", "record", "rewrite", "unwind",
          "unwind_shard", "restore", "forget", "retire", "drop",
          "uninstall", "purge", "teardown"}

ASSUME StoresAssumption ==
    /\ SlotOf \in [Var -> Slot]
    /\ Canonical \subseteq Var
    /\ None \notin Secret \cup Env \cup Var \cup Slot \cup {Own}
    /\ TwoNames \in BOOLEAN
    /\ Mortal \subseteq Steps
    /\ EditsRace \in BOOLEAN
    /\ MaxSplits \in Nat \ {0}
    /\ MaxEdits \in Nat
    /\ MaxFaults \in Nat

ShardOf(V) == [of : V, split : 1..MaxSplits]

Alias == Secret \cup ShardOf(Secret)
Value == Alias \cup ShardOf(Alias)

Route == [to : Alias]               \* the proxy's URL for an alias
Record == [slot : Slot \cup {None}, original : {None, Own}]
Snapshot == [Var -> Value \cup {None}] \X [Slot -> {None, Own} \cup Route]
Row == [alias : Alias, var : Var, env : Env, restore : Record \cup {None}]
Planned ==
    [alias : Alias, var : Var, shard_a : ShardOf(Alias), fresh : BOOLEAN]
        \cup [alias : Alias, var : Var, shard_a : ShardOf(Alias),
              restore : Record \cup {None}]

\* A key, a shard-A, a split, a route, what the user writes on a *_BASE_URL
\* line and what stands for nothing are told apart.
ASSUME ValuesAssumption ==
    /\ Secret \cap ShardOf(Alias) = {}
    /\ None \notin Value \cup 1..MaxSplits
    /\ None \notin Snapshot
    /\ None \notin Record
    /\ {None, Own} \cap Route = {}

VARIABLES
    env,            \* key lines of each file
    line,           \* *_BASE_URL lines of each file
    split,          \* shards: the split a row belongs to, None without a row
    enrolled,       \* enrollments
    decoys,         \* retired_decoys
    \* the running command
    pc,             \* what it does next
    file,           \* the file it works on
    todo,           \* variables to lock, or files to uninstall
    plan,           \* _PlannedUpdate or _PlannedRestore of each key
    seen,           \* the snapshot of the file
    keys_only,      \* lock --keys-only
    uninstalling,   \* "no", or how the uninstall unlock is part of goes
    \* what the user wants each line to be (history)
    wanted,
    wanted_line,
    splits, edits, faults

files == <<env, line>>
rows == <<split, enrolled, decoys>>
command == <<pc, file, todo, plan, seen, keys_only, uninstalling>>
user == <<wanted, wanted_line>>
bounds == <<splits, edits, faults>>
vars == <<files, rows, command, user, bounds>>

TypeOK ==
    /\ env \in [Env -> [Var -> Value \cup {None}]]
    /\ line \in [Env -> [Slot -> {None, Own} \cup Route]]
    /\ split \in [Alias -> (1..MaxSplits) \cup {None}]
    /\ enrolled \subseteq Row
    /\ decoys \subseteq ShardOf(Alias)
    /\ pc \in Steps
    /\ file \in Env \cup {None}
    /\ plan \in Seq(Planned)
    /\ keys_only \in BOOLEAN
    /\ uninstalling \in {"no", "restoring", "failed"}
    /\ wanted \in [Env -> [Var -> Secret \cup {None}]]
    /\ wanted_line \in [Env -> [Slot -> {None, Own}]]
    /\ splits \in 0..MaxSplits
    /\ edits \in 0..MaxEdits
    /\ faults \in 0..MaxFaults

Init ==
    /\ env = [e \in Env |-> [v \in Var |-> None]]
    /\ line = [e \in Env |-> [s \in Slot |-> None]]
    /\ split = [a \in Alias |-> None]
    /\ enrolled = {}
    /\ decoys = {}
    /\ pc = "idle"
    /\ file = None
    /\ todo = {}
    /\ plan = << >>
    /\ seen = None
    /\ keys_only = FALSE
    /\ uninstalling = "no"
    /\ wanted = [e \in Env |-> [v \in Var |-> None]]
    /\ wanted_line = [e \in Env |-> [s \in Slot |-> None]]
    /\ splits = 0
    /\ edits = 0
    /\ faults = 0

-----------------------------------------------------------------------------
(* The repository's transactions.                                          *)

ShardA(a) == [of |-> a, split |-> split[a]]

\* reconstruct_key_fp with the row of a: the commitment matches.
Reconstructs(x, a) == split[a] # None /\ x = ShardA(a)

RowsOf(a, e) == {r \in enrolled : r.alias = a /\ r.env = e}

RowsAt(v, e) == {r \in enrolled : r.var = v /\ r.env = e}

\* INSERT OR IGNORE: the first row for an alias, variable and file stays.
Enrolled(a, v, e) ==
    IF \E r \in RowsOf(a, e) : r.var = v
    THEN enrolled
    ELSE enrolled \cup {[alias |-> a, var |-> v, env |-> e, restore |-> None]}

\* upsert_locked_shard_and_enroll of split n.
UpsertAndEnroll(a, n, v, e) ==
    /\ split' = [split EXCEPT ![a] = n]
    /\ enrolled' = Enrolled(a, v, e)

\* delete_enrollment: by alias and file, whatever the variable.
DeleteEnrollment(a, e) == enrolled' = enrolled \ RowsOf(a, e)

\* delete_enrolled: the shard, and by CASCADE its enrollments.
DeleteEnrolled(a) ==
    /\ split' = [split EXCEPT ![a] = None]
    /\ enrolled' = {r \in enrolled : r.alias # a}

\* delete_superseded_enrollment_atomic.
DeleteSuperseded(a, e) ==
    /\ DeleteEnrollment(a, e)
    /\ split' = IF \E r \in enrolled' : r.alias = a
                THEN split
                ELSE [split EXCEPT ![a] = None]

\* Mutant: what a row remembers is never overwritten.
RecordRestoresOnce(e, records) ==
    enrolled' = {IF r.env = e /\ <<r.alias, r.var>> \in DOMAIN records /\ r.restore = None
                 THEN [r EXCEPT !.restore = records[<<r.alias, r.var>>]]
                 ELSE r : r \in enrolled}

\* record_base_url_restores; the rows it finds are the count it returns.
RecordRestores(e, records) ==
    enrolled' = {IF r.env = e /\ <<r.alias, r.var>> \in DOMAIN records
                 THEN [r EXCEPT !.restore = records[<<r.alias, r.var>>]]
                 ELSE r : r \in enrolled}

Fault ==
    /\ pc \in Mortal
    /\ faults < MaxFaults
    /\ faults' = faults + 1

Finish ==
    /\ pc' = IF uninstalling = "no" THEN "idle" ELSE "uninstall"
    /\ plan' = << >>
    /\ seen' = None
    /\ UNCHANGED <<todo, keys_only, uninstalling>>
    /\ file' = None

Stop ==
    /\ pc' = "idle"
    /\ file' = None
    /\ todo' = {}
    /\ plan' = << >>
    /\ seen' = None
    /\ keys_only' = FALSE
    /\ uninstalling' = "no"

-----------------------------------------------------------------------------
(* lock: _lock_keys and what it calls.                                     *)

\* _select_unlocked_keys: scanned variables that hold no enrolled shard-A.
Unlocked(e) ==
    {v \in Var : /\ env[e][v] # None
                 /\ \A r \in RowsAt(v, e) : ~Reconstructs(env[e][v], r.alias)}

\* _detect_already_locked_env.
AlreadyLocked(e) == \E s \in Slot : line[e][s] \in Route

\* A file whose every key is locked already is left alone.  A value that was
\* split twice is not split again: a bound of the model.
StartLock(e, k) ==
    /\ pc = "idle"
    /\ Unlocked(e) # {}
    /\ \A v \in Unlocked(e) : env[e][v] \in Alias
    /\ ~AlreadyLocked(e)
    /\ pc' = "enroll"
    /\ file' = e
    /\ todo' = Unlocked(e)
    /\ plan' = << >>
    /\ seen' = <<env[e], line[e]>>
    /\ keys_only' = k
    /\ UNCHANGED <<files, rows, user, bounds, uninstalling>>

Plan(a, v, n, fresh) ==
    Append(plan, [alias |-> a, var |-> v, fresh |-> fresh,
                  shard_a |-> [of |-> a, split |-> n]])

\* Mutant: a known alias is split again.
EnrollSplitsAgain(v) ==
    LET a == seen[1][v] IN
    /\ pc = "enroll"
    /\ v \in todo
    /\ todo' = todo \ {v}
    /\ splits < MaxSplits
    /\ splits' = splits + 1
    /\ plan' = Plan(a, v, splits', split[a] = None)
    /\ UpsertAndEnroll(a, splits', v, file)
    /\ pc' = "supersede"
    /\ UNCHANGED <<files, decoys, user, edits, faults,
                   file, seen, keys_only, uninstalling>>

\* _pass1_db_writes, one candidate: the plan is recorded first, then the row
\* is split afresh, or, when the alias is known, kept with its split.
Enroll(v) ==
    LET a == seen[1][v] IN
    /\ pc = "enroll"
    /\ v \in todo
    /\ todo' = todo \ {v}
    /\ \/ /\ split[a] # None
          /\ plan' = Plan(a, v, split[a], FALSE)
          /\ UpsertAndEnroll(a, split[a], v, file)
          /\ UNCHANGED splits
       \/ /\ split[a] = None
          /\ splits < MaxSplits
          /\ splits' = splits + 1
          /\ plan' = Plan(a, v, splits', TRUE)
          /\ UpsertAndEnroll(a, splits', v, file)
    /\ pc' = "supersede"
    /\ UNCHANGED <<files, decoys, user, edits, faults,
                   file, seen, keys_only, uninstalling>>

\* The same with its transaction rolled back: the plan has the key already.
EnrollFails(v) ==
    LET a == seen[1][v] IN
    /\ pc = "enroll"
    /\ v \in todo
    /\ Fault
    /\ todo' = {}
    /\ plan' = Plan(a, v, IF split[a] = None THEN 1 ELSE split[a], split[a] = None)
    /\ pc' = "unwind"
    /\ UNCHANGED <<files, rows, user, splits, edits,
                   file, seen, keys_only, uninstalling>>

\* _delete_superseded_location_enrollments.
Superseded ==
    {r.alias : r \in {q \in RowsAt(Last(plan).var, file) : q.alias # Last(plan).alias}}

Supersede ==
    /\ pc = "supersede"
    /\ \/ \E a \in Superseded :
            /\ DeleteSuperseded(a, file)
            /\ UNCHANGED pc
       \/ /\ Superseded = {}
          /\ pc' = IF todo = {} THEN "record" ELSE "enroll"
          /\ UNCHANGED <<split, enrolled>>
    /\ UNCHANGED <<files, decoys, user, bounds,
                   file, todo, plan, seen, keys_only, uninstalling>>

\* _plan_base_url_lines: the key each line routes.
Winner(s) ==
    LET here == {i \in DOMAIN plan : SlotOf[plan[i].var] = s}
        named == {i \in here : plan[i].var \in Canonical}
    IN  plan[IF named # {} THEN Max(named) ELSE Min(here)]

PlannedLines ==
    IF keys_only THEN {} ELSE {SlotOf[plan[i].var] : i \in DOMAIN plan}

\* _record_base_url_restores: what one planned key's row will remember.
RestoreRecord(p) ==
    LET mine == {s \in PlannedLines : Winner(s) = p}
        same == {s \in PlannedLines : Winner(s).alias = p.alias}
        slot == IF mine # {} THEN CHOOSE s \in mine : TRUE
                ELSE IF same # {} THEN CHOOSE s \in same : TRUE ELSE None
    IN  [slot |-> slot,
         original |-> IF slot = None THEN None ELSE seen[2][slot]]

PlannedRecords ==
    [k \in {<<plan[i].alias, plan[i].var>> : i \in DOMAIN plan} |->
        RestoreRecord(CHOOSE p \in ToSet(plan) : <<p.alias, p.var>> = k)]

\* A planned row that has gone again stops the lock before the .env changes.
RecordBaseUrlRestores ==
    /\ pc = "record"
    /\ RecordRestores(file, PlannedRecords)
    /\ pc' = IF \A i \in DOMAIN plan :
                    \E r \in RowsOf(plan[i].alias, file) : r.var = plan[i].var
             THEN "rewrite" ELSE "unwind"
    /\ UNCHANGED <<files, split, decoys, user, bounds,
                   file, todo, plan, seen, keys_only, uninstalling>>

\* A variable is planned once.
PlannedValue(v) ==
    IF \E p \in ToSet(plan) : p.var = v
    THEN (CHOOSE p \in ToSet(plan) : p.var = v).shard_a
    ELSE env[file][v]

\* _batch_rewrite, refused if the file is not the one of the snapshot.
Rewrite ==
    /\ pc = "rewrite"
    /\ seen = <<env[file], line[file]>>
    /\ env' = [env EXCEPT ![file] = [v \in Var |-> PlannedValue(v)]]
    /\ line' = [line EXCEPT ![file] = [s \in Slot |->
                    IF s \in PlannedLines THEN [to |-> Winner(s).alias] ELSE @[s]]]
    /\ Stop
    /\ UNCHANGED <<rows, user, bounds>>

RewriteRefused ==
    /\ pc = "rewrite"
    /\ seen # <<env[file], line[file]>>
    /\ pc' = "unwind"
    /\ UNCHANGED <<files, rows, user, bounds,
                   file, todo, plan, seen, keys_only, uninstalling>>

\* A signal, a failing transaction, a refused rewrite: nothing is committed
\* yet, so the rows are unwound.
LockFails ==
    /\ pc \in {"enroll", "supersede", "record", "rewrite"}
    /\ Fault
    /\ pc' = "unwind"
    /\ todo' = {}
    /\ UNCHANGED <<files, rows, user, splits, edits,
                   file, plan, seen, keys_only, uninstalling>>

\* _compensating_unwind, from the last key to the first.  A deletion that
\* fails is reported, and the next key's turn comes.
Unwind ==
    /\ pc = "unwind"
    /\ \/ /\ plan = << >>
          /\ Stop
          /\ UNCHANGED <<split, enrolled, faults>>
       \/ /\ plan # << >>
          /\ DeleteEnrollment(Last(plan).alias, file)
          /\ IF Last(plan).fresh
             THEN pc' = "unwind_shard" /\ UNCHANGED plan
             ELSE plan' = Front(plan) /\ UNCHANGED pc
          /\ UNCHANGED <<split, faults, file, todo, seen, keys_only, uninstalling>>
       \/ /\ plan # << >>
          /\ Fault
          /\ plan' = Front(plan)
          /\ UNCHANGED <<pc, split, enrolled, file, todo, seen, keys_only, uninstalling>>
    /\ UNCHANGED <<files, decoys, user, splits, edits>>

UnwindShard ==
    /\ pc = "unwind_shard"
    /\ DeleteEnrolled(Last(plan).alias)
    /\ plan' = Front(plan)
    /\ pc' = "unwind"
    /\ UNCHANGED <<files, decoys, user, bounds,
                   file, todo, seen, keys_only, uninstalling>>

-----------------------------------------------------------------------------
(* unlock, and the uninstall that runs it file by file.                    *)

EnrolledIn(e) == {r.alias : r \in {q \in enrolled : q.env = e}}

\* get_enrollment's answer for each alias: one of the rows it has in the file.
Found(e, A) ==
    {R \in SUBSET {r \in enrolled : r.env = e /\ r.alias \in A} :
        \A a \in A : Cardinality({r \in R : r.alias = a}) = 1}

\* _pass1_reconstruct: one key that does not reconstruct stops them all.
Opens(R) == \A r \in R : Reconstructs(env[r.env][r.var], r.alias)

BeginRestore(e, R) ==
    /\ pc' = "restore"
    /\ file' = e
    /\ plan' = SetToSeq({[alias |-> r.alias, var |-> r.var, restore |-> r.restore,
                          shard_a |-> env[e][r.var]] : r \in R})

\* Mutant: the shard-A is retired before the file is rewritten.
StartUnlockRetires(e, A) ==
    /\ pc = "idle"
    /\ A # {}
    /\ A \subseteq EnrolledIn(e)
    /\ \E R \in Found(e, A) :
            /\ Opens(R)
            /\ BeginRestore(e, R)
            /\ decoys' = decoys \cup {env[e][r.var] : r \in R}
    /\ UNCHANGED <<files, split, enrolled, user, bounds,
                   todo, seen, keys_only, uninstalling>>

StartUnlock(e, A) ==
    /\ pc = "idle"
    /\ A # {}
    /\ A \subseteq EnrolledIn(e)
    /\ \E R \in Found(e, A) : Opens(R) /\ BeginRestore(e, R)
    /\ UNCHANGED <<files, rows, user, bounds, todo, seen, keys_only, uninstalling>>

\* _line_actions: the lines lock may have written for p, while they route it.
Touches(p, s) ==
    /\ line[file][s] = [to |-> p.alias]
    /\ s = SlotOf[p.var] \/ (p.restore # None /\ s = p.restore.slot)

\* Mutant: the line gets the record itself.
GivenBackRecord(p, s) ==
    IF p.restore # None /\ p.restore.slot = s THEN p.restore ELSE None

GivenBack(p, s) ==
    IF p.restore # None /\ p.restore.slot = s THEN p.restore.original ELSE None

\* _batch_restore_env: judged on a snapshot of its own, not on pass 1's read.
Restore ==
    /\ pc = "restore"
    /\ env' = [env EXCEPT ![file] = [v \in Var |->
                IF \E p \in ToSet(plan) : p.var = v
                THEN (CHOOSE p \in ToSet(plan) : p.var = v).alias ELSE @[v]]]
    /\ line' = [line EXCEPT ![file] = [s \in Slot |->
                IF \E p \in ToSet(plan) : Touches(p, s)
                THEN GivenBack(CHOOSE p \in ToSet(plan) : Touches(p, s), s)
                ELSE @[s]]]
    /\ pc' = "forget"
    /\ UNCHANGED <<rows, user, bounds,
                   file, todo, plan, seen, keys_only, uninstalling>>

\* _pass3_db_cleanup, one key at a time: its enrollment,
Forget ==
    /\ pc = "forget"
    /\ \/ /\ plan = << >>
          /\ Finish
          /\ UNCHANGED enrolled
       \/ /\ plan # << >>
          /\ DeleteEnrollment(Head(plan).alias, file)
          /\ IF \E r \in enrolled : r.alias = Head(plan).alias /\ r.env # file
             THEN plan' = Tail(plan) /\ UNCHANGED pc
             ELSE pc' = "retire" /\ UNCHANGED plan
          /\ UNCHANGED <<file, todo, seen, keys_only, uninstalling>>
    /\ UNCHANGED <<files, split, decoys, user, bounds>>

\* then, if that was its last, its shard-A joins the tripwire,
Retire ==
    /\ pc = "retire"
    /\ decoys' = decoys \cup {Head(plan).shard_a}
    /\ pc' = "drop"
    /\ UNCHANGED <<files, split, enrolled, user, bounds,
                   file, todo, plan, seen, keys_only, uninstalling>>

\* and its shard goes.
Drop ==
    /\ pc = "drop"
    /\ DeleteEnrolled(Head(plan).alias)
    /\ plan' = Tail(plan)
    /\ pc' = "forget"
    /\ UNCHANGED <<files, decoys, user, bounds,
                   file, todo, seen, keys_only, uninstalling>>

StartUninstall ==
    /\ pc = "idle"
    /\ pc' = "uninstall"
    /\ todo' = {r.env : r \in enrolled}
    /\ uninstalling' = "restoring"
    /\ UNCHANGED <<files, rows, user, bounds, file, plan, seen, keys_only>>

\* _restore_all, one file.  An alias with two rows in the file is listed, and
\* planned, twice: an assertion fails, and with it the file.
UninstallFile(e) ==
    LET here == {r \in enrolled : r.env = e}
        once == \A q, r \in here : q.alias = r.alias => q = r
    IN  /\ pc = "uninstall"
        /\ e \in todo
        /\ todo' = todo \ {e}
        /\ \/ /\ once /\ Opens(here)
              /\ BeginRestore(e, here)
              /\ UNCHANGED uninstalling
           \/ /\ ~(once /\ Opens(here))
              /\ uninstalling' = "failed"
              /\ UNCHANGED <<pc, file, plan>>
        /\ UNCHANGED <<files, rows, user, bounds, seen, keys_only>>

\* Restoring a file fails: the others' turn comes, the wipe is off.
UninstallFileFails ==
    /\ pc \in {"restore", "forget", "retire", "drop"}
    /\ uninstalling # "no"
    /\ Fault
    /\ pc' = "uninstall"
    /\ file' = None
    /\ plan' = << >>
    /\ uninstalling' = "failed"
    /\ UNCHANGED <<files, rows, user, splits, edits, todo, seen, keys_only>>

\* _guard_failed_restores, without --force; then the whole home goes.
Wipe ==
    /\ pc = "uninstall"
    /\ todo = {}
    /\ IF uninstalling = "failed"
       THEN UNCHANGED rows
       ELSE /\ split' = [a \in Alias |-> None]
            /\ enrolled' = {}
            /\ decoys' = {}
    /\ Stop
    /\ UNCHANGED <<files, user, bounds>>

-----------------------------------------------------------------------------
(* revoke, doctor --fix, the user, and kills.                              *)

\* The lines that hold what is left of a are given up with it.
GiveUp(a) ==
    wanted' = [e \in Env |-> [v \in Var |->
                IF Reconstructs(env[e][v], a) THEN None ELSE wanted[e][v]]]

Revoke(a) ==
    /\ pc = "idle"
    /\ split[a] # None
    /\ DeleteEnrolled(a)
    /\ GiveUp(a)
    /\ UNCHANGED <<files, decoys, command, wanted_line, bounds>>

\* find_orphans: the file is there, the line is not.
Orphans == {r \in enrolled : env[r.env][r.var] = None}

StartPurge ==
    /\ pc = "idle"
    /\ Orphans # {}
    /\ pc' = "purge"
    /\ todo' = {<<r.alias, r.env>> : r \in Orphans}
    /\ seen' = {}
    /\ UNCHANGED <<files, rows, user, bounds, file, plan, keys_only, uninstalling>>

\* _purge_all: seen collects the aliases whose enrollments it deleted.
Purge ==
    /\ pc = "purge"
    /\ \/ \E k \in todo :
            /\ DeleteEnrollment(k[1], k[2])
            /\ todo' = todo \ {k}
            /\ seen' = seen \cup {k[1]}
            /\ UNCHANGED pc
       \/ /\ todo = {}
          /\ pc' = "teardown"
          /\ seen' = {a \in seen : \A r \in enrolled : r.alias # a}
          /\ UNCHANGED <<enrolled, todo>>
    /\ UNCHANGED <<files, split, decoys, user, bounds,
                   file, plan, keys_only, uninstalling>>

Teardown ==
    /\ pc = "teardown"
    /\ \/ \E a \in seen :
            /\ DeleteEnrolled(a)
            /\ seen' = seen \ {a}
            /\ UNCHANGED <<pc, file, todo, plan, keys_only, uninstalling>>
       \/ /\ seen = {}
          /\ Stop
          /\ UNCHANGED <<split, enrolled>>
    /\ UNCHANGED <<files, decoys, user, bounds>>

Edit ==
    /\ edits < MaxEdits
    /\ pc = "restore" => EditsRace
    /\ edits' = edits + 1
    /\ UNCHANGED <<rows, command, splits, faults>>

\* Unless TwoNames, a key has had one name in a file since it was locked there.
PutKey(e, v, s) ==
    /\ TwoNames \/ \A w \in Var \ {v} :
            /\ wanted[e][w] # s
            /\ \A r \in RowsAt(w, e) : r.alias # s
            /\ (file = e /\ seen # None) => seen[1][w] # s
    /\ Edit
    /\ env' = [env EXCEPT ![e][v] = s]
    /\ wanted' = [wanted EXCEPT ![e][v] = s]
    /\ UNCHANGED <<line, wanted_line>>

DeleteKey(e, v) ==
    /\ env[e][v] # None
    /\ Edit
    /\ env' = [env EXCEPT ![e][v] = None]
    /\ wanted' = [wanted EXCEPT ![e][v] = None]
    /\ UNCHANGED <<line, wanted_line>>

PutLine(e, s, x) ==
    /\ line[e][s] # x
    /\ Edit
    /\ line' = [line EXCEPT ![e][s] = x]
    /\ wanted_line' = [wanted_line EXCEPT ![e][s] = x]
    /\ UNCHANGED <<env, wanted>>

\* The process dies, or a failure ends a command that unwinds nothing.
Die ==
    /\ pc # "idle"
    /\ Fault
    /\ Stop
    /\ UNCHANGED <<files, rows, user, splits, edits>>

Next ==
    \/ \E e \in Env, k \in BOOLEAN : StartLock(e, k)
    \/ \E v \in Var : Enroll(v) \/ EnrollFails(v)
    \/ Supersede
    \/ RecordBaseUrlRestores
    \/ Rewrite
    \/ RewriteRefused
    \/ LockFails
    \/ Unwind
    \/ UnwindShard
    \/ \E e \in Env : \E A \in {EnrolledIn(e)} \cup {{a} : a \in EnrolledIn(e)} :
            StartUnlock(e, A)
    \/ Restore
    \/ Forget
    \/ Retire
    \/ Drop
    \/ StartUninstall
    \/ \E e \in Env : UninstallFile(e)
    \/ UninstallFileFails
    \/ Wipe
    \/ \E a \in Alias : Revoke(a)
    \/ StartPurge
    \/ Purge
    \/ Teardown
    \/ \E e \in Env, v \in Var, s \in Secret : PutKey(e, v, s)
    \/ \E e \in Env, v \in Var : DeleteKey(e, v)
    \/ \E e \in Env, s \in Slot, x \in {None, Own} : PutLine(e, s, x)
    \/ Die

Spec == Init /\ [][Next]_vars

-----------------------------------------------------------------------------
(* Properties.                                                             *)

Opened(x) == IF x \in ShardOf(Alias) THEN x.of ELSE x

\* A line the user wants a key on holds that key, or a shard-A that the stored
\* split of that key and an enrollment of this very line will open: whatever
\* was interrupted, failed, edited, locked elsewhere or purged, no key is lost.
EveryKeyRecoverable ==
    \A e \in Env, v \in Var :
        wanted[e][v] # None =>
            \/ env[e][v] = wanted[e][v]
            \/ /\ env[e][v] = ShardA(wanted[e][v])
               /\ \E r \in RowsOf(wanted[e][v], e) : r.var = v

\* While a *_BASE_URL line sends a locked key's traffic to the proxy, some
\* enrollment of that key in the file remembers what the user had there.
RouteRemembersOwner ==
    \A e \in Env, s \in Slot, v \in Var :
        /\ wanted[e][v] # None
        /\ env[e][v] # wanted[e][v]
        /\ line[e][s] = [to |-> wanted[e][v]]
        => \E r \in RowsOf(wanted[e][v], e) :
                r.restore = [slot |-> s, original |-> wanted_line[e][s]]

\* A shard-A enters the tripwire only when no line holds it any more, in any
\* file: the last enrollment's line has its key back.
RetiredIsUnused ==
    [][\A x \in decoys' \ decoys : \A e \in Env, v \in Var : env'[e][v] # x]_vars

\* The tripwire never holds the shard-A a wanted line and its row agree on:
\* the proxy would refuse that key's own traffic (record_retired_decoy's
\* NEVER).
NoLiveDecoy ==
    \A e \in Env, v \in Var :
        env[e][v] \in decoys => wanted[e][v] # Opened(env[e][v])

\* doctor --fix deletes no enrollment of a line that is there and opens with
\* it (_purge_all: "Surgical delete").
PurgeIsSurgical ==
    [][pc = "purge" => \A r \in enrolled \ enrolled' :
                            ~Reconstructs(env[r.env][r.var], r.alias)]_vars
=============================================================================
