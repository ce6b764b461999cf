---------------------------- MODULE KeyStoresProofs ----------------------------
(***************************************************************************)
(* No key is lost: whatever lock, unlock, uninstall, revoke and doctor     *)
(* --fix do to the .env files and the database, wherever they fail or are  *)
(* killed, and whatever the user edits in between, a line the user wants a *)
(* key on holds the key or a shard-A that the database opens.              *)
(*                                                                         *)
(* The invariant says three things of the data and one of each command.    *)
(* Of the data: a line that is not the key holds the shard-A of the key's  *)
(* stored split and is enrolled; a key has one name in a file; and a       *)
(* shard-A on a line nobody wants a key on belongs to a split that is gone *)
(* for good, so that nothing it is mistaken for comes back.  Of a command: *)
(* what its plan holds is still true of the rows and the file it was made  *)
(* from, so every deletion it has left misses the rows of sealed lines.    *)
(*                                                                         *)
(* What unlock retires is on no line any more (RetiredShardsAreUnused).    *)
(* A line that routes a locked key has its owner's value in a row          *)
(* (RoutesRememberOwners).                                                 *)
(* And no entry of the user's OpenClaw is lost (OpenClaw, at the end).     *)
(***************************************************************************)
EXTENDS KeyStores, OpenClaw, TLAPS, FiniteSetTheorems, FunctionTheorems, SequenceTheorems

-----------------------------------------------------------------------------
(* The invariant *)

\* All that stands on a line the user wants a key on is a shard-A.
Sealed(e, v) == wanted[e][v] # None /\ env[e][v] # wanted[e][v]

HasRow(a, v, e) == \E r \in enrolled : r.alias = a /\ r.var = v /\ r.env = e

\* A shard-A whose split is gone for good.
Burnt(x) == x.split <= splits /\ x.split # split[x.of]

\* The types the argument needs.
StoresOK ==
    /\ env \in [Env -> [Var -> Value \cup {None}]]
    /\ line \in [Env -> [Slot -> {None, Own} \cup Route]]
    /\ split \in [Alias -> (1..MaxSplits) \cup {None}]
    /\ enrolled \subseteq Row
    /\ IsFiniteSet(enrolled)
    /\ wanted \in [Env -> [Var -> Secret \cup {None}]]
    /\ splits \in 0..MaxSplits
    /\ pc \in Steps
    /\ plan \in Seq(Planned)
    /\ uninstalling \in {"no", "restoring", "failed"}

\* A sealed line opens: its shard-A is of the stored split, and it is enrolled.
KeysSafe ==
    \A e \in Env, v \in Var : Sealed(e, v) =>
        env[e][v] = ShardA(wanted[e][v]) /\ HasRow(wanted[e][v], v, e)

\* Every enrollment has its shard; no split is from the future.
SplitsOK ==
    /\ \A r \in enrolled : split[r.alias] # None
    /\ \A a \in Alias : split[a] # None => split[a] <= splits

\* In a file a wanted key stands on one line, and its rows name that line.
OneNameEach ==
    /\ \A e \in Env, v, w \in Var :
          v # w /\ wanted[e][v] # None => wanted[e][v] # wanted[e][w]
    /\ \A r \in enrolled, w \in Var : wanted[r.env][w] = r.alias => r.var = w

\* What is left on an unwanted line, or was locked as if it were a key, is dead.
BurntOK ==
    /\ \A e \in Env, v \in Var : wanted[e][v] = None =>
          env[e][v] \notin Secret /\ (env[e][v] \in ShardOf(Secret) => Burnt(env[e][v]))
    /\ \A r \in enrolled : r.alias \in ShardOf(Secret) => Burnt(r.alias)

\* What the files and the database promise between any two steps.
DataOK == KeysSafe /\ SplitsOK /\ OneNameEach /\ BurntOK

\* Where lock is before its .env rewrite, and while it unwinds.
Before == {"enroll", "supersede", "record", "rewrite"}
Undoing == {"unwind", "unwind_shard"}

\* A planned key is what its line held, and deleting its rows seals nothing off.
LockPlanned(p) ==
    /\ p.var \in Var
    /\ p.alias = seen[1][p.var]
    /\ p.alias \in Alias
    /\ p.fresh \in BOOLEAN
    /\ ~Sealed(file, p.var)
    /\ p.fresh => \A e \in Env, v \in Var : Sealed(e, v) => wanted[e][v] # p.alias

\* Its shard-A may go to the file.
Committable(p) ==
    /\ p.shard_a \in ShardOf(Alias)
    /\ p.shard_a.of = p.alias
    /\ p.alias \in Secret => p.shard_a = ShardA(p.alias) /\ HasRow(p.alias, p.var, file)

\* The snapshot of the file: a key in it has one name there.
SeenOK ==
    /\ file \in Env
    /\ seen = <<seen[1], seen[2]>>
    /\ seen # None
    /\ seen[1] \in [Var -> Value \cup {None}]
    /\ seen[2] \in [Slot -> {None, Own}]
    /\ \A v \in Var : seen[1][v] \in Secret =>
          /\ \A w \in Var \ {v} : wanted[file][w] # seen[1][v] /\ seen[1][w] # seen[1][v]
          /\ \A r \in enrolled : r.env = file /\ r.alias = seen[1][v] => r.var = v

\* What lock relies on between its steps.
LockingOK ==
    pc \in Before \cup Undoing =>
        /\ SeenOK
        /\ todo \subseteq Var
        /\ \A v \in todo :
              /\ ~Sealed(file, v)
              /\ seen[1][v] \in Alias
              /\ seen[1][v] \in ShardOf(Secret) => Burnt(seen[1][v])
        /\ \A p \in ToSet(plan) : LockPlanned(p)
        /\ pc \in Before => \A p \in ToSet(plan) : Committable(p)
        /\ pc \in {"supersede", "unwind_shard"} => plan # << >>
        /\ pc = "unwind_shard" => Last(plan).fresh

\* A planned restore: its rows are nobody else's, and before the rewrite it opens.
RestorePlanned(p) ==
    /\ p.var \in Var
    /\ p.alias \in Alias
    /\ p.restore \in Record \cup {None}
    /\ \A w \in Var \ {p.var} : Sealed(file, w) => wanted[file][w] # p.alias
    /\ IF pc = "restore"
       THEN /\ Reconstructs(env[file][p.var], p.alias)
            /\ p.alias \in ShardOf(Secret) => Burnt(p.alias)
       ELSE ~Sealed(file, p.var)

\* What unlock relies on between its steps.
RestoringOK ==
    pc \in {"restore", "forget", "retire", "drop"} =>
        /\ file \in Env
        /\ \A p \in ToSet(plan) : RestorePlanned(p)
        /\ pc \in {"retire", "drop"} =>
              plan # << >> /\ \A r \in enrolled : r.alias # Head(plan).alias

\* The wipe is still on only if every file done so far has its keys back.
UninstallOK ==
    /\ pc = "uninstall" => uninstalling # "no"
    /\ uninstalling # "no" => pc \in {"restore", "forget", "retire", "drop", "uninstall"}
    /\ uninstalling = "restoring" =>
          \A e \in Env \ todo, v \in Var : Sealed(e, v) =>
              pc = "restore" /\ e = file /\ \E p \in ToSet(plan) : p.var = v

\* doctor --fix deletes rows of lines that are gone.
PurgeOK ==
    /\ pc = "purge" =>
          /\ todo \subseteq Alias \X Env
          /\ \A k \in todo, v \in Var : Sealed(k[2], v) => wanted[k[2]][v] # k[1]
    /\ pc \in {"purge", "teardown"} => seen \subseteq Alias
    /\ pc = "teardown" => \A a \in seen, r \in enrolled : r.alias # a

\* The inductive invariant.
StoresInv ==
    /\ StoresOK
    /\ DataOK
    /\ LockingOK
    /\ RestoringOK
    /\ UninstallOK
    /\ PurgeOK

-----------------------------------------------------------------------------
(* Facts the steps share *)

USE StoresAssumption, ValuesAssumption

(* A key, the shard-As of keys and the shard-As of those are apart.        *)
LEMMA ValueKinds ==
    /\ Secret \subseteq Alias
    /\ Alias \subseteq Value
    /\ ShardOf(Secret) \subseteq Alias
    /\ \A a \in Alias, n \in 1..MaxSplits : [of |-> a, split |-> n] \in ShardOf(Alias)
    /\ \A x \in ShardOf(Alias) : x.of \in Alias /\ x.split \in 1..MaxSplits /\ x \in Value
    /\ \A x \in ShardOf(Alias) : x \notin Secret
    /\ \A x \in ShardOf(Alias) : x \in ShardOf(Secret) <=> x.of \in Secret
    /\ \A x \in ShardOf(Secret) : x.of \in Secret /\ x.split \in 1..MaxSplits /\ x \in ShardOf(Alias)
    /\ None \notin Value
    /\ None \notin 1..MaxSplits
    /\ \A x \in Value : x \notin ShardOf(Alias) => x \in Secret
BY DEF Alias, Value, ShardOf

(* Rows may go, as long as those of sealed lines stay.                     *)
LEMMA RowsGo ==
    ASSUME StoresOK, DataOK,
           UNCHANGED <<env, wanted, splits>>,
           \A r \in enrolled' : r.alias \in Alias /\ HasRow(r.alias, r.var, r.env),
           \A a \in Alias : split'[a] = split[a] \/ split'[a] = None,
           \A r \in enrolled' : split'[r.alias] = split[r.alias],
           \A e \in Env, v \in Var : Sealed(e, v) =>
               \E r \in enrolled' : r.alias = wanted[e][v] /\ r.var = v /\ r.env = e
    PROVE  DataOK'
<1>1. KeysSafe'
  <2> SUFFICES ASSUME NEW e \in Env, NEW v \in Var, Sealed(e, v)
               PROVE  /\ env[e][v] = [of |-> wanted[e][v], split |-> split'[wanted[e][v]]]
                      /\ \E r \in enrolled' : r.alias = wanted[e][v] /\ r.var = v /\ r.env = e
    BY DEF KeysSafe, Sealed, HasRow, ShardA
  <2>1. PICK r \in enrolled' : r.alias = wanted[e][v] /\ r.var = v /\ r.env = e
    OBVIOUS
  <2>2. split'[wanted[e][v]] = split[wanted[e][v]]
    BY <2>1
  <2>3. QED
    BY <2>1, <2>2 DEF DataOK, KeysSafe, ShardA
<1>2. SplitsOK'
  <2>1. \A r \in enrolled' : split'[r.alias] # None
    BY DEF DataOK, SplitsOK, HasRow
  <2>2. \A a \in Alias : split'[a] # None => split'[a] <= splits
    BY DEF DataOK, SplitsOK
  <2>3. QED
    BY <2>1, <2>2 DEF SplitsOK
<1>3. OneNameEach'
  BY DEF DataOK, OneNameEach, HasRow
<1>4. BurntOK'
  <2>1. \A x \in ShardOf(Secret) : Burnt(x) => x.split <= splits /\ x.split # split'[x.of]
    BY ValueKinds DEF Burnt
  <2>2. \A r \in enrolled' : r.alias \in ShardOf(Secret) => Burnt(r.alias)
    BY DEF DataOK, BurntOK, HasRow
  <2>3. QED
    BY <2>1, <2>2 DEF DataOK, BurntOK, Burnt
<1>5. QED
  BY <1>1, <1>2, <1>3, <1>4 DEF DataOK

(* delete_enrollment of an alias no sealed line of the file stands for.    *)
LEMMA DeleteEnrollmentKeeps ==
    ASSUME StoresOK, DataOK,
           UNCHANGED <<env, wanted, splits>>,
           NEW a, NEW e, DeleteEnrollment(a, e),
           \A b \in Alias : split'[b] = split[b] \/ split'[b] = None,
           \A r \in enrolled' : split'[r.alias] = split[r.alias],
           \A v \in Var : Sealed(e, v) => wanted[e][v] # a
    PROVE  /\ DataOK' /\ IsFiniteSet(enrolled')
           /\ enrolled' \subseteq enrolled
           /\ \A r \in enrolled : r \notin enrolled' => r.alias = a /\ r.env = e
           /\ \A r \in enrolled' : r.alias # a \/ r.env # e
<1>1. /\ enrolled' \subseteq enrolled
      /\ \A r \in enrolled : r \notin enrolled' => r.alias = a /\ r.env = e
      /\ \A r \in enrolled' : r.alias # a \/ r.env # e
  BY DEF DeleteEnrollment, RowsOf
<1>2. \A d \in Env, v \in Var : Sealed(d, v) =>
               \E r \in enrolled' : r.alias = wanted[d][v] /\ r.var = v /\ r.env = d
  BY <1>1 DEF DataOK, KeysSafe, HasRow
<1>3. \A r \in enrolled' : r.alias \in Alias /\ HasRow(r.alias, r.var, r.env)
  BY <1>1 DEF StoresOK, Row, HasRow
<1>4. IsFiniteSet(enrolled')
  BY <1>1, FS_Subset DEF StoresOK
<1>5. QED
  BY <1>1, <1>2, <1>3, <1>4, RowsGo

(* delete_enrolled of an alias no sealed line stands for.                  *)
LEMMA DeleteEnrolledKeeps ==
    ASSUME StoresOK, DataOK,
           UNCHANGED <<env, wanted, splits>>,
           NEW a \in Alias, DeleteEnrolled(a),
           \A e \in Env, v \in Var : Sealed(e, v) => wanted[e][v] # a
    PROVE  /\ DataOK' /\ IsFiniteSet(enrolled')
           /\ split' \in [Alias -> (1..MaxSplits) \cup {None}]
           /\ \A b \in Alias : split'[b] = IF b = a THEN None ELSE split[b]
           /\ enrolled' = {r \in enrolled : r.alias # a}
<1>1. /\ split' \in [Alias -> (1..MaxSplits) \cup {None}]
      /\ \A b \in Alias : split'[b] = IF b = a THEN None ELSE split[b]
      /\ enrolled' = {r \in enrolled : r.alias # a}
  BY DEF DeleteEnrolled, StoresOK
<1>2. \A r \in enrolled' : r.alias \in Alias /\ HasRow(r.alias, r.var, r.env)
  BY <1>1 DEF StoresOK, Row, HasRow
<1>3. \A d \in Env, v \in Var : Sealed(d, v) =>
               \E r \in enrolled' : r.alias = wanted[d][v] /\ r.var = v /\ r.env = d
  BY <1>1 DEF DataOK, KeysSafe, HasRow
<1>4. /\ enrolled' \subseteq enrolled
      /\ \A b \in Alias : split'[b] = split[b] \/ split'[b] = None
      /\ \A r \in enrolled' : split'[r.alias] = split[r.alias]
  BY <1>1, <1>2
<1>5. IsFiniteSet(enrolled')
  BY <1>4, FS_Subset DEF StoresOK
<1>6. QED
  BY <1>1, <1>2, <1>3, <1>4, <1>5, RowsGo

(* Steps that touch neither the key lines nor the rows.                    *)
LEMMA DataSame ==
    ASSUME StoresOK, DataOK, UNCHANGED <<env, wanted, splits, split, enrolled>>
    PROVE  DataOK'
BY DEF DataOK, KeysSafe, SplitsOK, OneNameEach, BurntOK, Sealed, HasRow, ShardA, Burnt

(* A burnt split never comes back: splits are numbered upwards.            *)
LEMMA BurntStays ==
    ASSUME StoresOK, NEW x \in ShardOf(Secret), Burnt(x), splits' \in Nat, splits' >= splits,
           \A a \in Alias : split'[a] = split[a] \/ split'[a] = None \/ split'[a] = splits + 1
    PROVE  Burnt(x)'
BY ValueKinds DEF StoresOK, Burnt

(* A command that has ended relies on nothing.                             *)
LEMMA Stopped ==
    ASSUME Stop
    PROVE  /\ LockingOK' /\ RestoringOK' /\ UninstallOK' /\ PurgeOK'
           /\ pc' \in Steps /\ plan' \in Seq(Planned) /\ uninstalling' \in {"no", "restoring", "failed"}
<1>1. pc' = "idle" /\ plan' = << >> /\ uninstalling' = "no"
  BY DEF Stop
<1>2. LockingOK' /\ RestoringOK' /\ UninstallOK' /\ PurgeOK'
  BY <1>1 DEF LockingOK, RestoringOK, UninstallOK, PurgeOK, Before, Undoing
<1>3. QED
  BY <1>1, <1>2 DEF Steps

(* The empty plan.                                                         *)
LEMMA EmptySet == ToSet(<< >>) = {}
BY DEF ToSet

-----------------------------------------------------------------------------
(* lock *)

(* _lock_keys starts: what it scans as unlocked is not sealed.             *)
LEMMA StartLockStep ==
    ASSUME StoresInv, NEW e \in Env, NEW k \in BOOLEAN, StartLock(e, k)
    PROVE  StoresInv'
<1>1. StoresOK'
  BY DEF StartLock, StoresInv, StoresOK, files, rows, user, bounds, Steps
<1>2. DataOK'
  BY DataSame DEF StartLock, StoresInv, files, rows, user, bounds
<1>3. /\ pc' = "enroll" /\ file' = e /\ todo' = Unlocked(e) /\ plan' = << >>
      /\ seen' = <<env[e], line[e]>> /\ uninstalling' = uninstalling /\ pc = "idle"
      /\ UNCHANGED <<env, line, split, enrolled, wanted, splits>>
      /\ \A v \in Unlocked(e) : env[e][v] \in Alias
      /\ ~AlreadyLocked(e)
  BY DEF StartLock, files, rows, user, bounds
<1>4. seen'[1] = env[e] /\ seen'[2] = line[e] /\ seen' # None
  <2>1. <<env[e], line[e]>> \in Snapshot
    BY DEF Snapshot, StoresInv, StoresOK
  <2>2. QED
    BY <1>3, <2>1
<1>5. LockingOK'
  <2>1. \A v \in Var : env[e][v] \in Secret => wanted[e][v] = env[e][v]
    <3> SUFFICES ASSUME NEW v \in Var, env[e][v] \in Secret, wanted[e][v] # env[e][v] PROVE FALSE
      OBVIOUS
    <3>1. wanted[e][v] \in Alias /\ wanted[e][v] # None
      BY ValueKinds DEF StoresInv, StoresOK, DataOK, BurntOK
    <3>2. env[e][v] = ShardA(wanted[e][v]) /\ HasRow(wanted[e][v], v, e)
      BY <3>1 DEF StoresInv, DataOK, KeysSafe, Sealed
    <3>3. split[wanted[e][v]] \in 1..MaxSplits
      BY <3>1, <3>2 DEF StoresInv, StoresOK, DataOK, SplitsOK, HasRow
    <3>4. QED
      BY <3>1, <3>2, <3>3, ValueKinds DEF ShardA
  <2>2. \A v \in Unlocked(e) : ~Sealed(e, v)
    <3> SUFFICES ASSUME NEW v \in Unlocked(e), Sealed(e, v) PROVE FALSE
      OBVIOUS
    <3>1. v \in Var /\ env[e][v] = ShardA(wanted[e][v]) /\ HasRow(wanted[e][v], v, e)
      BY DEF Unlocked, StoresInv, DataOK, KeysSafe
    <3>2. PICK r \in RowsAt(v, e) : r.alias = wanted[e][v]
      BY <3>1 DEF HasRow, RowsAt
    <3>3. split[wanted[e][v]] # None
      BY <3>2 DEF RowsAt, StoresInv, DataOK, SplitsOK
    <3>4. QED
      BY <3>1, <3>2, <3>3 DEF Unlocked, Reconstructs
  <2>3. \A v \in Unlocked(e) : env[e][v] \in ShardOf(Secret) => Burnt(env[e][v])
    <3> SUFFICES ASSUME NEW v \in Unlocked(e), env[e][v] \in ShardOf(Secret) PROVE Burnt(env[e][v])
      OBVIOUS
    <3>1. v \in Var /\ ~Sealed(e, v)
      BY <2>2 DEF Unlocked
    <3>2. wanted[e][v] \notin Secret
      BY <3>1, ValueKinds DEF Sealed, StoresInv, StoresOK
    <3>3. QED
      BY <3>1, <3>2 DEF StoresInv, StoresOK, DataOK, BurntOK
  <2>4. line[e] \in [Slot -> {None, Own}]
    BY <1>3 DEF AlreadyLocked, StoresInv, StoresOK
  <2>5. SeenOK'
    <3>1. \A v \in Var : env[e][v] \in Secret =>
            /\ \A w \in Var \ {v} : wanted[e][w] # env[e][v] /\ env[e][w] # env[e][v]
            /\ \A r \in enrolled : r.env = e /\ r.alias = env[e][v] => r.var = v
      BY <2>1, ValueKinds DEF StoresInv, StoresOK, DataOK, OneNameEach
    <3>2. QED
      BY <1>3, <1>4, <2>4, <3>1 DEF SeenOK, StoresInv, StoresOK
  <2>6. Unlocked(e) \subseteq Var
    BY DEF Unlocked
  <2>7. \A v \in Unlocked(e) : ~Sealed(e, v)' /\ (env[e][v] \in ShardOf(Secret) => Burnt(env[e][v])')
    BY <1>3, <2>2, <2>3 DEF Sealed, Burnt
  <2>8. \A v \in todo' :
          /\ ~Sealed(file, v)'
          /\ (seen[1][v] \in Alias)'
          /\ (seen[1][v] \in ShardOf(Secret) => Burnt(seen[1][v]))'
    BY <1>3, <1>4, <2>2, <2>3 DEF Sealed, Burnt
  <2>9. QED
    BY <1>3, <2>5, <2>6, <2>8, EmptySet DEF LockingOK, Before, Undoing
<1>6. RestoringOK' /\ UninstallOK' /\ PurgeOK'
  BY <1>3 DEF RestoringOK, UninstallOK, PurgeOK, StoresInv
<1>7. QED
  BY <1>1, <1>2, <1>5, <1>6 DEF StoresInv

(* The snapshot stays good while the rows of its file are its own.         *)
LEMMA SeenKept ==
    ASSUME StoresOK, SeenOK, UNCHANGED <<wanted, file, seen>>,
           \A r \in enrolled' : r \in Row /\
               (r.env = file => r.alias = seen[1][r.var] \/ HasRow(r.alias, r.var, r.env))
    PROVE  SeenOK'
<1>1. ASSUME NEW v \in Var, seen[1][v] \in Secret, NEW r \in enrolled', r.env = file, r.alias = seen[1][v]
      PROVE  r.var = v
  <2>1. CASE r.alias = seen[1][r.var]
    BY <1>1, <2>1 DEF SeenOK, Row
  <2>2. CASE HasRow(r.alias, r.var, r.env)
    BY <1>1, <2>2 DEF SeenOK, HasRow
  <2>3. QED
    BY <1>1, <2>1, <2>2
<1>2. QED
  BY <1>1 DEF SeenOK

(* While lock runs, no other command does.                                 *)
LEMMA NoTwoKinds ==
    ASSUME pc \in Before \cup Undoing, UNCHANGED uninstalling, StoresInv, pc' \in Before \cup Undoing
    PROVE  RestoringOK' /\ UninstallOK' /\ PurgeOK'
<1>1. uninstalling = "no" /\ uninstalling' = "no"
  BY DEF StoresInv, StoresOK, UninstallOK, Before, Undoing
<1>2. QED
  BY <1>1 DEF RestoringOK, UninstallOK, PurgeOK, Before, Undoing

(* A plan outlives changes of the rows.                                    *)
LEMMA LockPlannedKept ==
    ASSUME NEW p, LockPlanned(p), UNCHANGED <<env, wanted, file, seen>>
    PROVE  LockPlanned(p)'
BY DEF LockPlanned, Sealed

(* A shard-A stays good while its split and its row stay.                  *)
LEMMA CommittableKept ==
    ASSUME NEW p, LockPlanned(p), Committable(p), UNCHANGED file,
           p.alias \in Secret /\ split[p.alias] # None => split'[p.alias] = split[p.alias],
           p.alias \in Secret /\ HasRow(p.alias, p.var, file) =>
               \E r \in enrolled' : r.alias = p.alias /\ r.var = p.var /\ r.env = file,
           StoresOK, SplitsOK
    PROVE  Committable(p)'
<1>1. CASE p.alias \in Secret
  <2>1. p.shard_a = ShardA(p.alias) /\ HasRow(p.alias, p.var, file)
    BY <1>1 DEF Committable
  <2>2. split[p.alias] # None
    BY <2>1 DEF HasRow, SplitsOK
  <2>3. QED
    BY <1>1, <2>1, <2>2 DEF Committable, HasRow, ShardA
<1>2. CASE p.alias \notin Secret
  BY <1>2 DEF Committable
<1>3. QED
  BY <1>1, <1>2

(* One more planned key.                                                   *)
LEMMA AppendSet ==
    ASSUME NEW S, NEW s \in Seq(S), NEW x \in S
    PROVE  /\ Append(s, x) \in Seq(S)
           /\ Append(s, x) # << >>
           /\ ToSet(Append(s, x)) = ToSet(s) \cup {x}
           /\ Last(Append(s, x)) = x
<1>1. Append(s, x) \in Seq(S) /\ Append(s, x) # << >> /\ Last(Append(s, x)) = x
  BY DEF Last
<1>2. ToSet(Append(s, x)) = ToSet(s) \cup {x}
  <2>1. DOMAIN Append(s, x) = 1..(Len(s) + 1) /\ DOMAIN s = 1..Len(s) /\ Len(s) \in Nat
    OBVIOUS
  <2>2. \A i \in 1..Len(s) : Append(s, x)[i] = s[i]
    OBVIOUS
  <2>3. Append(s, x)[Len(s) + 1] = x
    OBVIOUS
  <2>4. QED
    BY <2>1, <2>2, <2>3 DEF ToSet
<1>3. QED
  BY <1>1, <1>2

(* _pass1_db_writes: a known alias keeps its split, a new one gets a new number. *)
LEMMA EnrollStep ==
    ASSUME StoresInv, NEW v \in Var, Enroll(v)
    PROVE  StoresInv'
<1>a. PICK a : a = seen[1][v]
  OBVIOUS
<1>f. PICK f : f = file
  OBVIOUS
<1>1. /\ pc = "enroll" /\ v \in todo /\ todo' = todo \ {v} /\ pc' = "supersede"
      /\ UNCHANGED <<env, line, wanted, file, seen, uninstalling>>
  BY DEF Enroll, files, user
<1>2. /\ SeenOK /\ a \in Alias /\ ~Sealed(f, v) /\ f \in Env
      /\ a \in ShardOf(Secret) => Burnt(a)
  BY <1>1, <1>a, <1>f DEF StoresInv, LockingOK, Before, SeenOK
<1>3. PICK n \in 1..MaxSplits, fresh \in BOOLEAN :
        /\ UpsertAndEnroll(a, n, v, f)
        /\ plan' = Plan(a, v, n, fresh)
        /\ splits' \in 0..MaxSplits /\ splits' >= splits /\ n <= splits'
        /\ (split[a] = n /\ ~fresh /\ splits' = splits)
           \/ (split[a] = None /\ fresh /\ splits' = splits + 1 /\ n = splits + 1)
  <2>1. split[a] # None => split[a] \in 1..MaxSplits /\ split[a] <= splits
    BY <1>2 DEF StoresInv, StoresOK, DataOK, SplitsOK
  <2>2. splits \in 0..MaxSplits /\ MaxSplits \in Nat
    BY DEF StoresInv, StoresOK
  <2>3. CASE split[a] # None /\ plan' = Plan(a, v, split[a], FALSE) /\ UpsertAndEnroll(a, split[a], v, f) /\ splits' = splits
    <3>1. PICK n \in 1..MaxSplits : n = split[a]
      BY <2>1, <2>3
    <3>2. UpsertAndEnroll(a, n, v, f) /\ plan' = Plan(a, v, n, FALSE)
      BY <2>3, <3>1 DEF UpsertAndEnroll, Plan
    <3>3. splits' \in 0..MaxSplits /\ splits' >= splits /\ n <= splits' /\ split[a] = n /\ splits' = splits
      BY <2>1, <2>2, <2>3, <3>1
    <3>4. QED
      BY <3>2, <3>3
  <2>4. CASE split[a] = None /\ splits < MaxSplits /\ splits' = splits + 1 /\ plan' = Plan(a, v, splits', TRUE) /\ UpsertAndEnroll(a, splits', v, f)
    <3>1. PICK n \in 1..MaxSplits : n = splits + 1
      BY <2>2, <2>4
    <3>2. UpsertAndEnroll(a, n, v, f) /\ plan' = Plan(a, v, n, TRUE)
      BY <2>4, <3>1 DEF UpsertAndEnroll, Plan
    <3>3. splits' \in 0..MaxSplits /\ splits' >= splits /\ n <= splits' /\ split[a] = None /\ splits' = splits + 1
      BY <2>2, <2>4, <3>1
    <3>4. QED
      BY <3>1, <3>2, <3>3
  <2>5. QED
    BY <2>3, <2>4, <1>a, <1>f DEF Enroll
<1>4. /\ \A b \in Alias : split'[b] = IF b = a THEN n ELSE split[b]
      /\ split' \in [Alias -> (1..MaxSplits) \cup {None}]
  BY <1>2, <1>3 DEF UpsertAndEnroll, StoresInv, StoresOK
<1>5. PICK new : new = [alias |-> a, var |-> v, env |-> f, restore |-> None]
  OBVIOUS
<1>6. /\ new \in Row /\ new.alias = a /\ new.var = v /\ new.env = f
  BY <1>2, <1>5 DEF Row
<1>7. /\ enrolled' = enrolled \/ enrolled' = enrolled \cup {new}
      /\ \E r \in enrolled' : r.alias = a /\ r.var = v /\ r.env = f
  <2>1. CASE \E r \in RowsOf(a, f) : r.var = v
    BY <1>3, <2>1 DEF UpsertAndEnroll, Enrolled, RowsOf
  <2>2. CASE ~\E r \in RowsOf(a, f) : r.var = v
    <3>1. enrolled' = enrolled \cup {new}
      BY <1>3, <1>5, <2>2 DEF UpsertAndEnroll, Enrolled
    <3>2. QED
      BY <3>1, <1>6
  <2>3. QED
    BY <2>1, <2>2
<1>8. /\ enrolled' \subseteq Row /\ IsFiniteSet(enrolled')
      /\ \A r \in enrolled' : r \in enrolled \/ (r.alias = a /\ r.var = v /\ r.env = f)
      /\ enrolled \subseteq enrolled'
  BY <1>6, <1>7, FS_AddElement DEF StoresInv, StoresOK
<1>9. PICK p : p = [alias |-> a, var |-> v, fresh |-> fresh, shard_a |-> [of |-> a, split |-> n]]
  OBVIOUS
<1>10. /\ p \in Planned /\ plan' = Append(plan, p)
       /\ p.alias = a /\ p.var = v /\ p.fresh = fresh /\ p.shard_a \in ShardOf(Alias)
       /\ p.shard_a.of = a /\ p.shard_a = [of |-> a, split |-> n]
  BY <1>2, <1>3, <1>9, ValueKinds DEF Planned, Plan
<1>11. plan' \in Seq(Planned) /\ plan' # << >> /\ ToSet(plan') = ToSet(plan) \cup {p}
  BY <1>10, AppendSet DEF StoresInv, StoresOK
<1>12. StoresOK'
  BY <1>1, <1>3, <1>4, <1>8, <1>11 DEF StoresInv, StoresOK, Steps
<1>13. \A b \in Alias : split[b] # None => split'[b] = split[b]
  BY <1>3, <1>4
<1>14. KeysSafe'
  <2> SUFFICES ASSUME NEW e \in Env, NEW w \in Var, Sealed(e, w)
               PROVE  /\ env[e][w] = [of |-> wanted[e][w], split |-> split'[wanted[e][w]]]
                      /\ \E r \in enrolled' : r.alias = wanted[e][w] /\ r.var = w /\ r.env = e
    BY <1>1 DEF KeysSafe, Sealed, HasRow, ShardA
  <2>1. wanted[e][w] \in Alias
    BY ValueKinds DEF Sealed, StoresInv, StoresOK
  <2>2. env[e][w] = ShardA(wanted[e][w]) /\ HasRow(wanted[e][w], w, e)
    BY DEF StoresInv, DataOK, KeysSafe
  <2>3. split[wanted[e][w]] # None
    BY <2>2 DEF StoresInv, DataOK, SplitsOK, HasRow
  <2>4. QED
    BY <1>8, <1>13, <2>1, <2>2, <2>3 DEF ShardA, HasRow
<1>15. SplitsOK'
  <2>1. \A b \in Alias : split'[b] # None => split'[b] <= splits'
    <3> SUFFICES ASSUME NEW b \in Alias, split'[b] # None PROVE split'[b] <= splits'
      OBVIOUS
    <3>1. CASE b = a
      BY <1>2, <1>3, <1>4, <3>1
    <3>2. CASE b # a
      <4>1. split[b] <= splits /\ split[b] \in 1..MaxSplits
        BY <1>4, <3>2 DEF StoresInv, StoresOK, DataOK, SplitsOK
      <4>2. splits \in 0..MaxSplits
        BY DEF StoresInv, StoresOK
      <4>3. QED
        BY <1>3, <1>4, <3>2, <4>1, <4>2
    <3>3. QED
      BY <3>1, <3>2
  <2>2. \A r \in enrolled' : split'[r.alias] # None
    <3> SUFFICES ASSUME NEW r \in enrolled' PROVE split'[r.alias] # None
      OBVIOUS
    <3>1. CASE r.alias = a
      BY <1>2, <1>3, <1>4, <3>1, ValueKinds
    <3>2. CASE r \in enrolled
      BY <1>13, <3>2 DEF StoresInv, StoresOK, DataOK, SplitsOK, Row
    <3>3. QED
      BY <1>8, <3>1, <3>2
  <2>3. QED
    BY <2>1, <2>2 DEF SplitsOK
<1>16. OneNameEach'
  <2>1. \A w \in Var : wanted[f][w] = a => w = v
    <3> SUFFICES ASSUME NEW w \in Var, wanted[f][w] = a, w # v PROVE FALSE
      OBVIOUS
    <3>1. a \in Secret
      BY <1>2, ValueKinds DEF StoresInv, StoresOK
    <3>2. QED
      BY <3>1, <1>2, <1>a, <1>f DEF SeenOK
  <2>2. QED
    BY <1>1, <1>8, <2>1 DEF StoresInv, DataOK, OneNameEach
<1>17. \A x \in ShardOf(Secret) : Burnt(x) => Burnt(x)'
  BY <1>3, <1>4, BurntStays DEF StoresInv, StoresOK
<1>18. BurntOK'
  BY <1>1, <1>2, <1>8, <1>17 DEF StoresInv, DataOK, BurntOK
<1>19. SeenOK'
  BY <1>1, <1>2, <1>8, <1>a, <1>f, SeenKept DEF StoresInv, StoresOK, HasRow
<1>20. \A q \in ToSet(plan) : LockPlanned(q)' /\ Committable(q)'
  <2> SUFFICES ASSUME NEW q \in ToSet(plan) PROVE LockPlanned(q)' /\ Committable(q)'
    OBVIOUS
  <2>1. LockPlanned(q) /\ Committable(q)
    BY <1>1 DEF StoresInv, LockingOK, Before
  <2>2. q.alias \in Alias
    BY <2>1 DEF LockPlanned
  <2>3. QED
    BY <1>1, <1>8, <1>13, <2>1, <2>2, LockPlannedKept, CommittableKept DEF StoresInv, DataOK, HasRow
<1>21. LockPlanned(p)'
  <2>1. ASSUME fresh PROVE \A e \in Env, w \in Var : Sealed(e, w) => wanted[e][w] # a
    BY <1>3, <2>1 DEF StoresInv, DataOK, KeysSafe, SplitsOK, HasRow
  <2>2. \A e \in Env, w \in Var : Sealed(e, w)' <=> Sealed(e, w)
    BY <1>1 DEF Sealed
  <2>3. QED
    BY <1>1, <1>2, <1>10, <2>1, <2>2, <1>a, <1>f DEF LockPlanned
<1>22. Committable(p)'
  <2>1. split'[a] = n
    BY <1>2, <1>4
  <2>2. QED
    BY <1>1, <1>f, <1>7, <1>10, <2>1 DEF Committable, HasRow, ShardA
<1>23. LockingOK'
  <2>1. \A q \in ToSet(plan') : LockPlanned(q)' /\ Committable(q)'
    BY <1>11, <1>20, <1>21, <1>22
  <2>2. todo' \subseteq Var
    BY <1>1 DEF StoresInv, LockingOK, Before
  <2>3. \A w \in todo' : /\ ~Sealed(f, w)'
                         /\ seen'[1][w] \in Alias
                         /\ seen'[1][w] \in ShardOf(Secret) => Burnt(seen[1][w])'
    <3> SUFFICES ASSUME NEW w \in todo'
                 PROVE  /\ ~Sealed(f, w)'
                        /\ seen'[1][w] \in Alias
                        /\ seen'[1][w] \in ShardOf(Secret) => Burnt(seen[1][w])'
      OBVIOUS
    <3>1. PICK b : b = seen[1][w]
      OBVIOUS
    <3>2. /\ ~Sealed(f, w) /\ b \in Alias
          /\ b \in ShardOf(Secret) => Burnt(b)
      BY <1>1, <1>f, <3>1 DEF StoresInv, LockingOK, Before
    <3>3. b \in ShardOf(Secret) => Burnt(b)'
      BY <1>17, <3>2
    <3>4. seen'[1][w] = b /\ (Burnt(b)' => Burnt(seen[1][w])')
      BY <1>1, <3>1 DEF Burnt
    <3>5. QED
      BY <1>1, <3>2, <3>3, <3>4 DEF Sealed
  <2>4. QED
    BY <1>1, <1>f, <1>11, <1>19, <2>1, <2>2, <2>3 DEF LockingOK, Before, Undoing
<1>24. QED
  BY <1>1, <1>12, <1>14, <1>15, <1>16, <1>18, <1>23, NoTwoKinds DEF StoresInv, DataOK, Before

(* The plan without its last key.                                          *)
LEMMA FrontSet ==
    ASSUME NEW S, NEW s \in Seq(S), s # << >>
    PROVE  /\ Front(s) \in Seq(S) /\ Last(s) \in ToSet(s) /\ Last(s) \in S
           /\ ToSet(Front(s)) \subseteq ToSet(s)
<1>1. Len(s) \in Nat \ {0} /\ DOMAIN s = 1..Len(s)
  BY EmptySeq
<1>2. Front(s) \in Seq(S) /\ Last(s) \in ToSet(s) /\ Last(s) \in S
  BY <1>1 DEF Front, Last, ToSet
<1>3. \A i \in DOMAIN Front(s) : i \in DOMAIN s /\ Front(s)[i] = s[i]
  BY <1>1 DEF Front
<1>4. ToSet(Front(s)) \subseteq ToSet(s)
  BY <1>3 DEF ToSet
<1>5. QED
  BY <1>2, <1>4

(* The plan without its first key.                                         *)
LEMMA TailSet ==
    ASSUME NEW S, NEW s \in Seq(S), s # << >>
    PROVE  /\ Tail(s) \in Seq(S) /\ Head(s) \in ToSet(s) /\ Head(s) \in S
           /\ ToSet(Tail(s)) \subseteq ToSet(s)
<1>1. Len(s) \in Nat \ {0} /\ DOMAIN s = 1..Len(s)
  BY EmptySeq
<1>2. Tail(s) \in Seq(S) /\ Head(s) \in ToSet(s) /\ Head(s) \in S
  BY <1>1 DEF ToSet
<1>3. \A i \in DOMAIN Tail(s) : i + 1 \in DOMAIN s /\ Tail(s)[i] = s[i + 1]
  BY <1>1
<1>4. ToSet(Tail(s)) \subseteq ToSet(s)
  BY <1>3 DEF ToSet
<1>5. QED
  BY <1>2, <1>4

(* A step of lock that takes rows or split numbers away.                   *)
LEMMA StillLocking ==
    ASSUME StoresInv, pc \in Before \cup Undoing, pc' \in Before \cup Undoing,
           UNCHANGED <<env, wanted, splits, file, seen>>,
           todo' \subseteq todo,
           \A r \in enrolled' : r \in Row /\ HasRow(r.alias, r.var, r.env),
           \A a \in Alias : split'[a] = split[a] \/ split'[a] = None,
           \A p \in ToSet(plan') : LockPlanned(p),
           pc' \in Before => \A p \in ToSet(plan') : Committable(p)',
           pc' \in {"supersede", "unwind_shard"} => plan' # << >>,
           pc' = "unwind_shard" => Last(plan').fresh
    PROVE  LockingOK'
<1>1. SeenOK /\ SeenOK'
  BY SeenKept DEF StoresInv, LockingOK
<1>2. \A p \in ToSet(plan') : LockPlanned(p)'
  BY LockPlannedKept
<1>3. PICK f : f = file
  OBVIOUS
<1>4. \A x \in ShardOf(Secret) : Burnt(x) => Burnt(x)'
  BY ValueKinds DEF Burnt
<1>5. ASSUME NEW w \in todo'
      PROVE  /\ ~Sealed(f, w)'
             /\ seen'[1][w] \in Alias
             /\ seen'[1][w] \in ShardOf(Secret) => Burnt(seen[1][w])'
  <2>1. PICK b : b = seen[1][w]
    OBVIOUS
  <2>2. /\ ~Sealed(f, w) /\ b \in Alias
        /\ b \in ShardOf(Secret) => Burnt(b)
    BY <1>3, <2>1 DEF StoresInv, LockingOK
  <2>3. b \in ShardOf(Secret) => Burnt(b)'
    BY <1>4, <2>2
  <2>4. seen'[1][w] = b /\ (Burnt(b)' => Burnt(seen[1][w])')
    BY <2>1 DEF Burnt
  <2>5. QED
    BY <2>2, <2>3, <2>4 DEF Sealed
<1>6. todo' \subseteq Var
  BY DEF StoresInv, LockingOK
<1>7. QED
  BY <1>1, <1>2, <1>3, <1>5, <1>6 DEF LockingOK

(* Nothing was committed: lock turns to unwinding.                         *)
LEMMA ToUnwind ==
    ASSUME StoresInv, pc \in Before \cup Undoing, pc' = "unwind",
           UNCHANGED <<env, line, split, enrolled, wanted, splits, file, seen, uninstalling>>,
           todo' \subseteq todo, plan' \in Seq(Planned),
           \A p \in ToSet(plan') : LockPlanned(p)
    PROVE  StoresInv'
<1>1. StoresOK'
  BY DEF StoresInv, StoresOK, Steps
<1>2. DataOK'
  BY DataSame DEF StoresInv
<1>3. LockingOK'
  BY StillLocking DEF StoresInv, StoresOK, HasRow, Before, Undoing
<1>4. QED
  BY <1>1, <1>2, <1>3, NoTwoKinds DEF StoresInv, Undoing

(* A failed transaction of _pass1_db_writes.                               *)
LEMMA EnrollFailsStep ==
    ASSUME StoresInv, NEW v \in Var, EnrollFails(v)
    PROVE  StoresInv'
<1>1. PICK a : a = seen[1][v]
  OBVIOUS
<1>2. /\ pc = "enroll" /\ v \in todo /\ todo' = {} /\ pc' = "unwind"
      /\ UNCHANGED <<env, line, split, enrolled, wanted, splits, file, seen, uninstalling>>
  BY DEF EnrollFails, files, rows, user
<1>3. a \in Alias /\ ~Sealed(file, v)
  BY <1>1, <1>2 DEF StoresInv, LockingOK, Before
<1>4. PICK n : n = IF split[a] = None THEN 1 ELSE split[a]
  OBVIOUS
<1>5. PICK p : p = [alias |-> a, var |-> v, fresh |-> split[a] = None, shard_a |-> [of |-> a, split |-> n]]
  OBVIOUS
<1>6. plan' = Append(plan, p)
  BY <1>1, <1>4, <1>5 DEF EnrollFails, Plan
<1>7. n \in 1..MaxSplits
  BY <1>3, <1>4 DEF StoresInv, StoresOK
<1>8. p \in Planned /\ p.alias = a /\ p.var = v /\ p.fresh \in BOOLEAN /\ (p.fresh => split[a] = None)
  BY <1>3, <1>5, <1>7, ValueKinds DEF Planned
<1>9. plan' \in Seq(Planned) /\ ToSet(plan') = ToSet(plan) \cup {p}
  BY <1>6, <1>8, AppendSet DEF StoresInv, StoresOK
<1>10. LockPlanned(p)
  <2>1. ASSUME p.fresh PROVE \A e \in Env, w \in Var : Sealed(e, w) => wanted[e][w] # a
    BY <1>8, <2>1 DEF StoresInv, DataOK, KeysSafe, SplitsOK, HasRow
  <2>2. QED
    BY <1>1, <1>3, <1>8, <2>1 DEF LockPlanned
<1>11. \A q \in ToSet(plan) : LockPlanned(q)
  BY <1>2 DEF StoresInv, LockingOK, Before
<1>12. QED
  BY <1>2, <1>9, <1>10, <1>11, ToUnwind DEF Before

(* The .env is not the one of the snapshot.                                *)
LEMMA RewriteRefusedStep ==
    ASSUME StoresInv, RewriteRefused
    PROVE  StoresInv'
<1>1. /\ pc = "rewrite" /\ pc' = "unwind"
      /\ UNCHANGED <<env, line, split, enrolled, wanted, splits, file, seen, uninstalling, todo, plan>>
  BY DEF RewriteRefused, files, rows, user, bounds
<1>2. \A q \in ToSet(plan) : LockPlanned(q)
  BY <1>1 DEF StoresInv, LockingOK, Before
<1>3. QED
  BY <1>1, <1>2, ToUnwind DEF Before, StoresInv, StoresOK

(* A signal or an error before the rewrite.                                *)
LEMMA LockFailsStep ==
    ASSUME StoresInv, LockFails
    PROVE  StoresInv'
<1>1. /\ pc \in Before /\ pc' = "unwind" /\ todo' = {}
      /\ UNCHANGED <<env, line, split, enrolled, wanted, splits, file, seen, uninstalling, plan>>
  BY DEF LockFails, files, rows, user, Before
<1>2. \A q \in ToSet(plan) : LockPlanned(q)
  BY <1>1 DEF StoresInv, LockingOK
<1>3. QED
  BY <1>1, <1>2, ToUnwind DEF StoresInv, StoresOK

(* _delete_superseded_location_enrollments: the old alias of a planned line *)
(* stands on no sealed line, since the line holds the new one.             *)
LEMMA SupersedeStep ==
    ASSUME StoresInv, Supersede
    PROVE  StoresInv'
<1>1. /\ pc = "supersede"
      /\ UNCHANGED <<env, line, wanted, splits, file, seen, uninstalling, plan, todo>>
  BY DEF Supersede, files, user, bounds
<1>2. /\ SeenOK /\ plan # << >> /\ plan \in Seq(Planned)
      /\ \A q \in ToSet(plan) : LockPlanned(q) /\ Committable(q)
  BY <1>1 DEF StoresInv, StoresOK, LockingOK, Before
<1>3. PICK p : p = Last(plan)
  OBVIOUS
<1>4. LockPlanned(p)
  BY <1>2, <1>3, FrontSet
<1>5. CASE \E a \in Superseded : DeleteSuperseded(a, file) /\ UNCHANGED pc
  <2>1. PICK a \in Superseded : DeleteSuperseded(a, file) /\ UNCHANGED pc
    BY <1>5
  <2>2. PICK r \in enrolled : r.var = p.var /\ r.env = file /\ r.alias = a /\ a # p.alias
    BY <1>3, <2>1 DEF Superseded, RowsAt
  <2>3. a \in Alias
    BY <2>2 DEF StoresInv, StoresOK, Row
  <2>4. \A v \in Var : Sealed(file, v) => wanted[file][v] # a
    BY <1>2, <1>4, <2>2 DEF StoresInv, DataOK, OneNameEach, LockPlanned, SeenOK
  <2>5. /\ DeleteEnrollment(a, file)
        /\ split' \in [Alias -> (1..MaxSplits) \cup {None}]
        /\ \A b \in Alias : b # a => split'[b] = split[b]
        /\ split'[a] = split[a] \/ (split'[a] = None /\ \A q \in enrolled' : q.alias # a)
    <3>1. CASE \E q \in enrolled' : q.alias = a
      BY <2>1, <2>3, <3>1 DEF DeleteSuperseded, StoresInv, StoresOK
    <3>2. CASE ~\E q \in enrolled' : q.alias = a
      BY <2>1, <2>3, <3>2 DEF DeleteSuperseded, StoresInv, StoresOK
    <3>3. QED
      BY <3>1, <3>2
  <2>6. enrolled' \subseteq enrolled
    BY <2>5 DEF DeleteEnrollment
  <2>7. \A q \in enrolled' : split'[q.alias] = split[q.alias]
    BY <2>5, <2>6 DEF StoresInv, StoresOK, Row
  <2>8. /\ DataOK' /\ IsFiniteSet(enrolled')
        /\ \A q \in enrolled : q \notin enrolled' => q.alias = a /\ q.env = file
    BY <1>1, <2>4, <2>5, <2>7, DeleteEnrollmentKeeps DEF StoresInv
  <2>9. StoresOK'
    BY <1>1, <2>1, <2>5, <2>6, <2>8 DEF StoresInv, StoresOK
  <2>10. \A q \in ToSet(plan) : Committable(q)'
    <3> SUFFICES ASSUME NEW q \in ToSet(plan) PROVE Committable(q)'
      OBVIOUS
    <3>1. LockPlanned(q) /\ Committable(q)
      BY <1>2
    <3>2. q.alias \in Secret => q.alias # a
      <4> SUFFICES ASSUME q.alias \in Secret, q.alias = a PROVE FALSE
        OBVIOUS
      <4>1. r.var = q.var
        BY <1>2, <2>2, <3>1 DEF LockPlanned, SeenOK
      <4>2. QED
        BY <1>4, <2>2, <3>1, <4>1 DEF LockPlanned
    <3>3. q.alias \in Alias
      BY <3>1 DEF LockPlanned
    <3>4. q.alias \in Secret => split'[q.alias] = split[q.alias]
      BY <2>5, <3>2, <3>3
    <3>5. q.alias \in Secret /\ HasRow(q.alias, q.var, file) =>
             \E x \in enrolled' : x.alias = q.alias /\ x.var = q.var /\ x.env = file
      BY <2>8, <3>2 DEF HasRow
    <3>6. QED
      BY <1>1, <3>1, <3>4, <3>5, CommittableKept DEF StoresInv, DataOK
  <2>11. \A q \in enrolled' : q \in Row /\ HasRow(q.alias, q.var, q.env)
    BY <2>6 DEF StoresInv, StoresOK, HasRow
  <2>12. \A b \in Alias : split'[b] = split[b] \/ split'[b] = None
    BY <2>5
  <2>13. LockingOK'
    BY <1>1, <1>2, <2>1, <2>10, <2>11, <2>12, StillLocking DEF Before
  <2>14. QED
    BY <1>1, <2>1, <2>8, <2>9, <2>13, NoTwoKinds DEF StoresInv, Before
<1>6. CASE Superseded = {} /\ pc' \in {"record", "enroll"} /\ UNCHANGED <<split, enrolled>>
  <2>1. StoresOK' /\ DataOK'
    BY <1>1, <1>6, DataSame DEF StoresInv, StoresOK, Steps
  <2>2. \A q \in ToSet(plan) : Committable(q)'
    BY <1>1, <1>2, <1>6 DEF Committable, HasRow, ShardA
  <2>3. LockingOK'
    BY <1>1, <1>2, <1>6, <2>2, StillLocking DEF StoresInv, StoresOK, HasRow, Before
  <2>4. QED
    BY <1>1, <1>6, <2>1, <2>3, NoTwoKinds DEF StoresInv, Before
<1>7. QED
  BY <1>5, <1>6 DEF Supersede

(* What record_base_url_restores stores is a record.                       *)
LEMMA RecordType ==
    ASSUME StoresInv, pc = "record", NEW k \in DOMAIN PlannedRecords
    PROVE  PlannedRecords[k] \in Record
<1>1. PICK p : PlannedRecords[k] = RestoreRecord(p)
  BY DEF PlannedRecords
<1>2. PlannedLines \subseteq Slot
  <2>1. \A i \in DOMAIN plan : plan[i].var \in Var
    BY DEF StoresInv, LockingOK, Before, LockPlanned, ToSet
  <2>2. QED
    BY <2>1 DEF PlannedLines
<1>3. seen[2] \in [Slot -> {None, Own}]
  BY DEF StoresInv, LockingOK, Before, SeenOK
<1> DEFINE mine == {s \in PlannedLines : Winner(s) = p}
           same == {s \in PlannedLines : Winner(s).alias = p.alias}
           slot == IF mine # {} THEN CHOOSE s \in mine : TRUE
                   ELSE IF same # {} THEN CHOOSE s \in same : TRUE ELSE None
<1>4. mine \subseteq Slot /\ same \subseteq Slot
  BY <1>2
<1>5. PlannedRecords[k] = [slot |-> slot, original |-> IF slot = None THEN None ELSE seen[2][slot]]
  BY <1>1 DEF RestoreRecord
<1> HIDE DEF mine, same
<1>6. slot \in Slot \cup {None}
  BY <1>4
<1> HIDE DEF slot
<1>7. QED
  BY <1>3, <1>5, <1>6 DEF Record

(* The image of a finite set is finite.                                    *)
LEMMA ImageFinite ==
    ASSUME NEW S, IsFiniteSet(S), NEW f
    PROVE  IsFiniteSet({f[x] : x \in S})
<1> DEFINE T == {f[x] : x \in S}
           g == [x \in S |-> f[x]]
<1>1. g \in Surjection(S, T)
  BY DEF Surjection
<1>2. QED
  BY <1>1, FS_Surjection

(* SetToSeq lists the set.                                                 *)
LEMMA SetToSeqLists ==
    ASSUME NEW S, IsFiniteSet(S)
    PROVE  SetToSeq(S) \in Seq(S) /\ ToSet(SetToSeq(S)) = S
<1> DEFINE n == Cardinality(S)
           s == SetToSeq(S)
<1>1. n \in Nat /\ ExistsBijection(1..n, S)
  BY FS_CardinalityType
<1>2. \E f \in [1..n -> S] : IsInjective(f)
  BY <1>1 DEF ExistsBijection, Bijection, Injection
<1>3. s \in [1..n -> S] /\ IsInjective(s)
  BY <1>2 DEF SetToSeq
<1>4. s \in Injection(1..n, S)
  BY <1>3 DEF Injection
<1>5. IsFiniteSet(1..n) /\ Cardinality(1..n) = n
  BY <1>1, FS_Interval
<1>6. s \in Surjection(1..n, S)
  <2> HIDE DEF s
  <2>1. QED
    BY <1>4, <1>5, FS_Injection
<1>7. s \in Seq(S)
  BY <1>1, <1>3
<1>8. DOMAIN s = 1..n
  BY <1>3
<1>9. ToSet(s) = S
  BY <1>3, <1>6, <1>8 DEF ToSet, Surjection
<1>10. QED
  BY <1>7, <1>9

(* record_base_url_restores changes what rows remember, not which there are. *)
LEMMA RecordStep ==
    ASSUME StoresInv, RecordBaseUrlRestores
    PROVE  StoresInv'
<1>1. /\ pc = "record" /\ pc' \in {"rewrite", "unwind"}
      /\ UNCHANGED <<env, line, wanted, split, splits, file, seen, uninstalling, plan, todo>>
      /\ RecordRestores(file, PlannedRecords)
  BY DEF RecordBaseUrlRestores, files, user, bounds
<1>r. PICK records : records = PlannedRecords
  OBVIOUS
<1> DEFINE R(r) == IF r.env = file /\ <<r.alias, r.var>> \in DOMAIN records
                   THEN [r EXCEPT !.restore = records[<<r.alias, r.var>>]]
                   ELSE r
<1>2. enrolled' = {R(r) : r \in enrolled}
  BY <1>1, <1>r DEF RecordRestores
<1>3. ASSUME NEW r \in enrolled
      PROVE  R(r) \in Row /\ R(r).alias = r.alias /\ R(r).var = r.var /\ R(r).env = r.env
  <2>1. r \in Row
    BY DEF StoresInv, StoresOK
  <2>2. CASE r.env = file /\ <<r.alias, r.var>> \in DOMAIN records
    <3>1. PICK x \in Record : x = records[<<r.alias, r.var>>]
      BY <1>1, <1>r, <2>2, RecordType
    <3>2. R(r) = [r EXCEPT !.restore = x]
      BY <2>2, <3>1
    <3>3. QED
      BY <2>1, <3>2 DEF Row
  <2>3. QED
    BY <2>1, <2>2
<1> HIDE DEF R
<1>4. /\ \A r \in enrolled' : r \in Row /\ HasRow(r.alias, r.var, r.env)
      /\ \A r \in enrolled : \E q \in enrolled' : q.alias = r.alias /\ q.var = r.var /\ q.env = r.env
  BY <1>2, <1>3 DEF HasRow
<1>5. IsFiniteSet(enrolled')
  <2> DEFINE g == [r \in enrolled |-> R(r)]
  <2>1. enrolled' = {g[r] : r \in enrolled}
    BY <1>2
  <2> HIDE DEF g
  <2>2. PICK E, h : E = enrolled /\ h = g
    OBVIOUS
  <2>3. IsFiniteSet(E)
    BY <2>2 DEF StoresInv, StoresOK
  <2>4. IsFiniteSet({h[r] : r \in E})
    BY <2>3, ImageFinite
  <2>5. QED
    BY <2>1, <2>2, <2>4
<1>6. DataOK'
  <2>1. \A e \in Env, v \in Var : Sealed(e, v) =>
               \E r \in enrolled' : r.alias = wanted[e][v] /\ r.var = v /\ r.env = e
    BY <1>4 DEF StoresInv, DataOK, KeysSafe, HasRow
  <2>2. \A r \in enrolled' : r.alias \in Alias /\ HasRow(r.alias, r.var, r.env)
    BY <1>4 DEF Row
  <2>3. QED
    BY <1>1, <2>1, <2>2, RowsGo DEF StoresInv
<1>7. StoresOK'
  BY <1>1, <1>4, <1>5 DEF StoresInv, StoresOK, Steps
<1>8. \A q \in ToSet(plan) : LockPlanned(q) /\ Committable(q)
  BY <1>1 DEF StoresInv, LockingOK, Before
<1>9. \A q \in ToSet(plan) : Committable(q)'
  BY <1>1, <1>4, <1>8, CommittableKept DEF StoresInv, DataOK, HasRow
<1>10. LockingOK'
  BY <1>1, <1>4, <1>8, <1>9, StillLocking DEF Before, Undoing
<1>11. QED
  BY <1>1, <1>6, <1>7, <1>10, NoTwoKinds DEF StoresInv, Before, Undoing

(* _compensating_unwind deletes rows of lines that still hold their keys.  *)
LEMMA UnwindStep ==
    ASSUME StoresInv, Unwind
    PROVE  StoresInv'
<1>1. /\ pc = "unwind"
      /\ UNCHANGED <<env, line, wanted, splits, split>>
  BY DEF Unwind, files, user
<1>2. /\ SeenOK /\ plan \in Seq(Planned)
      /\ \A q \in ToSet(plan) : LockPlanned(q)
  BY <1>1 DEF StoresInv, StoresOK, LockingOK, Undoing
<1>3. CASE plan = << >> /\ Stop /\ UNCHANGED enrolled
  BY <1>1, <1>3, Stopped, DataSame DEF StoresInv, StoresOK
<1>4. CASE /\ plan # << >> /\ DeleteEnrollment(Last(plan).alias, file)
           /\ \/ Last(plan).fresh /\ pc' = "unwind_shard" /\ UNCHANGED plan
              \/ plan' = Front(plan) /\ UNCHANGED pc
           /\ UNCHANGED <<file, todo, seen, uninstalling>>
  <2>1. PICK p : p = Last(plan)
    OBVIOUS
  <2>2. LockPlanned(p) /\ ToSet(plan') \subseteq ToSet(plan) /\ plan' \in Seq(Planned)
    BY <1>2, <1>4, <2>1, FrontSet
  <2>3. PICK a \in Alias : a = p.alias
    BY <2>2 DEF LockPlanned
  <2>4. \A v \in Var : Sealed(file, v) => wanted[file][v] # a
    <3> SUFFICES ASSUME NEW v \in Var, Sealed(file, v), wanted[file][v] = a PROVE FALSE
      OBVIOUS
    <3>1. a \in Secret
      BY <1>2 DEF Sealed, SeenOK, StoresInv, StoresOK
    <3>2. QED
      BY <1>2, <2>2, <2>3, <3>1 DEF SeenOK, LockPlanned
  <2>5. DeleteEnrollment(a, file)
    BY <1>4, <2>1, <2>3
  <2>6. /\ DataOK' /\ IsFiniteSet(enrolled') /\ enrolled' \subseteq enrolled
    <3>1. \A r \in enrolled' : split'[r.alias] = split[r.alias]
      BY <1>1
    <3>2. QED
      BY <1>1, <2>4, <2>5, <3>1, DeleteEnrollmentKeeps DEF StoresInv
  <2>7. StoresOK'
    BY <1>1, <1>4, <2>2, <2>6 DEF StoresInv, StoresOK, Steps
  <2>8. \A q \in enrolled' : q \in Row /\ HasRow(q.alias, q.var, q.env)
    BY <2>6 DEF StoresInv, StoresOK, HasRow
  <2>9. pc' \in Undoing /\ (pc' = "unwind_shard" => plan' # << >>)
    BY <1>1, <1>4 DEF Undoing
  <2>12. pc' = "unwind_shard" => Last(plan').fresh
    BY <1>1, <1>4
  <2>13. todo' \subseteq todo /\ \A b \in Alias : split'[b] = split[b]
    BY <1>1, <1>4
  <2>14. /\ \A q \in ToSet(plan') : LockPlanned(q)
         /\ pc \in Before \cup Undoing /\ pc' \notin Before
    BY <1>1, <1>2, <2>2, <2>9 DEF Before, Undoing
  <2>10. LockingOK'
    BY <1>1, <1>4, <2>8, <2>9, <2>12, <2>13, <2>14, StillLocking
  <2>11. QED
    BY <1>1, <1>4, <2>6, <2>7, <2>9, <2>10, NoTwoKinds DEF StoresInv, Undoing
<1>5. CASE plan # << >> /\ plan' = Front(plan) /\ UNCHANGED <<pc, enrolled, file, todo, seen, uninstalling>>
  BY <1>1, <1>2, <1>5, FrontSet, ToUnwind DEF Undoing
<1>6. QED
  BY <1>3, <1>4, <1>5 DEF Unwind

(* and the shard, only where this lock made it.                            *)
LEMMA UnwindShardStep ==
    ASSUME StoresInv, UnwindShard
    PROVE  StoresInv'
<1>1. /\ pc = "unwind_shard" /\ pc' = "unwind" /\ plan' = Front(plan)
      /\ UNCHANGED <<env, line, wanted, splits, file, todo, seen, uninstalling>>
  BY DEF UnwindShard, files, user, bounds

<1>2. /\ SeenOK /\ plan # << >> /\ plan \in Seq(Planned)
      /\ \A q \in ToSet(plan) : LockPlanned(q)
  BY <1>1 DEF StoresInv, StoresOK, LockingOK, Undoing
<1>3. PICK p : p = Last(plan)
  OBVIOUS
<1>4. LockPlanned(p) /\ ToSet(plan') \subseteq ToSet(plan) /\ plan' \in Seq(Planned)
  BY <1>1, <1>2, <1>3, FrontSet
<1>5. PICK a \in Alias : a = p.alias
  BY <1>4 DEF LockPlanned
<1>6. \A e \in Env, v \in Var : Sealed(e, v) => wanted[e][v] # a
  BY <1>1, <1>3, <1>4, <1>5 DEF StoresInv, LockingOK, Undoing, LockPlanned
<1>7. DeleteEnrolled(a)
  BY <1>3, <1>5 DEF UnwindShard
<1>8. /\ DataOK' /\ IsFiniteSet(enrolled')
      /\ split' \in [Alias -> (1..MaxSplits) \cup {None}]
      /\ \A b \in Alias : split'[b] = IF b = a THEN None ELSE split[b]
      /\ enrolled' = {r \in enrolled : r.alias # a}
  BY <1>1, <1>6, <1>7, DeleteEnrolledKeeps DEF StoresInv
<1>9. StoresOK'
  BY <1>1, <1>4, <1>8 DEF StoresInv, StoresOK, Steps
<1>10. /\ \A q \in enrolled' : q \in Row /\ HasRow(q.alias, q.var, q.env)
       /\ \A b \in Alias : split'[b] = split[b] \/ split'[b] = None
  BY <1>8 DEF StoresInv, StoresOK, HasRow
<1>11. \A q \in ToSet(plan') : LockPlanned(q)
  BY <1>2, <1>4
<1>12. LockingOK'
  BY <1>1, <1>10, <1>11, StillLocking DEF Before, Undoing
<1>13. QED
  BY <1>1, <1>8, <1>9, <1>12, NoTwoKinds DEF StoresInv, Undoing

(* A nonempty set of positions has a last and a first.                     *)
LEMMA MaxAndMin ==
    ASSUME NEW n \in Nat, NEW S \in SUBSET (1..n), S # {}
    PROVE  Max(S) \in S /\ Min(S) \in S
<1> DEFINE Less == OpToRel(<, Nat)
           T == {n - i : i \in S}
<1>1. \A x, y \in Nat : <<x, y>> \in Less <=> x < y
  BY DEF OpToRel
<1>2. IsWellFoundedOn(Less, Nat)
  BY NatLessThanWellFounded
<1> HIDE DEF Less
<1>s. S \subseteq Nat /\ \A i \in S : i \in 1..n /\ i <= n
  OBVIOUS
<1>3. \E x \in S : \A y \in S : x <= y
  <2>1. PICK x \in S : \A y \in S : ~(<<y, x>> \in Less)
    BY <1>2, <1>s, WFMin
  <2>2. ASSUME NEW y \in S PROVE x <= y
    <3>1. ~(y < x)
      BY <1>1, <1>s, <2>1
    <3>2. QED
      BY <1>s, <3>1
  <2>3. QED
    BY <2>2
<1>4. \E x \in S : \A y \in S : x >= y
  <2>1. T \subseteq Nat /\ T # {}
    <3>1. \A i \in S : n - i \in Nat
      BY <1>s
    <3>2. PICK i : i \in S
      OBVIOUS
    <3>3. n - i \in T
      BY <3>2
    <3>4. T \subseteq Nat
      BY <3>1
    <3>5. QED
      BY <3>3, <3>4
  <2>2. PICK t \in T : \A u \in T : ~(<<u, t>> \in Less)
    <3> HIDE DEF T
    <3>1. QED
      BY <1>2, <2>1, WFMin
  <2>3. PICK x \in S : t = n - x
    BY <2>2
  <2>4. ASSUME NEW y \in S PROVE x >= y
    <3>1. n - y \in T /\ n - y \in Nat /\ t \in Nat
      BY <2>1, <2>2
    <3>2. ~(n - y < t)
      BY <1>1, <2>2, <3>1
    <3>3. QED
      BY <2>3, <3>2
  <2>5. QED
    BY <2>4
<1>5. Min(S) \in S
  BY <1>3 DEF Min
<1>6. Max(S) \in S
  BY <1>4 DEF Max
<1>7. QED
  BY <1>5, <1>6

(* The key a line will route is one of the planned ones.                   *)
LEMMA WinnerIsPlanned ==
    ASSUME plan \in Seq(Planned), NEW s \in PlannedLines
    PROVE  Winner(s) \in ToSet(plan) /\ SlotOf[Winner(s).var] = s
<1> DEFINE here == {i \in DOMAIN plan : SlotOf[plan[i].var] = s}
           named == {i \in here : plan[i].var \in Canonical}
           w == IF named # {} THEN Max(named) ELSE Min(here)
<1>1. here # {}
  BY DEF PlannedLines
<1>2. PICK n \in Nat : DOMAIN plan = 1..n
  OBVIOUS
<1>3. here \in SUBSET (1..n) /\ named \in SUBSET (1..n)
  BY <1>2
<1>4. Winner(s) = plan[w]
  BY DEF Winner
<1>5. named \subseteq here /\ \A i \in here : i \in DOMAIN plan /\ SlotOf[plan[i].var] = s
  OBVIOUS
<1> HIDE DEF here, named
<1>6. w \in here
  <2>1. CASE named # {}
    BY <1>3, <1>5, <2>1, MaxAndMin
  <2>2. CASE named = {}
    BY <1>1, <1>3, <2>2, MaxAndMin
  <2>3. QED
    BY <2>1, <2>2
<1>7. QED
  BY <1>4, <1>5, <1>6 DEF ToSet

(* _batch_rewrite seals the planned lines: each has its row and its split. *)
LEMMA RewriteStep ==
    ASSUME StoresInv, Rewrite
    PROVE  StoresInv'
<1>1. /\ pc = "rewrite" /\ Stop
      /\ UNCHANGED <<split, enrolled, wanted, splits>>
      /\ seen = <<env[file], line[file]>>
  BY DEF Rewrite, rows, user, bounds
<1>2. /\ SeenOK /\ plan \in Seq(Planned) /\ file \in Env
      /\ \A q \in ToSet(plan) : LockPlanned(q) /\ Committable(q)
  BY <1>1 DEF StoresInv, StoresOK, LockingOK, Before, SeenOK
<1>f. PICK f \in Env : f = file
  BY <1>2
<1>3. env' = [env EXCEPT ![f] = [v \in Var |-> PlannedValue(v)]]
  BY <1>f DEF Rewrite
<1>4. ASSUME NEW v \in Var
      PROVE  \/ PlannedValue(v) = env[f][v]
             \/ \E p \in ToSet(plan) : /\ p.var = v
                                       /\ p.alias = env[f][v]
                                       /\ PlannedValue(v) = p.shard_a
                                       /\ LockPlanned(p) /\ Committable(p)
  <2>1. CASE \E p \in ToSet(plan) : p.var = v
    <3>1. PICK p \in ToSet(plan) : p.var = v /\ p = CHOOSE q \in ToSet(plan) : q.var = v
      BY <2>1
    <3>2. PlannedValue(v) = p.shard_a
      BY <2>1, <3>1 DEF PlannedValue
    <3>3. p.alias = env[f][v]
      BY <1>1, <1>2, <1>f, <3>1 DEF LockPlanned
    <3>4. QED
      BY <1>2, <3>1, <3>2, <3>3
  <2>2. CASE ~\E p \in ToSet(plan) : p.var = v
    BY <2>2, <1>f DEF PlannedValue
  <2>3. QED
    BY <2>1, <2>2
<1>5. \A e \in Env, v \in Var : env'[e][v] = IF e = f THEN PlannedValue(v) ELSE env[e][v]
  BY <1>3 DEF StoresInv, StoresOK
<1>6. env' \in [Env -> [Var -> Value \cup {None}]]
  <2>1. \A v \in Var : PlannedValue(v) \in Value \cup {None}
    BY SMTT(30), <1>4, ValueKinds DEF Committable, StoresInv, StoresOK
  <2>2. [v \in Var |-> PlannedValue(v)] \in [Var -> Value \cup {None}]
    BY <2>1
  <2>3. QED
    BY <1>3, <2>2 DEF StoresInv, StoresOK
<1>7. line' \in [Env -> [Slot -> {None, Own} \cup Route]]
  <2>1. \A s \in PlannedLines : [to |-> Winner(s).alias] \in Route
    BY <1>2, WinnerIsPlanned DEF LockPlanned, Route
  <2>2. line' = [line EXCEPT ![f] = [s \in Slot |->
                    IF s \in PlannedLines THEN [to |-> Winner(s).alias] ELSE line[f][s]]]
    BY <1>f DEF Rewrite, StoresInv, StoresOK
  <2>3. [s \in Slot |-> IF s \in PlannedLines THEN [to |-> Winner(s).alias] ELSE line[f][s]]
            \in [Slot -> {None, Own} \cup Route]
    BY <2>1 DEF StoresInv, StoresOK
  <2>4. QED
    BY <2>2, <2>3 DEF StoresInv, StoresOK
<1>8. StoresOK'
  BY <1>1, <1>6, <1>7, Stopped DEF StoresInv, StoresOK
<1>9. KeysSafe'
  <2> SUFFICES ASSUME NEW e \in Env, NEW v \in Var, wanted[e][v] # None, env'[e][v] # wanted[e][v]
               PROVE  env'[e][v] = ShardA(wanted[e][v]) /\ HasRow(wanted[e][v], v, e)
    BY <1>1 DEF KeysSafe, Sealed, HasRow, ShardA
  <2>1. CASE env'[e][v] = env[e][v]
    BY <2>1 DEF StoresInv, DataOK, KeysSafe, Sealed
  <2>2. CASE env'[e][v] # env[e][v]
    <3>1. PICK p \in ToSet(plan) : /\ p.var = v
                                   /\ p.alias = env[f][v]
                                   /\ PlannedValue(v) = p.shard_a
                                   /\ LockPlanned(p) /\ Committable(p)
      BY <1>4, <1>5, <2>2
    <3>2. e = f /\ env'[e][v] = p.shard_a
      BY <1>5, <2>2, <3>1
    <3>3. wanted[f][v] = p.alias
      BY <1>f, <3>1, <3>2 DEF LockPlanned, Sealed
    <3>4. p.alias \in Secret
      BY <3>2, <3>3 DEF StoresInv, StoresOK
    <3>5. QED
      BY <1>f, <3>1, <3>2, <3>3, <3>4 DEF Committable
  <2>3. QED
    BY <2>1, <2>2
<1>10. BurntOK'
  <2>1. ASSUME NEW e \in Env, NEW v \in Var, wanted[e][v] = None
        PROVE  env'[e][v] \notin Secret /\ (env'[e][v] \in ShardOf(Secret) => Burnt(env'[e][v]))
    <3>1. CASE env'[e][v] = env[e][v]
      BY <2>1, <3>1 DEF StoresInv, DataOK, BurntOK
    <3>2. CASE env'[e][v] # env[e][v]
      <4>1. PICK p \in ToSet(plan) : /\ p.alias = env[f][v]
                                     /\ PlannedValue(v) = p.shard_a
                                     /\ Committable(p)
        BY <1>4, <1>5, <3>2
      <4>2. e = f /\ env'[e][v] = p.shard_a
        BY <1>5, <3>2, <4>1
      <4>3. p.alias \notin Secret
        BY <2>1, <4>1, <4>2 DEF StoresInv, DataOK, BurntOK
      <4>4. QED
        BY <4>1, <4>2, <4>3, ValueKinds DEF Committable
    <3>3. QED
      BY <3>1, <3>2
  <2>2. \A r \in enrolled : r.alias \in ShardOf(Secret) => Burnt(r.alias)
    BY DEF StoresInv, DataOK, BurntOK
  <2>3. QED
    BY <1>1, <2>1, <2>2 DEF BurntOK, Burnt
<1>11. SplitsOK' /\ OneNameEach'
  BY <1>1 DEF StoresInv, DataOK, SplitsOK, OneNameEach
<1>12. QED
  BY <1>1, <1>8, <1>9, <1>10, <1>11, Stopped DEF StoresInv, DataOK

-----------------------------------------------------------------------------
(* unlock and uninstall *)

(* Pass 1 plans only what reconstructs.                                    *)
LEMMA BeginRestoreStep ==
    ASSUME StoresInv, NEW e \in Env, NEW R, R \subseteq enrolled, \A r \in R : r.env = e,
           Opens(R), BeginRestore(e, R),
           UNCHANGED <<env, wanted, split, splits>>
    PROVE  /\ plan' \in Seq(Planned) /\ pc' = "restore" /\ file' = e
           /\ LockingOK' /\ RestoringOK' /\ PurgeOK'
           /\ \A r \in R : \E p \in ToSet(plan') : p.var = r.var
<1>1. PICK here : here = env[e]
  OBVIOUS
<1> DEFINE rec(r) == [alias |-> r.alias, var |-> r.var, restore |-> r.restore, shard_a |-> here[r.var]]
           g == [r \in R |-> rec(r)]
           S == {g[r] : r \in R}
<1>2. IsFiniteSet(R)
  BY FS_Subset DEF StoresInv, StoresOK
<1>3. IsFiniteSet(S)
  <2>1. PICK h : h = g
    OBVIOUS
  <2> HIDE DEF g
  <2>2. QED
    BY <1>2, <2>1, ImageFinite
<1>4. S = {rec(r) : r \in R}
  OBVIOUS
<1>5. plan' = SetToSeq(S) /\ pc' = "restore" /\ file' = e
  BY <1>1, <1>4 DEF BeginRestore
<1>6. ASSUME NEW r \in R
      PROVE  /\ rec(r) \in Planned
             /\ rec(r).var = r.var
             /\ RestorePlanned(rec(r))'
  <2>1. PICK p : p = rec(r)
    OBVIOUS
  <2>2. r \in Row /\ r \in enrolled /\ r.env = e
    BY DEF StoresInv, StoresOK
  <2>3. split[r.alias] # None /\ here[r.var] = ShardA(r.alias)
    BY <1>1, <2>2 DEF Opens, Reconstructs
  <2>4. split[r.alias] \in 1..MaxSplits
    BY <2>2, <2>3 DEF Row, StoresInv, StoresOK
  <2>5. here[r.var] \in ShardOf(Alias)
    BY <2>2, <2>3, <2>4, ValueKinds DEF ShardA, Row
  <2>6. p \in Planned /\ p.alias = r.alias /\ p.var = r.var /\ p.restore = r.restore
        /\ r.alias \in Alias /\ r.var \in Var /\ r.restore \in Record \cup {None}
    BY <2>1, <2>2, <2>5 DEF Planned, Row
  <2>7. \A w \in Var \ {r.var} : wanted[e][w] # r.alias
    BY <2>2 DEF StoresInv, DataOK, OneNameEach
  <2>8. r.alias \in ShardOf(Secret) => Burnt(r.alias)
    BY <2>2 DEF StoresInv, DataOK, BurntOK
  <2>9. RestorePlanned(p)'
    BY <1>1, <1>5, <2>3, <2>6, <2>7, <2>8 DEF RestorePlanned, Reconstructs, ShardA, Burnt
  <2> HIDE DEF rec
  <2>10. QED
    BY <2>1, <2>6, <2>9
<1> HIDE DEF rec
<1>7. S \subseteq Planned /\ \A p \in S : RestorePlanned(p)'
  BY <1>4, <1>6
<1>8. PICK T : T = S
  OBVIOUS
<1> HIDE DEF S, g
<1>9. plan' \in Seq(T) /\ ToSet(plan') = T
  BY <1>3, <1>5, <1>8, SetToSeqLists
<1>10. plan' \in Seq(Planned)
  BY <1>7, <1>8, <1>9, SeqMonotonic
<1>11. \A p \in ToSet(plan') : RestorePlanned(p)'
  BY <1>7, <1>8, <1>9
<1>12. LockingOK' /\ RestoringOK' /\ PurgeOK'
  BY <1>5, <1>11 DEF LockingOK, RestoringOK, PurgeOK, Before, Undoing
<1>13. \A r \in R : \E p \in ToSet(plan') : p.var = r.var
  BY <1>4, <1>6, <1>8, <1>9
<1>14. QED
  BY <1>5, <1>10, <1>12, <1>13

(* unlock starts.                                                          *)
LEMMA StartUnlockStep ==
    ASSUME StoresInv, NEW e \in Env, NEW A, StartUnlock(e, A)
    PROVE  StoresInv'
<1>1. /\ pc = "idle"
      /\ UNCHANGED <<env, line, split, enrolled, wanted, splits, todo, seen, uninstalling>>
  BY DEF StartUnlock, files, rows, user, bounds
<1>2. PICK R \in Found(e, A) : Opens(R) /\ BeginRestore(e, R)
  BY DEF StartUnlock
<1>3. R \subseteq enrolled /\ \A r \in R : r.env = e
  BY DEF Found
<1>4. /\ plan' \in Seq(Planned) /\ pc' = "restore" /\ file' = e
      /\ LockingOK' /\ RestoringOK' /\ PurgeOK'
  BY <1>1, <1>2, <1>3, BeginRestoreStep
<1>5. DataOK'
  BY <1>1, DataSame DEF StoresInv
<1>6. StoresOK'
  BY <1>1, <1>4 DEF StoresInv, StoresOK, Steps
<1>7. UninstallOK'
  BY <1>1, <1>4 DEF StoresInv, StoresOK, UninstallOK
<1>8. QED
  BY <1>4, <1>5, <1>6, <1>7 DEF StoresInv

(* uninstall turns to the next file.                                       *)
LEMMA UninstallFileStep ==
    ASSUME StoresInv, NEW e \in Env, UninstallFile(e)
    PROVE  StoresInv'
<1>1. PICK here : here = {r \in enrolled : r.env = e}
  OBVIOUS
<1>2. /\ pc = "uninstall" /\ e \in todo /\ todo' = todo \ {e}
      /\ UNCHANGED <<env, line, split, enrolled, wanted, splits, seen>>
  BY DEF UninstallFile, files, rows, user, bounds
<1>3. DataOK'
  BY <1>2, DataSame DEF StoresInv
<1>4. CASE Opens(here) /\ BeginRestore(e, here) /\ UNCHANGED uninstalling
  <2>1. /\ plan' \in Seq(Planned) /\ pc' = "restore" /\ file' = e
        /\ LockingOK' /\ RestoringOK' /\ PurgeOK'
        /\ \A r \in here : \E p \in ToSet(plan') : p.var = r.var
    BY <1>1, <1>2, <1>4, BeginRestoreStep
  <2>2. StoresOK'
    BY <1>2, <1>4, <2>1 DEF StoresInv, StoresOK, Steps
  <2>3. ASSUME NEW d \in Env, d \notin todo', NEW v \in Var, Sealed(d, v), uninstalling = "restoring"
        PROVE  d = e /\ \E p \in ToSet(plan') : p.var = v
    <3>1. d = e
      BY <1>2, <2>3 DEF StoresInv, UninstallOK
    <3>2. PICK r \in here : r.var = v
      BY <1>1, <2>3, <3>1 DEF StoresInv, DataOK, KeysSafe, HasRow
    <3>3. QED
      BY <2>1, <3>1, <3>2
  <2>4. UninstallOK'
    BY <1>2, <1>4, <2>1, <2>3 DEF UninstallOK, Sealed
  <2>5. QED
    BY <1>3, <2>1, <2>2, <2>4 DEF StoresInv
<1>5. CASE uninstalling' = "failed" /\ UNCHANGED <<pc, file, plan>>
  <2>1. StoresOK'
    BY <1>2, <1>5 DEF StoresInv, StoresOK
  <2>2. LockingOK' /\ RestoringOK' /\ PurgeOK' /\ UninstallOK'
    BY <1>2, <1>5 DEF LockingOK, RestoringOK, PurgeOK, UninstallOK, Before, Undoing
  <2>3. QED
    BY <1>3, <2>1, <2>2 DEF StoresInv
<1>6. QED
  BY <1>1, <1>4, <1>5 DEF UninstallFile

(* A file could not be restored: the wipe is off.                          *)
LEMMA UninstallFileFailsStep ==
    ASSUME StoresInv, UninstallFileFails
    PROVE  StoresInv'
<1>1. /\ pc' = "uninstall" /\ plan' = << >> /\ uninstalling' = "failed"
      /\ UNCHANGED <<env, line, split, enrolled, wanted, splits>>
  BY DEF UninstallFileFails, files, rows, user
<1>2. LockingOK' /\ RestoringOK' /\ PurgeOK' /\ UninstallOK'
  BY <1>1 DEF LockingOK, RestoringOK, PurgeOK, UninstallOK, Before, Undoing
<1>3. StoresOK'
  BY <1>1 DEF StoresInv, StoresOK, Steps
<1>4. QED
  BY <1>1, <1>2, <1>3, DataSame DEF StoresInv

(* uninstall starts with every file that has a row.                        *)
LEMMA StartUninstallStep ==
    ASSUME StoresInv, StartUninstall
    PROVE  StoresInv'
<1>1. /\ pc' = "uninstall" /\ todo' = {r.env : r \in enrolled} /\ uninstalling' = "restoring"
      /\ UNCHANGED <<env, line, split, enrolled, wanted, splits, file, plan, seen>>
  BY DEF StartUninstall, files, rows, user, bounds
<1>2. LockingOK' /\ RestoringOK' /\ PurgeOK'
  BY <1>1 DEF LockingOK, RestoringOK, PurgeOK, Before, Undoing
<1>3. \A e \in Env, v \in Var : Sealed(e, v) => e \in todo'
  BY <1>1 DEF StoresInv, DataOK, KeysSafe, HasRow
<1>4. UninstallOK'
  BY <1>1, <1>3 DEF UninstallOK, Sealed
<1>5. StoresOK'
  BY <1>1 DEF StoresInv, StoresOK, Steps
<1>6. QED
  BY <1>1, <1>2, <1>4, <1>5, DataSame DEF StoresInv

(* The home goes only when no line is sealed any more.                     *)
LEMMA WipeStep ==
    ASSUME StoresInv, Wipe
    PROVE  StoresInv'
<1>1. pc = "uninstall" /\ todo = {} /\ Stop /\ UNCHANGED <<env, line, wanted, splits>>
  BY DEF Wipe, files, user, bounds
<1>2. CASE UNCHANGED <<split, enrolled>>
  BY <1>1, <1>2, DataSame, Stopped DEF StoresInv, StoresOK
<1>3. CASE uninstalling # "failed" /\ split' = [a \in Alias |-> None] /\ enrolled' = {}
  <2>1. \A e \in Env, v \in Var : ~Sealed(e, v)
    BY <1>1, <1>3 DEF StoresInv, StoresOK, UninstallOK
  <2>2. DataOK'
    BY <1>1, <1>3, <2>1, RowsGo DEF StoresInv
  <2>3. split' \in [Alias -> (1..MaxSplits) \cup {None}] /\ IsFiniteSet(enrolled')
    BY <1>3, FS_EmptySet
  <2>4. StoresOK'
    BY <1>1, <1>3, <2>3, Stopped DEF StoresInv, StoresOK
  <2>5. QED
    BY <1>1, <2>2, <2>4, Stopped DEF StoresInv
<1>4. QED
  BY <1>2, <1>3 DEF Wipe, rows

(* _batch_restore_env gives every planned line the key it was sealed from. *)
LEMMA RestoreStep ==
    ASSUME StoresInv, Restore
    PROVE  StoresInv'
<1>f. PICK f \in Env : f = file
  BY DEF Restore, StoresInv, RestoringOK
<1>1. /\ pc = "restore" /\ pc' = "forget"
      /\ UNCHANGED <<split, enrolled, wanted, splits, file, todo, plan, seen, uninstalling>>
  BY DEF Restore, rows, user, bounds
<1>2. /\ plan \in Seq(Planned)
      /\ \A p \in ToSet(plan) : RestorePlanned(p)
  BY <1>1 DEF StoresInv, StoresOK, RestoringOK
<1> DEFINE planned(v) == \E p \in ToSet(plan) : p.var = v
           Back(v) == IF planned(v) THEN (CHOOSE p \in ToSet(plan) : p.var = v).alias
                      ELSE env[f][v]
<1>3. env' = [env EXCEPT ![f] = [v \in Var |-> Back(v)]]
  BY <1>f DEF Restore, StoresInv, StoresOK
<1>4. ASSUME NEW v \in Var, planned(v)
      PROVE  \E a \in Alias : /\ Back(v) = a /\ Reconstructs(env[f][v], a)
                              /\ a \in ShardOf(Secret) => Burnt(a)
  <2>1. PICK p \in ToSet(plan) : p.var = v /\ p = CHOOSE q \in ToSet(plan) : q.var = v
    BY <1>4
  <2>2. Back(v) = p.alias
    BY <1>4, <2>1
  <2>3. QED
    BY <1>1, <1>2, <1>f, <2>1, <2>2 DEF RestorePlanned
<1>5. ASSUME NEW v \in Var, ~planned(v) PROVE Back(v) = env[f][v]
  BY <1>5
<1> HIDE DEF Back
<1>6. \A e \in Env, v \in Var : env'[e][v] = IF e = f THEN Back(v) ELSE env[e][v]
  BY <1>3 DEF StoresInv, StoresOK
<1>7. env' \in [Env -> [Var -> Value \cup {None}]]
  <2>1. \A v \in Var : Back(v) \in Value \cup {None}
    BY <1>4, <1>5, ValueKinds DEF StoresInv, StoresOK
  <2>2. QED
    BY <1>3, <2>1 DEF StoresInv, StoresOK
<1>8. line' \in [Env -> [Slot -> {None, Own} \cup Route]]
  <2>1. ASSUME NEW p \in ToSet(plan), NEW s \in Slot PROVE GivenBack(p, s) \in {None, Own}
    BY <1>2 DEF GivenBack, RestorePlanned, Record
  <2>2. PICK given : given = [s \in Slot |->
                IF \E p \in ToSet(plan) : Touches(p, s)
                THEN GivenBack(CHOOSE p \in ToSet(plan) : Touches(p, s), s)
                ELSE line[f][s]]
    OBVIOUS
  <2>3. line' = [line EXCEPT ![f] = given]
    BY <1>f, <2>2 DEF Restore, StoresInv, StoresOK
  <2>4. given \in [Slot -> {None, Own} \cup Route]
    <3>1. ASSUME NEW s \in Slot, \E p \in ToSet(plan) : Touches(p, s)
          PROVE  GivenBack(CHOOSE p \in ToSet(plan) : Touches(p, s), s) \in {None, Own}
      <4>1. (CHOOSE p \in ToSet(plan) : Touches(p, s)) \in ToSet(plan)
        BY <3>1
      <4>2. QED
        BY <2>1, <4>1
    <3>2. \A s \in Slot : line[f][s] \in {None, Own} \cup Route
      BY DEF StoresInv, StoresOK
    <3>3. QED
      BY <2>2, <3>1, <3>2
  <2>5. QED
    BY <2>3, <2>4 DEF StoresInv, StoresOK
<1>9. StoresOK'
  BY <1>1, <1>7, <1>8 DEF StoresInv, StoresOK, Steps
<1>10. ASSUME NEW v \in Var, planned(v), wanted[f][v] # None PROVE Back(v) = wanted[f][v]
  <2>1. PICK a \in Alias : Back(v) = a /\ Reconstructs(env[f][v], a)
    BY <1>4, <1>10
  <2>2. env[f][v] = ShardA(a) /\ split[a] \in 1..MaxSplits
    BY <2>1 DEF Reconstructs, StoresInv, StoresOK
  <2>3. env[f][v] \in ShardOf(Alias) /\ wanted[f][v] \in Secret
    BY <1>10, <2>2, ValueKinds DEF ShardA, StoresInv, StoresOK
  <2>4. Sealed(f, v)
    BY <1>10, <2>3, ValueKinds DEF Sealed
  <2>5. env[f][v] = ShardA(wanted[f][v])
    BY <2>4 DEF StoresInv, DataOK, KeysSafe
  <2>6. QED
    BY <2>1, <2>2, <2>5 DEF ShardA
<1>11. ASSUME NEW e \in Env, NEW v \in Var, wanted[e][v] # None, env'[e][v] # wanted[e][v]
       PROVE  Sealed(e, v) /\ env'[e][v] = env[e][v] /\ (e = f => ~planned(v))
  BY <1>5, <1>6, <1>10, <1>11 DEF Sealed
<1>12. KeysSafe'
  BY <1>1, <1>11 DEF StoresInv, DataOK, KeysSafe, Sealed, HasRow, ShardA
<1>13. BurntOK'
  <2>1. ASSUME NEW e \in Env, NEW v \in Var, wanted[e][v] = None
        PROVE  env'[e][v] \notin Secret /\ (env'[e][v] \in ShardOf(Secret) => Burnt(env'[e][v]))
    <3>1. CASE env'[e][v] = env[e][v]
      BY <2>1, <3>1 DEF StoresInv, DataOK, BurntOK
    <3>2. CASE env'[e][v] # env[e][v]
      <4>1. e = f /\ planned(v) /\ env'[e][v] = Back(v)
        BY <1>5, <1>6, <3>2
      <4>2. PICK a \in Alias : /\ Back(v) = a /\ Reconstructs(env[f][v], a)
                               /\ a \in ShardOf(Secret) => Burnt(a)
        BY <1>4, <4>1
      <4>3. a \notin Secret
        <5> SUFFICES ASSUME a \in Secret PROVE FALSE
          OBVIOUS
        <5>1. env[f][v] = [of |-> a, split |-> split[a]] /\ split[a] \in 1..MaxSplits
          BY <4>2 DEF Reconstructs, ShardA, StoresInv, StoresOK
        <5>2. env[f][v] \in ShardOf(Secret)
          BY <5>1 DEF ShardOf
        <5>3. Burnt(env[f][v])
          BY <2>1, <4>1, <5>2 DEF StoresInv, DataOK, BurntOK
        <5>4. QED
          BY <5>1, <5>3 DEF Burnt
      <4>4. QED
        BY <4>1, <4>2, <4>3
    <3>3. QED
      BY <3>1, <3>2
  <2>2. \A r \in enrolled : r.alias \in ShardOf(Secret) => Burnt(r.alias)
    BY DEF StoresInv, DataOK, BurntOK
  <2>3. QED
    BY <1>1, <2>1, <2>2 DEF BurntOK, Burnt
<1>14. SplitsOK' /\ OneNameEach'
  BY <1>1 DEF StoresInv, DataOK, SplitsOK, OneNameEach
<1>15. ASSUME NEW p \in ToSet(plan) PROVE RestorePlanned(p)'
  <2>1. RestorePlanned(p) /\ p.var \in Var /\ planned(p.var)
    BY <1>2 DEF RestorePlanned
  <2>2. \A w \in Var \ {p.var} : Sealed(f, w)' => wanted[f][w] # p.alias
    BY <1>1, <1>f, <1>11, <2>1 DEF RestorePlanned, Sealed
  <2>3. ~Sealed(f, p.var)'
    BY <1>1, <1>11, <2>1 DEF Sealed
  <2>4. QED
    BY <1>1, <1>f, <2>1, <2>2, <2>3 DEF RestorePlanned
<1>16. LockingOK' /\ RestoringOK' /\ PurgeOK'
  BY <1>1, <1>f, <1>15 DEF LockingOK, RestoringOK, PurgeOK, Before, Undoing
<1>17. UninstallOK'
  <2>1. ASSUME uninstalling = "restoring", NEW e \in Env \ todo, NEW v \in Var, Sealed(e, v)'
        PROVE  FALSE
    <3>1. Sealed(e, v) /\ (e = f => ~planned(v))
      BY <1>1, <1>11, <2>1 DEF Sealed
    <3>2. QED
      BY <1>f, <2>1, <3>1 DEF StoresInv, UninstallOK
  <2>2. QED
    BY <1>1, <2>1 DEF StoresInv, UninstallOK
<1>18. QED
  BY <1>9, <1>12, <1>13, <1>14, <1>16, <1>17 DEF StoresInv, DataOK

(* _pass3_db_cleanup: the restored line's enrollment goes.                 *)
LEMMA ForgetStep ==
    ASSUME StoresInv, Forget
    PROVE  StoresInv'
<1>1. pc = "forget" /\ UNCHANGED <<env, line, split, wanted, splits>>
  BY DEF Forget, files, user, bounds
<1>2. /\ plan \in Seq(Planned) /\ file \in Env
      /\ \A p \in ToSet(plan) : RestorePlanned(p)
  BY <1>1 DEF StoresInv, StoresOK, RestoringOK
<1>3. CASE plan = << >> /\ Finish /\ UNCHANGED enrolled
  <2>1. /\ pc' = IF uninstalling = "no" THEN "idle" ELSE "uninstall"
        /\ plan' = << >> /\ UNCHANGED <<todo, uninstalling>>
    BY <1>3 DEF Finish
  <2>2. LockingOK' /\ RestoringOK' /\ PurgeOK'
    BY <2>1 DEF LockingOK, RestoringOK, PurgeOK, Before, Undoing
  <2>3. UninstallOK'
    BY <1>1, <2>1 DEF StoresInv, UninstallOK, Sealed
  <2>4. StoresOK'
    BY <1>1, <1>3, <2>1 DEF StoresInv, StoresOK, Steps
  <2>5. QED
    BY <1>1, <1>3, <2>2, <2>3, <2>4, DataSame DEF StoresInv
<1>4. CASE /\ plan # << >>
           /\ DeleteEnrollment(Head(plan).alias, file)
           /\ IF \E r \in enrolled : r.alias = Head(plan).alias /\ r.env # file
              THEN plan' = Tail(plan) /\ UNCHANGED pc
              ELSE pc' = "retire" /\ UNCHANGED plan
           /\ UNCHANGED <<file, todo, seen, uninstalling>>
  <2>1. PICK p, f : p = Head(plan) /\ f = file
    OBVIOUS
  <2>2. /\ RestorePlanned(p) /\ ToSet(plan') \subseteq ToSet(plan) /\ plan' \in Seq(Planned)
        /\ pc' \in {"forget", "retire"}
    <3>1. /\ Tail(plan) \in Seq(Planned) /\ p \in ToSet(plan)
          /\ ToSet(Tail(plan)) \subseteq ToSet(plan)
      BY <1>2, <1>4, <2>1, TailSet
    <3>2. \/ plan' = Tail(plan) /\ pc' = pc
          \/ plan' = plan /\ pc' = "retire"
      BY <1>4
    <3>3. RestorePlanned(p)
      BY <1>2, <3>1
    <3>4. QED
      BY <1>1, <1>2, <3>1, <3>2, <3>3
  <2>3. \A v \in Var : Sealed(f, v) => wanted[f][v] # p.alias
    BY <1>1, <2>1, <2>2 DEF RestorePlanned
  <2>4. DeleteEnrollment(p.alias, f)
    BY <1>4, <2>1
  <2>5. \A r \in enrolled' : split'[r.alias] = split[r.alias]
    BY <1>1
  <2>6. /\ DataOK' /\ IsFiniteSet(enrolled')
        /\ enrolled' \subseteq enrolled
        /\ \A r \in enrolled' : r.alias # p.alias \/ r.env # f
    BY <1>1, <2>3, <2>4, <2>5, DeleteEnrollmentKeeps DEF StoresInv
  <2>7. StoresOK'
    BY <1>1, <1>4, <2>2, <2>6 DEF StoresInv, StoresOK, Steps
  <2>8. ASSUME pc' = "retire"
        PROVE  plan' # << >> /\ \A r \in enrolled' : r.alias # Head(plan').alias
    BY <1>1, <1>4, <2>1, <2>6, <2>8
  <2>9. \A q \in ToSet(plan') : RestorePlanned(q)'
    <3> SUFFICES ASSUME NEW q \in ToSet(plan') PROVE RestorePlanned(q)'
      OBVIOUS
    <3>1. RestorePlanned(q)
      BY <1>2, <2>2
    <3>2. QED
      BY <1>1, <1>4, <2>2, <3>1 DEF RestorePlanned, Sealed
  <2>10. RestoringOK'
    BY <1>2, <1>4, <2>2, <2>8, <2>9 DEF RestoringOK
  <2>11. LockingOK' /\ PurgeOK'
    BY <2>2 DEF LockingOK, PurgeOK, Before, Undoing
  <2>12. UninstallOK'
    BY <1>1, <1>4, <2>2 DEF StoresInv, UninstallOK, Sealed
  <2>13. QED
    BY <2>6, <2>7, <2>10, <2>11, <2>12 DEF StoresInv
<1>5. QED
  BY <1>3, <1>4 DEF Forget

(* The shard-A joins the tripwire.                                         *)
LEMMA RetireStep ==
    ASSUME StoresInv, Retire
    PROVE  StoresInv'
<1>1. /\ pc = "retire" /\ pc' = "drop"
      /\ UNCHANGED <<env, line, split, enrolled, wanted, splits, file, plan, todo, seen, uninstalling>>
  BY DEF Retire, files, user, bounds
<1>2. \A q \in ToSet(plan) : RestorePlanned(q)'
  <2> SUFFICES ASSUME NEW q \in ToSet(plan) PROVE RestorePlanned(q)'
    OBVIOUS
  <2>1. RestorePlanned(q)
    BY <1>1 DEF StoresInv, RestoringOK
  <2>2. QED
    BY <1>1, <2>1 DEF RestorePlanned, Sealed
<1>3. RestoringOK'
  BY <1>1, <1>2 DEF StoresInv, RestoringOK
<1>4. LockingOK' /\ PurgeOK'
  BY <1>1 DEF LockingOK, PurgeOK, Before, Undoing
<1>5. UninstallOK'
  BY <1>1 DEF StoresInv, UninstallOK, Sealed
<1>6. StoresOK'
  BY <1>1 DEF StoresInv, StoresOK, Steps
<1>7. QED
  BY <1>1, <1>3, <1>4, <1>5, <1>6, DataSame DEF StoresInv

(* The shard of an alias with no enrollment left goes.                     *)
LEMMA DropStep ==
    ASSUME StoresInv, Drop
    PROVE  StoresInv'
<1>1. /\ pc = "drop" /\ pc' = "forget" /\ plan' = Tail(plan)
      /\ UNCHANGED <<env, line, wanted, splits, file, todo, seen, uninstalling>>
  BY DEF Drop, files, user, bounds
<1>2. /\ plan \in Seq(Planned) /\ plan # << >> /\ file \in Env
      /\ \A p \in ToSet(plan) : RestorePlanned(p)
      /\ \A r \in enrolled : r.alias # Head(plan).alias
  BY <1>1 DEF StoresInv, StoresOK, RestoringOK
<1>3. PICK p : p = Head(plan)
  OBVIOUS
<1>4. /\ RestorePlanned(p) /\ ToSet(plan') \subseteq ToSet(plan) /\ plan' \in Seq(Planned)
  BY <1>1, <1>2, <1>3, TailSet
<1>5. PICK a \in Alias : a = p.alias
  BY <1>4 DEF RestorePlanned
<1>6. \A e \in Env, v \in Var : Sealed(e, v) => wanted[e][v] # a
  BY <1>2, <1>3, <1>5 DEF StoresInv, DataOK, KeysSafe, HasRow
<1>7. DeleteEnrolled(a)
  BY <1>3, <1>5 DEF Drop
<1>8. /\ DataOK' /\ IsFiniteSet(enrolled')
      /\ split' \in [Alias -> (1..MaxSplits) \cup {None}]
      /\ enrolled' = {r \in enrolled : r.alias # a}
  BY <1>1, <1>6, <1>7, DeleteEnrolledKeeps DEF StoresInv
<1>9. StoresOK'
  BY <1>1, <1>4, <1>8 DEF StoresInv, StoresOK, Steps
<1>10. \A q \in ToSet(plan') : RestorePlanned(q)'
  <2> SUFFICES ASSUME NEW q \in ToSet(plan') PROVE RestorePlanned(q)'
    OBVIOUS
  <2>1. RestorePlanned(q)
    BY <1>2, <1>4
  <2>2. QED
    BY <1>1, <2>1 DEF RestorePlanned, Sealed
<1>11. RestoringOK'
  BY <1>1, <1>2, <1>10 DEF RestoringOK
<1>12. LockingOK' /\ PurgeOK'
  BY <1>1 DEF LockingOK, PurgeOK, Before, Undoing
<1>13. UninstallOK'
  BY <1>1 DEF StoresInv, UninstallOK, Sealed
<1>14. QED
  BY <1>8, <1>9, <1>11, <1>12, <1>13 DEF StoresInv

-----------------------------------------------------------------------------
(* revoke, doctor --fix and the user *)

(* revoke: the lines it opens are given up with the shard.                 *)
LEMMA RevokeStep ==
    ASSUME StoresInv, NEW a \in Alias, Revoke(a)
    PROVE  StoresInv'
<1>1. /\ pc = "idle" /\ UNCHANGED <<env, line, splits, pc, file, todo, plan, seen, uninstalling>>
      /\ DeleteEnrolled(a) /\ GiveUp(a)
  BY DEF Revoke, files, command, bounds
<1>2. /\ \A b \in Alias : split'[b] = IF b = a THEN None ELSE split[b]
      /\ split' \in [Alias -> (1..MaxSplits) \cup {None}]
      /\ enrolled' = {r \in enrolled : r.alias # a}
      /\ IsFiniteSet(enrolled')
  <2>1. /\ split' = [split EXCEPT ![a] = None]
        /\ enrolled' = {r \in enrolled : r.alias # a}
    BY <1>1 DEF DeleteEnrolled
  <2>2. IsFiniteSet(enrolled')
    BY <2>1, FS_Subset DEF StoresInv, StoresOK
  <2>3. QED
    BY <2>1, <2>2 DEF StoresInv, StoresOK
<1>3. /\ \A e \in Env, v \in Var :
            wanted'[e][v] = IF Reconstructs(env[e][v], a) THEN None ELSE wanted[e][v]
      /\ wanted' \in [Env -> [Var -> Secret \cup {None}]]
  BY <1>1 DEF GiveUp, StoresInv, StoresOK
<1>4. StoresOK'
  BY <1>1, <1>2, <1>3 DEF StoresInv, StoresOK
<1>5. KeysSafe'
  <2> SUFFICES ASSUME NEW e \in Env, NEW v \in Var,
                      wanted'[e][v] # None, env[e][v] # wanted'[e][v]
               PROVE  /\ env[e][v] = [of |-> wanted'[e][v], split |-> split'[wanted'[e][v]]]
                      /\ \E r \in enrolled' : r.alias = wanted'[e][v] /\ r.var = v /\ r.env = e
    BY <1>1 DEF KeysSafe, Sealed, HasRow, ShardA
  <2>1. wanted'[e][v] = wanted[e][v] /\ ~Reconstructs(env[e][v], a) /\ Sealed(e, v)
    BY <1>3 DEF Sealed
  <2>2. env[e][v] = ShardA(wanted[e][v]) /\ HasRow(wanted[e][v], v, e)
    BY <2>1 DEF StoresInv, DataOK, KeysSafe
  <2>3. split[wanted[e][v]] # None
    BY <2>2 DEF HasRow, StoresInv, DataOK, SplitsOK
  <2>4. wanted[e][v] # a
    BY <2>1, <2>2, <2>3 DEF Reconstructs
  <2>5. wanted[e][v] \in Alias
    BY <2>1, ValueKinds DEF Sealed, StoresInv, StoresOK
  <2>6. QED
    BY <1>2, <2>1, <2>2, <2>4, <2>5 DEF ShardA, HasRow
<1>6. SplitsOK'
  <2>1. \A r \in enrolled' : split'[r.alias] # None
    BY <1>2 DEF StoresInv, StoresOK, Row, DataOK, SplitsOK
  <2>2. \A b \in Alias : split'[b] # None => split'[b] <= splits
    BY <1>2 DEF StoresInv, DataOK, SplitsOK
  <2>3. QED
    BY <1>1, <2>1, <2>2 DEF SplitsOK
<1>7. OneNameEach'
  <2>1. \A e \in Env, v \in Var : wanted'[e][v] # None => wanted'[e][v] = wanted[e][v]
    BY <1>3
  <2>2. \A r \in enrolled' : r \in enrolled /\ r.env \in Env /\ r.alias # None
    BY <1>2, ValueKinds DEF StoresInv, StoresOK, Row
  <2>3. \A r \in enrolled', w \in Var : wanted'[r.env][w] = r.alias => r.var = w
    BY <2>1, <2>2 DEF StoresInv, DataOK, OneNameEach
  <2>4. \A e \in Env, v, w \in Var : v # w /\ wanted'[e][v] # None => wanted'[e][v] # wanted'[e][w]
    BY <2>1 DEF StoresInv, DataOK, OneNameEach
  <2>5. QED
    BY <2>3, <2>4 DEF OneNameEach
<1>8. BurntOK'
  <2>1. \A x \in ShardOf(Secret) : Burnt(x) => Burnt(x)'
    BY <1>1, <1>2, ValueKinds DEF Burnt
  <2>2. ASSUME NEW e \in Env, NEW v \in Var, wanted'[e][v] = None
        PROVE  env[e][v] \notin Secret /\ (env[e][v] \in ShardOf(Secret) => Burnt(env[e][v])')
    <3>1. CASE wanted[e][v] = None
      <4>1. env[e][v] \notin Secret /\ (env[e][v] \in ShardOf(Secret) => Burnt(env[e][v]))
        BY <3>1 DEF StoresInv, DataOK, BurntOK
      <4>2. PICK x : x = env[e][v]
        OBVIOUS
      <4>3. x \in ShardOf(Secret) => Burnt(x)'
        BY <2>1, <4>1, <4>2
      <4>4. QED
        BY <1>1, <4>1, <4>2, <4>3 DEF Burnt
    <3>2. CASE Reconstructs(env[e][v], a)
      <4>1. env[e][v] = [of |-> a, split |-> split[a]] /\ split[a] \in 1..MaxSplits /\ split[a] <= splits
        BY <3>2 DEF Reconstructs, ShardA, StoresInv, StoresOK, DataOK, SplitsOK
      <4>2. env[e][v] \in ShardOf(Alias)
        BY <4>1, ValueKinds
      <4>3. Burnt(env[e][v])'
        <5>1. split'[a] # split[a] /\ split[a] <= splits'
          BY <1>1, <1>2, <4>1, ValueKinds
        <5>2. QED
          BY <1>1, <4>1, <5>1 DEF Burnt
      <4>4. QED
        BY <4>2, <4>3, ValueKinds
    <3>3. QED
      BY <1>3, <2>2, <3>1, <3>2
  <2>3. \A r \in enrolled' : r.alias \in ShardOf(Secret) => Burnt(r.alias)'
    BY <1>2, <2>1 DEF StoresInv, DataOK, BurntOK
  <2>4. QED
    BY <1>1, <2>2, <2>3 DEF BurntOK, Burnt
<1>9. LockingOK' /\ RestoringOK' /\ PurgeOK'
  BY <1>1 DEF LockingOK, RestoringOK, PurgeOK, Before, Undoing
<1>10. UninstallOK'
  BY <1>1 DEF StoresInv, StoresOK, UninstallOK
<1>11. QED
  BY <1>4, <1>5, <1>6, <1>7, <1>8, <1>9, <1>10 DEF StoresInv, DataOK

(* find_orphans: a line that is gone is not sealed.                        *)
LEMMA StartPurgeStep ==
    ASSUME StoresInv, StartPurge
    PROVE  StoresInv'
<1>1. /\ pc = "idle" /\ pc' = "purge" /\ seen' = {} /\ todo' = {<<r.alias, r.env>> : r \in Orphans}
      /\ UNCHANGED <<env, line, split, enrolled, wanted, splits, plan, uninstalling>>
  BY DEF StartPurge, files, rows, user, bounds
<1>2. ASSUME NEW r \in Orphans
      PROVE  /\ <<r.alias, r.env>> \in Alias \X Env
             /\ \A v \in Var : Sealed(r.env, v) => wanted[r.env][v] # r.alias
  <2>1. r \in enrolled /\ r \in Row /\ env[r.env][r.var] = None
    BY DEF Orphans, StoresInv, StoresOK
  <2>2. ASSUME NEW v \in Var, Sealed(r.env, v), wanted[r.env][v] = r.alias PROVE FALSE
    <3>1. r.env \in Env /\ r.alias \in Alias /\ r.var = v
      BY <2>1, <2>2 DEF Row, StoresInv, DataOK, OneNameEach
    <3>2. env[r.env][v] = [of |-> r.alias, split |-> split[r.alias]] /\ split[r.alias] # None
      BY <2>1, <2>2, <3>1 DEF StoresInv, DataOK, KeysSafe, SplitsOK, ShardA
    <3>3. split[r.alias] \in 1..MaxSplits
      BY <3>1, <3>2 DEF StoresInv, StoresOK
    <3>4. env[r.env][v] \in Value
      BY <3>1, <3>2, <3>3, ValueKinds
    <3>5. QED
      BY <2>1, <3>1, <3>4, ValueKinds
  <2>3. QED
    BY <2>1, <2>2 DEF Row
<1>3. /\ todo' \subseteq Alias \X Env
      /\ \A k \in todo', v \in Var : Sealed(k[2], v) => wanted[k[2]][v] # k[1]
  <2>1. todo' \subseteq Alias \X Env
    BY <1>1, <1>2
  <2>2. ASSUME NEW k \in todo', NEW v \in Var, Sealed(k[2], v) PROVE wanted[k[2]][v] # k[1]
    <3>1. PICK r \in Orphans : k = <<r.alias, r.env>>
      BY <1>1
    <3>2. QED
      BY <1>2, <2>2, <3>1
  <2>3. QED
    BY <2>1, <2>2
<1>4. PurgeOK'
  BY <1>1, <1>3 DEF PurgeOK, Sealed
<1>5. LockingOK' /\ RestoringOK' /\ UninstallOK'
  BY <1>1 DEF StoresInv, StoresOK, LockingOK, RestoringOK, UninstallOK, Before, Undoing
<1>6. StoresOK'
  BY <1>1 DEF StoresInv, StoresOK, Steps
<1>7. QED
  BY <1>1, <1>4, <1>5, <1>6, DataSame DEF StoresInv

(* _purge_all deletes the enrollments found.                               *)
LEMMA PurgeStep ==
    ASSUME StoresInv, Purge
    PROVE  StoresInv'
<1>1. pc = "purge" /\ UNCHANGED <<env, line, split, wanted, splits, plan, uninstalling>>
  BY DEF Purge, files, user, bounds
<1>2. /\ todo \subseteq Alias \X Env /\ seen \subseteq Alias
      /\ \A k \in todo, v \in Var : Sealed(k[2], v) => wanted[k[2]][v] # k[1]
  BY <1>1 DEF StoresInv, PurgeOK
<1>3. CASE \E k \in todo : /\ DeleteEnrollment(k[1], k[2])
                           /\ todo' = todo \ {k}
                           /\ seen' = seen \cup {k[1]}
                           /\ UNCHANGED pc
  <2>1. PICK k \in todo : /\ DeleteEnrollment(k[1], k[2])
                          /\ todo' = todo \ {k}
                          /\ seen' = seen \cup {k[1]}
                          /\ UNCHANGED pc
    BY <1>3
  <2>2. PICK a \in Alias, e \in Env : a = k[1] /\ e = k[2]
    BY <1>2
  <2>3. \A v \in Var : Sealed(e, v) => wanted[e][v] # a
    BY <1>2, <2>2
  <2>4. DeleteEnrollment(a, e) /\ \A r \in enrolled' : split'[r.alias] = split[r.alias]
    BY <1>1, <2>1, <2>2
  <2>5. /\ DataOK' /\ IsFiniteSet(enrolled')
        /\ enrolled' \subseteq enrolled
    BY <1>1, <2>3, <2>4, DeleteEnrollmentKeeps DEF StoresInv
  <2>6. StoresOK'
    BY <1>1, <2>1, <2>5 DEF StoresInv, StoresOK
  <2>7. PurgeOK'
    BY <1>1, <1>2, <2>1, <2>2 DEF PurgeOK, Sealed
  <2>8. LockingOK' /\ RestoringOK' /\ UninstallOK'
    BY <1>1, <2>1 DEF StoresInv, StoresOK, LockingOK, RestoringOK, UninstallOK, Before, Undoing
  <2>9. QED
    BY <2>5, <2>6, <2>7, <2>8 DEF StoresInv
<1>4. CASE /\ pc' = "teardown"
           /\ seen' = {a \in seen : \A r \in enrolled : r.alias # a}
           /\ UNCHANGED <<enrolled, todo>>
  <2>1. PurgeOK'
    BY <1>2, <1>4 DEF PurgeOK
  <2>2. LockingOK' /\ RestoringOK' /\ UninstallOK'
    BY <1>1, <1>4 DEF StoresInv, StoresOK, LockingOK, RestoringOK, UninstallOK, Before, Undoing
  <2>3. StoresOK'
    BY <1>1, <1>4 DEF StoresInv, StoresOK, Steps
  <2>4. QED
    BY <1>1, <1>4, <2>1, <2>2, <2>3, DataSame DEF StoresInv
<1>5. QED
  BY <1>3, <1>4 DEF Purge

(* and the shards that were left without one.                              *)
LEMMA TeardownStep ==
    ASSUME StoresInv, Teardown
    PROVE  StoresInv'
<1>1. pc = "teardown" /\ UNCHANGED <<env, line, wanted, splits>>
  BY DEF Teardown, files, user, bounds
<1>2. seen \subseteq Alias /\ \A a \in seen, r \in enrolled : r.alias # a
  BY <1>1 DEF StoresInv, PurgeOK
<1>3. CASE \E a \in seen : /\ DeleteEnrolled(a)
                           /\ seen' = seen \ {a}
                           /\ UNCHANGED <<pc, file, todo, plan, uninstalling>>
  <2>1. PICK a \in Alias : /\ a \in seen /\ DeleteEnrolled(a)
                           /\ seen' = seen \ {a}
                           /\ UNCHANGED <<pc, file, todo, plan, uninstalling>>
    BY <1>2, <1>3
  <2>2. \A e \in Env, v \in Var : Sealed(e, v) => wanted[e][v] # a
    BY <1>2, <2>1 DEF StoresInv, DataOK, KeysSafe, HasRow
  <2>3. /\ DataOK' /\ IsFiniteSet(enrolled')
        /\ split' \in [Alias -> (1..MaxSplits) \cup {None}]
        /\ enrolled' = {r \in enrolled : r.alias # a}
    BY <1>1, <2>1, <2>2, DeleteEnrolledKeeps DEF StoresInv
  <2>4. StoresOK'
    BY <1>1, <2>1, <2>3 DEF StoresInv, StoresOK
  <2>5. PurgeOK'
    BY <1>1, <1>2, <2>1, <2>3 DEF PurgeOK
  <2>6. LockingOK' /\ RestoringOK' /\ UninstallOK'
    BY <1>1, <2>1 DEF StoresInv, StoresOK, LockingOK, RestoringOK, UninstallOK, Before, Undoing
  <2>7. QED
    BY <2>3, <2>4, <2>5, <2>6 DEF StoresInv
<1>4. CASE Stop /\ UNCHANGED <<split, enrolled>>
  BY <1>1, <1>4, DataSame, Stopped DEF StoresInv, StoresOK
<1>5. QED
  BY <1>3, <1>4 DEF Teardown

\* PutKey's guard.
NameIsFree(e, v, s) ==
    \A w \in Var \ {v} :
        /\ wanted[e][w] # s
        /\ \A r \in RowsAt(w, e) : r.alias # s
        /\ file = e /\ seen # None => seen[1][w] # s

(* The user puts a key on a line, or deletes one: an edited line is not sealed. *)
LEMMA KeyEdited ==
    ASSUME StoresInv, pc # "restore",
           UNCHANGED <<line, rows, command, splits>>,
           NEW e \in Env, NEW v \in Var, NEW x \in Secret \cup {None},
           env' = [env EXCEPT ![e][v] = x],
           wanted' = [wanted EXCEPT ![e][v] = x],
           x # None => NameIsFree(e, v, x)
    PROVE  StoresInv'
<1>1. UNCHANGED <<split, enrolled, pc, file, todo, plan, seen, uninstalling>>
  BY DEF rows, command
<1>2. \A d \in Env, w \in Var :
          /\ env'[d][w] = IF d = e /\ w = v THEN x ELSE env[d][w]
          /\ wanted'[d][w] = IF d = e /\ w = v THEN x ELSE wanted[d][w]
  BY DEF StoresInv, StoresOK
<1>3. \A d \in Env, w \in Var : Sealed(d, w)' =>
          Sealed(d, w) /\ wanted'[d][w] = wanted[d][w] /\ env'[d][w] = env[d][w]
  BY <1>2 DEF Sealed
<1>4. StoresOK'
  <2>1. x \in Value \cup {None}
    BY ValueKinds
  <2>2. env' \in [Env -> [Var -> Value \cup {None}]]
    BY <2>1 DEF StoresInv, StoresOK
  <2>3. wanted' \in [Env -> [Var -> Secret \cup {None}]]
    BY DEF StoresInv, StoresOK
  <2>4. QED
    BY <1>1, <2>2, <2>3 DEF StoresInv, StoresOK
<1>5. KeysSafe'
  BY <1>1, <1>3 DEF StoresInv, DataOK, KeysSafe, HasRow, ShardA
<1>6. SplitsOK'
  BY <1>1 DEF StoresInv, DataOK, SplitsOK
<1>7. OneNameEach'
  <2>1. \A d \in Env, u, w \in Var : u # w /\ wanted'[d][u] # None => wanted'[d][u] # wanted'[d][w]
    BY <1>2 DEF StoresInv, DataOK, OneNameEach, NameIsFree
  <2>2. ASSUME NEW r \in enrolled, NEW w \in Var, wanted'[r.env][w] = r.alias PROVE r.var = w
    <3>1. r.env \in Env /\ r.var \in Var /\ r.alias # None
      BY ValueKinds DEF StoresInv, StoresOK, Row
    <3>2. CASE r.env = e /\ w = v
      BY <1>2, <2>2, <3>1, <3>2 DEF RowsAt, NameIsFree
    <3>3. CASE ~(r.env = e /\ w = v)
      BY <1>2, <2>2, <3>1, <3>3 DEF StoresInv, DataOK, OneNameEach
    <3>4. QED
      BY <3>2, <3>3
  <2>3. QED
    BY <1>1, <2>1, <2>2 DEF OneNameEach
<1>8. BurntOK'
  <2>1. \A d \in Env, w \in Var : wanted'[d][w] = None =>
            env'[d][w] = None \/ (wanted[d][w] = None /\ env'[d][w] = env[d][w])
    BY <1>2
  <2>2. None \notin Secret /\ None \notin ShardOf(Secret)
    BY ValueKinds
  <2>3. QED
    BY <1>1, <2>1, <2>2 DEF StoresInv, DataOK, BurntOK, Burnt
<1>9. LockingOK'
  <2> SUFFICES ASSUME pc \in Before \cup Undoing PROVE LockingOK'
    BY <1>1 DEF LockingOK
  <2>f. PICK f, s : f = file /\ s = seen /\ f \in Env
    BY DEF StoresInv, LockingOK, SeenOK
  <2>1. SeenOK'
    <3>1. ASSUME NEW u \in Var, s[1][u] \in Secret, NEW w \in Var \ {u}
          PROVE  wanted'[f][w] # s[1][u]
      <4>1. wanted[f][w] # s[1][u] /\ seen # None
        BY <2>f, <3>1 DEF StoresInv, LockingOK, SeenOK
      <4>2. s[1][u] # None
        BY <3>1, ValueKinds
      <4>3. CASE f = e /\ w = v
        BY <1>2, <2>f, <3>1, <4>1, <4>2, <4>3 DEF NameIsFree
      <4>4. CASE ~(f = e /\ w = v)
        BY <1>2, <4>1, <4>4
      <4>5. QED
        BY <4>3, <4>4
    <3>2. SeenOK
      BY DEF StoresInv, LockingOK
    <3>3. QED
      BY <1>1, <2>f, <3>1, <3>2 DEF SeenOK
  <2>2. ASSUME NEW p \in ToSet(plan) PROVE LockPlanned(p)' /\ (pc \in Before => Committable(p)')
    <3>1. LockPlanned(p) /\ (pc \in Before => Committable(p))
      BY DEF StoresInv, LockingOK
    <3>2. LockPlanned(p)'
      BY <1>1, <1>3, <2>f, <3>1 DEF LockPlanned
    <3>3. pc \in Before => Committable(p)'
      BY <1>1, <3>1 DEF Committable, HasRow, ShardA
    <3>4. QED
      BY <3>2, <3>3
  <2>3. ASSUME NEW w \in todo
        PROVE  /\ ~Sealed(f, w)' /\ s[1][w] \in Alias
               /\ s[1][w] \in ShardOf(Secret) => Burnt(s[1][w])
    BY <1>3, <2>f DEF StoresInv, LockingOK
  <2>4. todo \subseteq Var
        /\ (pc \in {"supersede", "unwind_shard"} => plan # << >>)
        /\ (pc = "unwind_shard" => Last(plan).fresh)
    BY DEF StoresInv, LockingOK
  <2>5. QED
    BY <1>1, <2>f, <2>1, <2>2, <2>3, <2>4 DEF LockingOK, Burnt
<1>10. RestoringOK'
  <2> SUFFICES ASSUME pc \in {"forget", "retire", "drop"} PROVE RestoringOK'
    BY <1>1 DEF RestoringOK
  <2>1. ASSUME NEW p \in ToSet(plan) PROVE RestorePlanned(p)'
    <3>1. RestorePlanned(p) /\ file \in Env
      BY DEF StoresInv, RestoringOK
    <3>2. QED
      BY <1>1, <1>3, <3>1 DEF RestorePlanned
  <2>2. QED
    BY <1>1, <2>1 DEF StoresInv, RestoringOK
<1>11. UninstallOK'
  BY <1>1, <1>3 DEF StoresInv, UninstallOK
<1>12. PurgeOK'
  <2>1. \A k \in Alias \X Env : k[2] \in Env
    OBVIOUS
  <2>2. QED
    BY <1>1, <1>3, <2>1 DEF StoresInv, PurgeOK
<1>13. QED
  BY <1>4, <1>5, <1>6, <1>7, <1>8, <1>9, <1>10, <1>11, <1>12 DEF StoresInv, DataOK

(* The user edits a *_BASE_URL line.                                       *)
LEMMA LineEdited ==
    ASSUME StoresInv,
           UNCHANGED <<env, rows, command, wanted, splits>>,
           line' \in [Env -> [Slot -> {None, Own} \cup Route]]
    PROVE  StoresInv'
<1>1. UNCHANGED <<split, enrolled, pc, file, todo, plan, seen, uninstalling>>
  BY DEF rows, command
<1>2. StoresOK'
  BY <1>1 DEF StoresInv, StoresOK
<1>3. LockingOK'
  BY <1>1 DEF StoresInv, LockingOK, SeenOK, LockPlanned, Committable, Sealed, Burnt, HasRow, ShardA
<1>4. RestoringOK'
  BY <1>1 DEF StoresInv, RestoringOK, RestorePlanned, Reconstructs, Sealed, Burnt, ShardA
<1>5. UninstallOK' /\ PurgeOK'
  BY <1>1 DEF StoresInv, UninstallOK, PurgeOK, Sealed
<1>6. QED
  BY <1>1, <1>2, <1>3, <1>4, <1>5, DataSame DEF StoresInv

-----------------------------------------------------------------------------
(* No key is lost *)

(* At first nothing is enrolled and no key is wanted.                      *)
LEMMA StoresInvInit == Init => StoresInv
<1> SUFFICES ASSUME Init PROVE StoresInv
  OBVIOUS
<1> USE DEF Init
<1>1. StoresOK
  <2>1. /\ env \in [Env -> [Var -> Value \cup {None}]]
        /\ line \in [Env -> [Slot -> {None, Own} \cup Route]]
        /\ wanted \in [Env -> [Var -> Secret \cup {None}]]
    OBVIOUS
  <2>2. split \in [Alias -> (1..MaxSplits) \cup {None}] /\ enrolled \subseteq Row /\ IsFiniteSet(enrolled)
    BY FS_EmptySet
  <2>3. splits \in 0..MaxSplits
    OBVIOUS
  <2>4. pc \in Steps /\ plan \in Seq(Planned) /\ uninstalling \in {"no", "restoring", "failed"}
    BY DEF Steps
  <2>5. QED
    BY <2>1, <2>2, <2>3, <2>4 DEF StoresOK
<1>2. \A e \in Env, v \in Var : wanted[e][v] = None /\ env[e][v] = None
  OBVIOUS
<1>3. KeysSafe /\ OneNameEach
  BY <1>2 DEF KeysSafe, OneNameEach, Sealed
<1>4. SplitsOK
  BY DEF SplitsOK
<1>5. BurntOK
  BY <1>2, ValueKinds DEF BurntOK
<1>6. LockingOK /\ RestoringOK /\ UninstallOK /\ PurgeOK
  BY DEF LockingOK, RestoringOK, UninstallOK, PurgeOK, Before, Undoing
<1>7. QED
  BY <1>1, <1>3, <1>4, <1>5, <1>6 DEF StoresInv, DataOK

(* Every step of every command, the user's edits and kills keep the invariant. *)
LEMMA StoresInvStep ==
    ASSUME ~TwoNames, ~EditsRace, StoresInv, [Next]_vars
    PROVE  StoresInv'
<1>1. CASE \E e \in Env, k \in BOOLEAN : StartLock(e, k)
  BY <1>1, StartLockStep
<1>2. CASE \E v \in Var : Enroll(v) \/ EnrollFails(v)
  BY <1>2, EnrollStep, EnrollFailsStep
<1>3. CASE Supersede \/ RecordBaseUrlRestores \/ Rewrite \/ RewriteRefused
           \/ LockFails \/ Unwind \/ UnwindShard
  BY <1>3, SupersedeStep, RecordStep, RewriteStep, RewriteRefusedStep, LockFailsStep,
     UnwindStep, UnwindShardStep
<1>4. CASE \E e \in Env : \E A \in {EnrolledIn(e)} \cup {{a} : a \in EnrolledIn(e)} : StartUnlock(e, A)
  BY <1>4, StartUnlockStep
<1>5. CASE Restore \/ Forget \/ Retire \/ Drop
  BY <1>5, RestoreStep, ForgetStep, RetireStep, DropStep
<1>6. CASE StartUninstall \/ (\E e \in Env : UninstallFile(e)) \/ UninstallFileFails \/ Wipe
  BY <1>6, StartUninstallStep, UninstallFileStep, UninstallFileFailsStep, WipeStep
<1>7. CASE \E a \in Alias : Revoke(a)
  BY <1>7, RevokeStep
<1>8. CASE StartPurge \/ Purge \/ Teardown
  BY <1>8, StartPurgeStep, PurgeStep, TeardownStep
<1>9. ASSUME NEW e \in Env, NEW v \in Var, NEW s \in Secret, PutKey(e, v, s) PROVE StoresInv'
  <2>1. pc # "restore" /\ UNCHANGED <<line, rows, command, splits>>
    BY <1>9 DEF PutKey, Edit
  <2>2. env' = [env EXCEPT ![e][v] = s] /\ wanted' = [wanted EXCEPT ![e][v] = s]
    BY <1>9 DEF PutKey
  <2>3. NameIsFree(e, v, s)
    BY <1>9 DEF PutKey, NameIsFree
  <2>4. s \in Secret \cup {None}
    OBVIOUS
  <2>5. QED
    BY <2>1, <2>2, <2>3, <2>4, KeyEdited
<1>10. ASSUME NEW e \in Env, NEW v \in Var, DeleteKey(e, v) PROVE StoresInv'
  <2>1. pc # "restore" /\ UNCHANGED <<line, rows, command, splits>>
    BY <1>10 DEF DeleteKey, Edit
  <2>2. env' = [env EXCEPT ![e][v] = None] /\ wanted' = [wanted EXCEPT ![e][v] = None]
    BY <1>10 DEF DeleteKey
  <2>3. QED
    BY <2>1, <2>2, KeyEdited
<1>11. ASSUME NEW e \in Env, NEW s \in Slot, NEW x \in {None, Own}, PutLine(e, s, x) PROVE StoresInv'
  <2>1. UNCHANGED <<env, rows, command, wanted, splits>>
    BY <1>11 DEF PutLine, Edit
  <2>2. line' \in [Env -> [Slot -> {None, Own} \cup Route]]
    BY <1>11 DEF PutLine, StoresInv, StoresOK
  <2>3. QED
    BY <2>1, <2>2, LineEdited
<1>12. CASE Die
  <2>1. Stop /\ UNCHANGED <<env, line, split, enrolled, wanted, splits>>
    BY <1>12 DEF Die, files, rows, user
  <2>2. QED
    BY <2>1, Stopped, DataSame DEF StoresInv, StoresOK
<1>13. CASE UNCHANGED vars
  BY <1>13, LineEdited DEF vars, files, user, bounds, StoresInv, StoresOK
<1>14. QED
  BY <1>1, <1>2, <1>3, <1>4, <1>5, <1>6, <1>7, <1>8, <1>9, <1>10, <1>11, <1>12, <1>13 DEF Next

(* lock, unlock, uninstall, revoke, doctor --fix: for any number of files,   *)
(* keys, splits, edits, failures and kills, no key is lost, as long as a key *)
(* has one name in a file and nobody edits a file between unlock's read of   *)
(* it and its rewrite (the two cases the commands do not guard against).     *)
THEOREM NoKeyIsLost == ~TwoNames /\ ~EditsRace => (Spec => []EveryKeyRecoverable)
<1> SUFFICES ASSUME ~TwoNames, ~EditsRace PROVE Spec => []EveryKeyRecoverable
  OBVIOUS
<1>1. StoresInv /\ [Next]_vars => StoresInv'
  BY StoresInvStep
<1>2. StoresInv => EveryKeyRecoverable
  BY DEF StoresInv, DataOK, KeysSafe, Sealed, HasRow, EveryKeyRecoverable, RowsOf
<1>3. QED
  BY <1>1, <1>2, StoresInvInit, PTL DEF Spec

-----------------------------------------------------------------------------
(* What unlock retires is on no line any more.  A line that holds the       *)
(* shard-A of a stored split has an enrollment of its own, so the last      *)
(* enrollment goes only with the last such line.  For a key that is in      *)
(* StoresInv.  But the user may also lock again what a revoked key left     *)
(* behind: a shard-A is then an alias, its own shard-A stands on the line,  *)
(* and nobody wants a key there.                                            *)

\* The shard-A of a shard-A.
Twice(y) == y \in ShardOf(ShardOf(Secret))

\* A line with y on it is the one that x was on, locked again or not.
StandsFor(y, x) == y = x \/ (Twice(y) /\ y.of = x)

\* What was locked again was dead; what its split opens is enrolled.
AgainEnrolled ==
    \A e \in Env, v \in Var : Twice(env[e][v]) =>
        /\ env[e][v].split <= splits
        /\ Burnt(env[e][v].of)
        /\ env[e][v] = ShardA(env[e][v].of) => HasRow(env[e][v].of, v, e)

\* It stands on one line of a file, the one its rows name.
OneLineEach ==
    \A e \in Env, v, w \in Var, x \in ShardOf(Secret) :
        StandsFor(env[e][v], x) /\ StandsFor(env[e][w], x) => v = w

RowsNameLines ==
    \A r \in enrolled, w \in Var, x \in ShardOf(Secret) :
        r.alias = x /\ StandsFor(env[r.env][w], x) => w = r.var

AgainOK == AgainEnrolled /\ OneLineEach /\ RowsNameLines

\* lock: the file is as in the snapshot, but for the user's edits; ...
SeenAgain ==
    /\ \A v \in Var : env[file][v] \in Secret \cup {None} \/ env[file][v] = seen[1][v]
    /\ \A v, w \in Var, x \in ShardOf(Secret) :
          StandsFor(seen[1][v], x) /\ StandsFor(seen[1][w], x) => v = w
    /\ \A r \in enrolled, w \in Var, x \in ShardOf(Secret) :
          r.env = file /\ r.alias = x /\ StandsFor(seen[1][w], x) => w = r.var

\* ... what it will write is enrolled.
AgainCommittable(p) ==
    p.alias \in ShardOf(Secret) =>
        p.shard_a = ShardA(p.alias) /\ HasRow(p.alias, p.var, file)

LockingAgain ==
    /\ pc \in Before \cup Undoing => SeenAgain
    /\ pc \in Before => \A p \in ToSet(plan) : AgainCommittable(p)

\* unlock: its line is the only one, and lets go of the shard-A; that is still
\* the stored one until it is retired.
AgainRestored(p) ==
    /\ p.alias \in ShardOf(Secret) =>
          /\ \A w \in Var : StandsFor(env[file][w], p.alias) => w = p.var
          /\ pc # "restore" => ~Twice(env[file][p.var])
    /\ p.shard_a \in decoys \/ (split[p.alias] # None /\ p.shard_a = ShardA(p.alias))

RestoringAgain ==
    pc \in {"restore", "forget", "retire", "drop"} =>
        /\ \A p \in ToSet(plan) : AgainRestored(p)
        /\ \A p, q \in ToSet(plan) : p.alias = q.alias => p.shard_a = q.shard_a
        /\ pc = "drop" => Head(plan).shard_a \in decoys

\* doctor --fix: the line that is gone was the only one.
PurgeAgain ==
    pc = "purge" =>
        \A k \in todo, e \in Env, v \in Var :
            Twice(env[e][v]) => k # <<env[e][v].of, e>>

AgainInv == AgainOK /\ LockingAgain /\ RestoringAgain /\ PurgeAgain

-----------------------------------------------------------------------------
(* A shard-A of a shard-A is neither a key nor an alias; what it is of is.  *)
LEMMA TwiceKinds ==
    /\ \A y : Twice(y) => /\ y \in ShardOf(Alias) /\ y \notin Alias /\ y # None
                          /\ y.of \in ShardOf(Secret) /\ y.of \in Alias /\ y.of # y
                          /\ y.split \in 1..MaxSplits
    /\ \A y \in ShardOf(Alias) : y.of \in ShardOf(Secret) => Twice(y)
    /\ \A a \in Alias : ~Twice(a)
    /\ ~Twice(None)
<1>1. ASSUME NEW y, Twice(y)
      PROVE  /\ y \in ShardOf(Alias) /\ y \notin ShardOf(Secret) /\ y \notin Secret
             /\ y.of \in ShardOf(Secret) /\ y.of \in Alias
             /\ y.split \in 1..MaxSplits
  <2>1. y \in ShardOf(Alias) /\ y.of \in ShardOf(Secret) /\ y.split \in 1..MaxSplits
    BY <1>1 DEF Twice, ShardOf, Alias
  <2>2. y.of \in Alias /\ y.of \notin Secret
    BY <2>1, ValueKinds
  <2>3. QED
    BY <2>1, <2>2, ValueKinds
<1>2. \A y \in ShardOf(Alias) : y.of \in ShardOf(Secret) => Twice(y)
  BY DEF Twice, ShardOf
<1>3. \A y : Twice(y) => y \notin Alias
  BY <1>1 DEF Alias
<1>4. \A y : Twice(y) => y # None
  BY <1>1, ValueKinds
<1>5. QED
  BY <1>1, <1>2, <1>3, <1>4

(* A key, or nothing, stands for no shard-A.                               *)
LEMMA KeysStandForNone ==
    \A y \in Secret \cup {None}, x \in ShardOf(Secret) : ~StandsFor(y, x) /\ ~Twice(y)
BY TwiceKinds, ValueKinds DEF StandsFor

(* What the stored split opens is not burnt.                               *)
LEMMA LiveNotBurnt ==
    ASSUME NEW x \in ShardOf(Secret), x = ShardA(x.of)
    PROVE  ~Burnt(x)
BY DEF ShardA, Burnt

(* The shard-A of a key's stored split stands on one line of a file: that   *)
(* key's.                                                                  *)
LEMMA LiveStandsOnce ==
    ASSUME NEW lines, NEW wants, NEW x \in ShardOf(Secret), NEW v \in Var, NEW w \in Var,
           \A u \in Var : wants[u] = None => lines[u] # x,
           \A u \in Var : wants[u] # None /\ lines[u] # wants[u] => lines[u].of = wants[u],
           \A u \in Var : wants[u] # None => wants[u] \in Secret,
           \A u \in Var : Twice(lines[u]) => lines[u].of # x,
           \A t, u \in Var : t # u /\ wants[t] # None => wants[t] # wants[u],
           StandsFor(lines[v], x), StandsFor(lines[w], x)
    PROVE  v = w
<1>1. \A u \in Var : StandsFor(lines[u], x) => lines[u] = x
  BY DEF StandsFor
<1>2. x \notin Secret
  BY ValueKinds
<1>3. wants[v] = x.of /\ wants[w] = x.of /\ wants[v] # None
  BY <1>1, <1>2
<1>4. QED
  BY <1>3

(* Rows may go, as long as those of lines that were locked again stay.     *)
LEMMA RowsGoAgain ==
    ASSUME StoresInv, AgainOK, UNCHANGED <<env, splits>>,
           \A r \in enrolled' : HasRow(r.alias, r.var, r.env),
           \A a \in Alias : split'[a] = split[a] \/ split'[a] = None,
           \A e \in Env, v \in Var, a \in Alias :
              /\ Twice(env[e][v]) /\ a = env[e][v].of
              /\ split'[a] # None /\ HasRow(a, v, e)
              => \E r \in enrolled' : r.alias = a /\ r.var = v /\ r.env = e
    PROVE  AgainOK'
<1>1. \A y, x : StandsFor(y, x)' <=> StandsFor(y, x)
  BY DEF StandsFor, Twice
<1>2. \A y : Twice(y)' <=> Twice(y)
  BY DEF Twice
<1>3. \A x \in ShardOf(Secret) : Burnt(x) => Burnt(x)'
  BY ValueKinds DEF Burnt
<1>4. ASSUME NEW e \in Env, NEW v \in Var, Twice(env[e][v])
      PROVE  /\ env[e][v].split <= splits
             /\ Burnt(env[e][v].of)'
             /\ env[e][v] = ShardA(env[e][v].of)' =>
                  \E r \in enrolled' : r.alias = env[e][v].of /\ r.var = v /\ r.env = e
  <2>1. PICK y : y = env[e][v]
    OBVIOUS
  <2>2. PICK a \in Alias : a = y.of
    BY <1>4, <2>1, TwiceKinds
  <2>3. /\ y.split <= splits /\ Burnt(a)
        /\ y = ShardA(a) => HasRow(a, v, e)
    BY <1>4, <2>1, <2>2 DEF AgainOK, AgainEnrolled
  <2>4. a \in ShardOf(Secret) /\ y.split \in 1..MaxSplits
    BY <1>4, <2>1, <2>2, TwiceKinds
  <2>5. Burnt(a)'
    BY <1>3, <2>3, <2>4
  <2>6. ASSUME y = ShardA(a)'
        PROVE  \E r \in enrolled' : r.alias = a /\ r.var = v /\ r.env = e
    <3>1. split'[a] = y.split /\ y = [of |-> a, split |-> split'[a]]
      BY <2>6 DEF ShardA
    <3>2. split'[a] # None /\ split'[a] = split[a]
      BY <2>4, <3>1, ValueKinds
    <3>3. y = ShardA(a)
      BY <3>1, <3>2 DEF ShardA
    <3>4. HasRow(a, v, e)
      BY <2>3, <3>3
    <3>5. Twice(env[e][v]) /\ a = env[e][v].of
      BY <1>4, <2>1, <2>2
    <3>6. QED
      BY <3>2, <3>4, <3>5
  <2>7. QED
    BY <2>1, <2>2, <2>3, <2>5, <2>6
<1>5. AgainEnrolled'
  BY <1>2, <1>4 DEF AgainEnrolled, HasRow
<1>6. OneLineEach'
  BY <1>1 DEF AgainOK, OneLineEach
<1>7. RowsNameLines'
  BY <1>1 DEF AgainOK, RowsNameLines, HasRow
<1>8. QED
  BY <1>5, <1>6, <1>7 DEF AgainOK

(* Steps that touch neither the key lines nor the rows.                    *)
LEMMA AgainSame ==
    ASSUME StoresInv, AgainOK, UNCHANGED <<env, splits, split, enrolled>>
    PROVE  AgainOK'
<1>1. \A r \in enrolled' : HasRow(r.alias, r.var, r.env)
  BY DEF HasRow
<1>2. \A e \in Env, v \in Var, a \in Alias :
              HasRow(a, v, e) => \E r \in enrolled' : r.alias = a /\ r.var = v /\ r.env = e
  BY DEF HasRow
<1>3. QED
  BY <1>1, <1>2, RowsGoAgain

(* delete_enrollment, where no line of the file was locked again from a.   *)
LEMMA DeleteEnrollmentAgain ==
    ASSUME StoresInv, AgainOK, UNCHANGED <<env, splits>>,
           NEW a, NEW f \in Env, DeleteEnrollment(a, f),
           \A b \in Alias : split'[b] = split[b] \/ split'[b] = None,
           \A v \in Var : Twice(env[f][v]) => env[f][v].of # a
    PROVE  AgainOK'
<1>1. /\ \A r \in enrolled' : HasRow(r.alias, r.var, r.env)
      /\ \A r \in enrolled : r.alias # a \/ r.env # f => r \in enrolled'
  BY DEF DeleteEnrollment, RowsOf, HasRow
<1>2. ASSUME NEW e \in Env, NEW v \in Var, NEW b \in Alias,
             Twice(env[e][v]), b = env[e][v].of, HasRow(b, v, e)
      PROVE  \E r \in enrolled' : r.alias = b /\ r.var = v /\ r.env = e
  <2>1. b # a \/ e # f
    BY <1>2
  <2>2. QED
    BY <1>1, <1>2, <2>1 DEF HasRow
<1>3. QED
  BY <1>1, <1>2, RowsGoAgain

(* delete_enrolled: what it leaves on lines is dead.                       *)
LEMMA DeleteEnrolledAgain ==
    ASSUME StoresInv, AgainOK, UNCHANGED <<env, splits>>,
           NEW a \in Alias, DeleteEnrolled(a)
    PROVE  AgainOK'
<1>1. /\ \A b \in Alias : split'[b] = IF b = a THEN None ELSE split[b]
      /\ enrolled' = {r \in enrolled : r.alias # a}
  BY DEF DeleteEnrolled, StoresInv, StoresOK
<1>2. \A r \in enrolled' : HasRow(r.alias, r.var, r.env)
  BY <1>1 DEF HasRow
<1>3. \A e \in Env, v \in Var, b \in Alias :
         split'[b] # None /\ HasRow(b, v, e) => \E r \in enrolled' : r.alias = b /\ r.var = v /\ r.env = e
  BY <1>1 DEF HasRow
<1>4. QED
  BY <1>1, <1>2, <1>3, RowsGoAgain

(* Lines that change, and bring in no shard-A but the stored ones.         *)
LEMMA LinesChangeAgain ==
    ASSUME StoresInv, StoresInv', AgainOK, UNCHANGED <<split, enrolled, splits>>,
           \A e \in Env, v \in Var : Twice(env'[e][v]) =>
              \/ env'[e][v] = env[e][v]
              \/ /\ env'[e][v].split <= splits /\ Burnt(env'[e][v].of)
                 /\ HasRow(env'[e][v].of, v, e),
           \A e \in Env, v \in Var, x \in ShardOf(Secret) :
              StandsFor(env'[e][v], x) => StandsFor(env[e][v], x) \/ x = ShardA(x.of)
    PROVE  AgainOK'
<1>1. ASSUME NEW e \in Env, NEW v \in Var, NEW y, y = env'[e][v], Twice(y)
      PROVE  y.split <= splits /\ Burnt(y.of) /\ (y = ShardA(y.of) => HasRow(y.of, v, e))
  BY <1>1 DEF AgainOK, AgainEnrolled
<1>a. \A y : (Burnt(y))' <=> Burnt(y)
  BY DEF Burnt
<1>b. \A y : (ShardA(y))' = ShardA(y)
  BY DEF ShardA
<1>c. \A a, v, e : (HasRow(a, v, e))' <=> HasRow(a, v, e)
  BY DEF HasRow
<1>2. AgainEnrolled'
  <2> SUFFICES ASSUME NEW e \in Env, NEW v \in Var, Twice(env'[e][v])
               PROVE  /\ env'[e][v].split <= splits'
                      /\ (Burnt(env[e][v].of))'
                      /\ (env[e][v] = ShardA(env[e][v].of) => HasRow(env[e][v].of, v, e))'
    BY DEF AgainEnrolled, Twice
  <2>1. PICK y : y = env'[e][v]
    OBVIOUS
  <2>2. y.split <= splits /\ Burnt(y.of) /\ (y = ShardA(y.of) => HasRow(y.of, v, e))
    BY <1>1, <2>1
  <2>3. Burnt(y.of)' /\ (y = ShardA(y.of)' => HasRow(y.of, v, e)')
    BY <1>a, <1>b, <1>c, <2>2
  <2>4. (Burnt(env[e][v].of))'
    BY <2>1, <2>3 DEF Burnt
  <2>5. (env[e][v] = ShardA(env[e][v].of) => HasRow(env[e][v].of, v, e))'
    BY <2>1, <2>3 DEF ShardA, HasRow
  <2>6. QED
    BY <2>1, <2>2, <2>4, <2>5
<1>3. ASSUME NEW e \in Env, NEW v \in Var, NEW w \in Var, NEW x \in ShardOf(Secret),
             StandsFor(env'[e][v], x), StandsFor(env'[e][w], x)
      PROVE  v = w
  <2>1. CASE x = ShardA(x.of)
    <3>1. PICK lines, wants : lines = env'[e] /\ wants = wanted'[e]
      OBVIOUS
    <3>2. ~Burnt(x) /\ ~Burnt(x)'
      BY <1>a, <2>1, LiveNotBurnt
    <3>3. \A u \in Var : Twice(lines[u]) => lines[u].of # x
      BY <1>1, <3>1, <3>2
    <3>4. \A u \in Var : wants[u] = None => lines[u] # x
      BY <3>1, <3>2 DEF StoresInv, DataOK, BurntOK, Burnt
    <3>5. \A u \in Var : wants[u] # None /\ lines[u] # wants[u] => lines[u].of = wants[u]
      <4> SUFFICES ASSUME NEW u \in Var, wants[u] # None, lines[u] # wants[u]
                   PROVE  lines[u].of = wants[u]
        OBVIOUS
      <4>1. lines[u] = [of |-> wants[u], split |-> split'[wants[u]]]
        BY <3>1 DEF StoresInv, DataOK, KeysSafe, Sealed, ShardA
      <4>2. QED
        BY <4>1
    <3>6. \A u \in Var : wants[u] # None => wants[u] \in Secret
      BY <3>1 DEF StoresInv, StoresOK
    <3>7. \A t, u \in Var : t # u /\ wants[t] # None => wants[t] # wants[u]
      BY <3>1 DEF StoresInv, DataOK, OneNameEach
    <3>8. StandsFor(lines[v], x) /\ StandsFor(lines[w], x)
      BY <1>3, <3>1
    <3>9. QED
      BY <3>3, <3>4, <3>5, <3>6, <3>7, <3>8, LiveStandsOnce
  <2>2. CASE x # ShardA(x.of)
    BY <1>3, <2>2 DEF AgainOK, OneLineEach
  <2>3. QED
    BY <2>1, <2>2
<1>4. OneLineEach'
  BY <1>3 DEF OneLineEach, StandsFor, Twice
<1>5. ASSUME NEW r \in enrolled, NEW w \in Var, NEW x \in ShardOf(Secret),
             r.alias = x, StandsFor(env'[r.env][w], x)
      PROVE  w = r.var
  <2>1. r.env \in Env /\ Burnt(x)
    BY <1>5 DEF StoresInv, StoresOK, Row, DataOK, BurntOK
  <2>2. x # ShardA(x.of)
    BY <2>1, LiveNotBurnt
  <2>3. StandsFor(env[r.env][w], x)
    BY <1>5, <2>1, <2>2
  <2>4. QED
    BY <1>5, <2>3 DEF AgainOK, RowsNameLines
<1>6. RowsNameLines'
  BY <1>5 DEF RowsNameLines, StandsFor, Twice
<1>7. QED
  BY <1>2, <1>4, <1>6 DEF AgainOK

-----------------------------------------------------------------------------
(* A command that has ended, or is another, relies on none of this.        *)
LEMMA AgainElsewhere ==
    /\ pc' \notin Before \cup Undoing => LockingAgain'
    /\ pc' \notin {"restore", "forget", "retire", "drop"} => RestoringAgain'
    /\ pc' # "purge" => PurgeAgain'
BY DEF LockingAgain, RestoringAgain, PurgeAgain, Before, Undoing

(* lock leaves what unlock and doctor rely on alone.                        *)
LEMMA AgainLocking ==
    pc' \in Before \cup Undoing => RestoringAgain' /\ PurgeAgain'
BY AgainElsewhere DEF Before, Undoing

(* A command that has ended relies on nothing.                              *)
LEMMA AgainStopped == Stop => LockingAgain' /\ RestoringAgain' /\ PurgeAgain'
BY AgainElsewhere DEF Stop, Before, Undoing

(* A step of lock that takes rows away.                                    *)
LEMMA StillLockingAgain ==
    ASSUME LockingAgain, pc \in Before \cup Undoing, pc' \in Before \cup Undoing,
           UNCHANGED <<env, file, seen>>,
           \A r \in enrolled' : HasRow(r.alias, r.var, r.env),
           pc' \in Before => \A p \in ToSet(plan') : AgainCommittable(p)'
    PROVE  LockingAgain' /\ RestoringAgain' /\ PurgeAgain'
<1>1. \A y, x : StandsFor(y, x)' <=> StandsFor(y, x)
  BY DEF StandsFor, Twice
<1>2. SeenAgain
  BY DEF LockingAgain
<1>3. SeenAgain'
  BY <1>1, <1>2 DEF SeenAgain, HasRow
<1>4. QED
  BY <1>3, AgainLocking DEF LockingAgain

(* What is planned stays committable while its split and its row stay.     *)
LEMMA AgainCommittableKept ==
    ASSUME StoresInv, NEW p, p.alias \in Alias, AgainCommittable(p), UNCHANGED file,
           split[p.alias] # None => split'[p.alias] = split[p.alias],
           HasRow(p.alias, p.var, file) =>
               \E r \in enrolled' : r.alias = p.alias /\ r.var = p.var /\ r.env = file
    PROVE  AgainCommittable(p)'
<1>1. CASE p.alias \in ShardOf(Secret)
  <2>1. p.shard_a = ShardA(p.alias) /\ HasRow(p.alias, p.var, file)
    BY <1>1 DEF AgainCommittable
  <2>2. split[p.alias] # None
    BY <2>1 DEF HasRow, StoresInv, DataOK, SplitsOK
  <2>3. QED
    BY <2>1, <2>2 DEF AgainCommittable, HasRow, ShardA
<1>2. CASE p.alias \notin ShardOf(Secret)
  BY <1>2 DEF AgainCommittable
<1>3. QED
  BY <1>1, <1>2

(* _lock_keys starts: its snapshot is the file as it is.                    *)
LEMMA StartLockAgain ==
    ASSUME StoresInv, AgainInv, NEW e \in Env, NEW k \in BOOLEAN, StartLock(e, k)
    PROVE  AgainInv'
<1>1. /\ pc' = "enroll" /\ file' = e /\ plan' = << >> /\ seen' = <<env[e], line[e]>>
      /\ UNCHANGED <<env, split, enrolled, splits>>
  BY DEF StartLock, files, rows, bounds
<1>2. AgainOK'
  BY <1>1, AgainSame DEF AgainInv
<1>3. seen'[1] = env[e]
  BY <1>1
<1>4. \A y, x : StandsFor(y, x)' <=> StandsFor(y, x)
  BY DEF StandsFor, Twice
<1>5. SeenAgain'
  BY <1>1, <1>3, <1>4 DEF SeenAgain, AgainInv, AgainOK, OneLineEach, RowsNameLines
<1>6. LockingAgain'
  BY <1>1, <1>5, EmptySet DEF LockingAgain
<1>7. QED
  BY <1>1, <1>2, <1>6, AgainLocking DEF AgainInv, Before

(* What _pass1_db_writes does for one candidate.                           *)
LEMMA Enrolls ==
    ASSUME StoresInv, NEW v \in Var, Enroll(v)
    PROVE  \E a \in Alias, n \in 1..MaxSplits, p \in Planned :
              /\ a = seen[1][v]
              /\ n = split[a] \/ (split[a] = None /\ n = splits + 1)
              /\ splits' \in Nat /\ splits' >= splits /\ n <= splits'
              /\ \A b \in Alias : split'[b] = IF b = a THEN n ELSE split[b]
              /\ enrolled \subseteq enrolled'
              /\ \A r \in enrolled' : HasRow(r.alias, r.var, r.env)
                                      \/ (r.alias = a /\ r.var = v /\ r.env = file)
              /\ HasRow(a, v, file)'
              /\ p.alias = a /\ p.var = v /\ p.shard_a = [of |-> a, split |-> n]
              /\ ToSet(plan') = ToSet(plan) \cup {p}
<1>a. PICK a \in Alias : a = seen[1][v]
  BY DEF StoresInv, LockingOK, Before, Enroll
<1>f. PICK f \in Env : f = file
  BY DEF StoresInv, LockingOK, SeenOK, Before, Enroll
<1>1. split[a] # None => split[a] \in 1..MaxSplits /\ split[a] <= splits
  BY DEF StoresInv, StoresOK, DataOK, SplitsOK
<1>2. splits \in Nat /\ MaxSplits \in Nat
  BY DEF StoresInv, StoresOK
<1>3. PICK n \in 1..MaxSplits, fresh \in BOOLEAN :
        /\ UpsertAndEnroll(a, n, v, f)
        /\ plan' = Plan(a, v, n, fresh)
        /\ n = split[a] \/ (split[a] = None /\ n = splits + 1)
        /\ splits' \in Nat /\ splits' >= splits /\ n <= splits'
  <2>1. CASE split[a] # None /\ plan' = Plan(a, v, split[a], FALSE) /\ UpsertAndEnroll(a, split[a], v, f) /\ splits' = splits
    <3>1. PICK n \in 1..MaxSplits : n = split[a]
      BY <1>1, <2>1
    <3>2. UpsertAndEnroll(a, n, v, f) /\ plan' = Plan(a, v, n, FALSE)
      BY <2>1, <3>1 DEF UpsertAndEnroll, Plan
    <3>3. splits' \in Nat /\ splits' >= splits /\ n <= splits'
      BY <1>1, <1>2, <2>1, <3>1
    <3>4. QED
      BY <3>1, <3>2, <3>3
  <2>2. CASE split[a] = None /\ splits < MaxSplits /\ splits' = splits + 1 /\ plan' = Plan(a, v, splits', TRUE) /\ UpsertAndEnroll(a, splits', v, f)
    <3>1. PICK n \in 1..MaxSplits : n = splits + 1
      BY <1>2, <2>2
    <3>2. UpsertAndEnroll(a, n, v, f) /\ plan' = Plan(a, v, n, TRUE)
      BY <2>2, <3>1 DEF UpsertAndEnroll, Plan
    <3>3. splits' \in Nat /\ splits' >= splits /\ n <= splits'
      BY <1>2, <2>2, <3>1
    <3>4. QED
      BY <2>2, <3>1, <3>2, <3>3
  <2>3. QED
    BY <2>1, <2>2, <1>a, <1>f DEF Enroll
<1>4. \A b \in Alias : split'[b] = IF b = a THEN n ELSE split[b]
  BY <1>3 DEF UpsertAndEnroll, StoresInv, StoresOK
<1>5. PICK new : new = [alias |-> a, var |-> v, env |-> f, restore |-> None]
  OBVIOUS
<1>6. new.alias = a /\ new.var = v /\ new.env = f
  BY <1>5
<1>7. /\ enrolled' = enrolled \/ enrolled' = enrolled \cup {new}
      /\ \E r \in enrolled' : r.alias = a /\ r.var = v /\ r.env = f
  <2>1. CASE \E r \in RowsOf(a, f) : r.var = v
    BY <1>3, <2>1 DEF UpsertAndEnroll, Enrolled, RowsOf
  <2>2. CASE ~\E r \in RowsOf(a, f) : r.var = v
    <3>1. enrolled' = enrolled \cup {new}
      BY <1>3, <1>5, <2>2 DEF UpsertAndEnroll, Enrolled
    <3>2. QED
      BY <3>1, <1>6
  <2>3. QED
    BY <2>1, <2>2
<1>8. /\ enrolled \subseteq enrolled'
      /\ \A r \in enrolled' : HasRow(r.alias, r.var, r.env) \/ (r.alias = a /\ r.var = v /\ r.env = f)
  BY <1>6, <1>7 DEF HasRow
<1>9. HasRow(a, v, file)'
  BY <1>7, <1>f DEF HasRow, Enroll
<1>10. PICK p : p = [alias |-> a, var |-> v, fresh |-> fresh, shard_a |-> [of |-> a, split |-> n]]
  OBVIOUS
<1>11. /\ p \in Planned /\ plan' = Append(plan, p)
       /\ p.alias = a /\ p.var = v /\ p.shard_a = [of |-> a, split |-> n]
  BY <1>3, <1>10, ValueKinds DEF Planned, Plan
<1>12. ToSet(plan') = ToSet(plan) \cup {p}
  BY <1>11, AppendSet DEF StoresInv, StoresOK
<1>13. QED
  BY <1>a, <1>f, <1>3, <1>4, <1>8, <1>9, <1>11, <1>12

(* _pass1_db_writes: a dead shard-A gets a split and a row of its line.     *)
LEMMA EnrollAgain ==
    ASSUME StoresInv, AgainInv, NEW v \in Var, Enroll(v)
    PROVE  AgainInv'
<1>1. /\ pc = "enroll" /\ pc' = "supersede" /\ UNCHANGED <<env, file, seen>>
  BY DEF Enroll, files
<1>2. PICK a \in Alias, n \in 1..MaxSplits, p \in Planned :
              /\ a = seen[1][v]
              /\ n = split[a] \/ (split[a] = None /\ n = splits + 1)
              /\ splits' \in Nat /\ splits' >= splits /\ n <= splits'
              /\ \A b \in Alias : split'[b] = IF b = a THEN n ELSE split[b]
              /\ enrolled \subseteq enrolled'
              /\ \A r \in enrolled' : HasRow(r.alias, r.var, r.env)
                                      \/ (r.alias = a /\ r.var = v /\ r.env = file)
              /\ HasRow(a, v, file)'
              /\ p.alias = a /\ p.var = v /\ p.shard_a = [of |-> a, split |-> n]
              /\ ToSet(plan') = ToSet(plan) \cup {p}
  BY Enrolls
<1>3. SeenAgain /\ file \in Env
  BY <1>1 DEF AgainInv, LockingAgain, StoresInv, LockingOK, SeenOK, Before
<1>4. \A y, x : StandsFor(y, x)' <=> StandsFor(y, x)
  BY DEF StandsFor, Twice
<1>5. \A x \in ShardOf(Secret) : Burnt(x) => Burnt(x)'
  <2>1. \A b \in Alias : split'[b] = split[b] \/ split'[b] = None \/ split'[b] = splits + 1
    BY <1>2
  <2>2. QED
    BY <1>2, <2>1, BurntStays DEF StoresInv
\* No line of the file but v stands for a.
<1>6. \A w \in Var : a \in ShardOf(Secret) /\ StandsFor(seen[1][w], a) => w = v
  BY <1>2, <1>3 DEF SeenAgain, StandsFor
<1>7. \A w \in Var : a \in ShardOf(Secret) /\ StandsFor(env[file][w], a) => w = v
  BY <1>3, <1>6, KeysStandForNone DEF SeenAgain
<1>8. AgainEnrolled'
  <2> SUFFICES ASSUME NEW e \in Env, NEW w \in Var, Twice(env[e][w])
               PROVE  /\ env[e][w].split <= splits'
                      /\ (Burnt(env[e][w].of))'
                      /\ (env[e][w] = ShardA(env[e][w].of) => HasRow(env[e][w].of, w, e))'
    BY <1>1 DEF AgainEnrolled, Twice
  <2>1. PICK y : y = env[e][w]
    OBVIOUS
  <2>2. y.split <= splits /\ Burnt(y.of) /\ (y = ShardA(y.of) => HasRow(y.of, w, e))
    BY <2>1 DEF AgainInv, AgainOK, AgainEnrolled
  <2>3. y.of \in ShardOf(Secret) /\ y.of \in Alias /\ y.split \in 1..MaxSplits
    BY <2>1, TwiceKinds
  <2>4. splits \in Nat
    BY DEF StoresInv, StoresOK
  <2>5. y.split <= splits' /\ Burnt(y.of)'
    BY <1>2, <1>5, <2>2, <2>3, <2>4
  <2>6. ASSUME (y = ShardA(y.of))' PROVE HasRow(y.of, w, e)'
    <3>1. split'[y.of] = y.split /\ y = [of |-> y.of, split |-> split'[y.of]]
      BY <2>6 DEF ShardA
    <3>2. split'[y.of] = split[y.of]
      BY <1>2, <2>2, <2>3, <2>4, <3>1
    <3>3. y = ShardA(y.of)
      BY <3>1, <3>2 DEF ShardA
    <3>4. HasRow(y.of, w, e)
      BY <2>2, <3>3
    <3>5. QED
      BY <1>2, <3>4 DEF HasRow
  <2>7. QED
    BY <1>1, <2>1, <2>5, <2>6 DEF Burnt, ShardA, HasRow
<1>9. OneLineEach'
  BY <1>1, <1>4 DEF AgainInv, AgainOK, OneLineEach
<1>10. RowsNameLines'
  BY <1>1, <1>2, <1>4, <1>7 DEF AgainInv, AgainOK, RowsNameLines, HasRow
<1>11. SeenAgain'
  BY <1>1, <1>2, <1>3, <1>4, <1>6 DEF SeenAgain, HasRow
<1>12. \A q \in ToSet(plan') : AgainCommittable(q)'
  <2>1. AgainCommittable(p)'
    <3>1. ShardA(a)' = [of |-> a, split |-> n]
      BY <1>2 DEF ShardA
    <3>2. QED
      BY <1>1, <1>2, <3>1 DEF AgainCommittable, ShardA, HasRow
  <2>2. ASSUME NEW q \in ToSet(plan) PROVE AgainCommittable(q)'
    <3>1. AgainCommittable(q)
      BY <1>1 DEF AgainInv, LockingAgain, Before
    <3>2. q.alias \in Alias
      BY <1>1 DEF StoresInv, LockingOK, LockPlanned, Before
    <3>3. split[q.alias] # None => split'[q.alias] = split[q.alias]
      BY <1>2, <3>2
    <3>4. HasRow(q.alias, q.var, file) =>
               \E r \in enrolled' : r.alias = q.alias /\ r.var = q.var /\ r.env = file
      BY <1>2 DEF HasRow
    <3>5. QED
      BY <1>1, <3>1, <3>2, <3>3, <3>4, AgainCommittableKept
  <2>3. QED
    BY <1>2, <2>1, <2>2
<1>13. LockingAgain' /\ RestoringAgain' /\ PurgeAgain'
  BY <1>1, <1>11, <1>12, AgainLocking DEF LockingAgain, Before
<1>14. QED
  BY <1>8, <1>9, <1>10, <1>13 DEF AgainInv, AgainOK

\* Nothing was committed: lock turns to unwinding, or goes on to.
LEMMA LockGivesUpAgain ==
    ASSUME StoresInv, AgainInv,
           (\E v \in Var : EnrollFails(v)) \/ RewriteRefused \/ LockFails
    PROVE  AgainInv'
<1>1. /\ pc \in Before /\ pc' = "unwind"
      /\ UNCHANGED <<env, split, enrolled, splits, file, seen>>
  BY DEF EnrollFails, RewriteRefused, LockFails, files, rows, bounds, Before
<1>2. AgainOK'
  BY <1>1, AgainSame DEF AgainInv
<1>3. \A r \in enrolled' : HasRow(r.alias, r.var, r.env)
  BY <1>1 DEF HasRow
<1>4. QED
  BY <1>1, <1>2, <1>3, StillLockingAgain DEF AgainInv, Before, Undoing

(* The rows that go are of other aliases than the line's planned one.       *)
LEMMA SupersedeAgain ==
    ASSUME StoresInv, AgainInv, Supersede
    PROVE  AgainInv'
<1>1. /\ pc = "supersede" /\ UNCHANGED <<env, splits, file, seen, plan>>
      /\ pc' \in {"supersede", "record", "enroll"}
  BY DEF Supersede, files, bounds
<1>2. /\ file \in Env /\ plan # << >> /\ plan \in Seq(Planned)
      /\ \A q \in ToSet(plan) : LockPlanned(q)
      /\ SeenAgain /\ \A q \in ToSet(plan) : AgainCommittable(q)
  BY <1>1 DEF StoresInv, StoresOK, LockingOK, SeenOK, AgainInv, LockingAgain, Before
<1>3. PICK p : p = Last(plan)
  OBVIOUS
<1>4. LockPlanned(p)
  BY <1>2, <1>3, FrontSet
<1>5. CASE \E a \in Superseded : DeleteSuperseded(a, file) /\ UNCHANGED pc
  <2>1. PICK a \in Superseded : DeleteSuperseded(a, file)
    BY <1>5
  <2>2. PICK r \in enrolled : r.var = p.var /\ r.env = file /\ r.alias = a /\ a # p.alias
    BY <1>3, <2>1 DEF Superseded, RowsAt
  <2>3. a \in Alias
    BY <2>2 DEF StoresInv, StoresOK, Row
  <2>4. /\ DeleteEnrollment(a, file)
        /\ \A b \in Alias : b # a => split'[b] = split[b]
        /\ split'[a] = split[a] \/ split'[a] = None
    <3>1. CASE \E q \in enrolled' : q.alias = a
      BY <2>1, <2>3, <3>1 DEF DeleteSuperseded, StoresInv, StoresOK
    <3>2. CASE ~\E q \in enrolled' : q.alias = a
      BY <2>1, <2>3, <3>2 DEF DeleteSuperseded, StoresInv, StoresOK
    <3>3. QED
      BY <3>1, <3>2
  <2>5. ASSUME NEW v \in Var, Twice(env[file][v]), env[file][v].of = a
        PROVE  FALSE
    <3>1. a \in ShardOf(Secret) /\ StandsFor(env[file][v], a)
      BY <2>5, TwiceKinds DEF StandsFor
    <3>2. v = p.var
      BY <2>2, <3>1 DEF AgainInv, AgainOK, RowsNameLines
    <3>3. env[file][v] = seen[1][v]
      BY <1>2, <2>5, KeysStandForNone, TwiceKinds DEF SeenAgain
    <3>4. QED
      BY <1>4, <2>5, <3>2, <3>3, TwiceKinds DEF LockPlanned
  <2>6. \A b \in Alias : split'[b] = split[b] \/ split'[b] = None
    BY <2>4
  <2>7. AgainOK'
    BY <1>1, <1>2, <2>4, <2>5, <2>6, DeleteEnrollmentAgain DEF AgainInv
  <2>8. /\ \A q \in enrolled' : HasRow(q.alias, q.var, q.env)
        /\ \A q \in enrolled : q.alias # a => q \in enrolled'
    BY <2>4 DEF DeleteEnrollment, RowsOf, HasRow
  <2>9. ASSUME NEW q \in ToSet(plan) PROVE AgainCommittable(q)'
    <3>1. LockPlanned(q) /\ AgainCommittable(q) /\ q.alias \in Alias
      BY <1>2 DEF LockPlanned
    <3>2. CASE q.alias \in ShardOf(Secret)
      <4>1. q.alias # a
        <5> SUFFICES ASSUME q.alias = a PROVE FALSE
          OBVIOUS
        <5>1. StandsFor(seen[1][q.var], a) /\ q.var \in Var
          BY <3>1 DEF LockPlanned, StandsFor
        <5>2. q.var = r.var
          BY <1>2, <2>2, <3>2, <5>1 DEF SeenAgain
        <5>3. QED
          BY <1>4, <2>2, <3>1, <5>2 DEF LockPlanned
      <4>2. split'[q.alias] = split[q.alias]
        BY <2>4, <3>1, <4>1
      <4>3. HasRow(q.alias, q.var, file) =>
               \E x \in enrolled' : x.alias = q.alias /\ x.var = q.var /\ x.env = file
        BY <2>8, <4>1 DEF HasRow
      <4>4. QED
        BY <1>1, <3>1, <4>2, <4>3, AgainCommittableKept
    <3>3. CASE q.alias \notin ShardOf(Secret)
      BY <3>3 DEF AgainCommittable
    <3>4. QED
      BY <3>2, <3>3
  <2>10. QED
    BY <1>1, <2>7, <2>8, <2>9, StillLockingAgain DEF AgainInv, Before
<1>6. CASE UNCHANGED <<split, enrolled>>
  <2>1. AgainOK'
    BY <1>1, <1>6, AgainSame DEF AgainInv
  <2>2. \A r \in enrolled' : HasRow(r.alias, r.var, r.env)
    BY <1>6 DEF HasRow
  <2>3. \A q \in ToSet(plan') : AgainCommittable(q)'
    BY <1>1, <1>2, <1>6 DEF AgainCommittable, ShardA, HasRow
  <2>4. QED
    BY <1>1, <2>1, <2>2, <2>3, StillLockingAgain DEF AgainInv, Before
<1>7. QED
  BY <1>5, <1>6 DEF Supersede

\* Which rows there are is all that counts.
LEMMA RecordAgain ==
    ASSUME StoresInv, AgainInv, RecordBaseUrlRestores
    PROVE  AgainInv'
<1>1. /\ pc = "record" /\ pc' \in {"rewrite", "unwind"}
      /\ UNCHANGED <<env, split, splits, file, seen, plan>>
      /\ RecordRestores(file, PlannedRecords)
  BY DEF RecordBaseUrlRestores, files, bounds
<1>r. PICK records : records = PlannedRecords
  OBVIOUS
<1> DEFINE R(r) == IF r.env = file /\ <<r.alias, r.var>> \in DOMAIN records
                   THEN [r EXCEPT !.restore = records[<<r.alias, r.var>>]]
                   ELSE r
<1>2. enrolled' = {R(r) : r \in enrolled}
  BY <1>1, <1>r DEF RecordRestores
<1>3. \A r \in enrolled : R(r).alias = r.alias /\ R(r).var = r.var /\ R(r).env = r.env
  BY DEF StoresInv, StoresOK, Row
<1> HIDE DEF R
<1>4. /\ \A r \in enrolled' : HasRow(r.alias, r.var, r.env)
      /\ \A a, v, e : HasRow(a, v, e) =>
            \E q \in enrolled' : q.alias = a /\ q.var = v /\ q.env = e
  BY <1>2, <1>3 DEF HasRow
<1>5. AgainOK'
  BY <1>1, <1>4, RowsGoAgain DEF AgainInv
<1>6. ASSUME NEW q \in ToSet(plan) PROVE AgainCommittable(q)'
  <2>1. AgainCommittable(q)
    BY <1>1 DEF AgainInv, LockingAgain, Before
  <2>2. QED
    BY <1>1, <1>4, <2>1 DEF AgainCommittable, ShardA, HasRow
<1>7. QED
  BY <1>1, <1>4, <1>5, <1>6, StillLockingAgain DEF AgainInv, Before, Undoing

\* The shard-A written to a line is the stored one, and the row is there.
LEMMA RewriteAgain ==
    ASSUME StoresInv, AgainInv, Rewrite
    PROVE  AgainInv'
<1>1. /\ pc = "rewrite" /\ Stop /\ UNCHANGED <<split, enrolled, splits>>
      /\ seen = <<env[file], line[file]>>
  BY DEF Rewrite, rows, bounds
<1>2. /\ \A q \in ToSet(plan) : LockPlanned(q) /\ Committable(q) /\ AgainCommittable(q)
      /\ file \in Env /\ seen[1] = env[file]
  BY <1>1 DEF StoresInv, LockingOK, SeenOK, AgainInv, LockingAgain, Before
<1>3. StoresInv'
  BY RewriteStep
<1>4. \A e \in Env, v \in Var :
         env'[e][v] = IF e = file THEN PlannedValue(v) ELSE env[e][v]
  BY <1>2 DEF Rewrite, StoresInv, StoresOK
<1>5. ASSUME NEW v \in Var
      PROVE  \/ PlannedValue(v) = env[file][v]
             \/ \E q \in ToSet(plan) : q.var = v /\ PlannedValue(v) = q.shard_a
  BY DEF PlannedValue
<1>6. ASSUME NEW e \in Env, NEW v \in Var, Twice(env'[e][v]), env'[e][v] # env[e][v]
      PROVE  /\ env'[e][v].split <= splits /\ Burnt(env'[e][v].of)
             /\ HasRow(env'[e][v].of, v, e)
  <2>1. PICK y : y = env'[e][v]
    OBVIOUS
  <2>2. PICK q \in ToSet(plan) : e = file /\ q.var = v /\ y = q.shard_a
    BY <1>4, <1>5, <1>6, <2>1
  <2>3. y.of = q.alias /\ q.alias \in Alias /\ Twice(y)
    BY <1>2, <1>6, <2>1, <2>2 DEF Committable, LockPlanned
  <2>4. q.alias \in ShardOf(Secret)
    BY <2>3, TwiceKinds
  <2>5. y = ShardA(q.alias) /\ HasRow(q.alias, v, e)
    BY <1>2, <2>2, <2>4 DEF AgainCommittable
  <2>6. Burnt(q.alias) /\ split[q.alias] # None
    BY <2>4, <2>5 DEF HasRow, StoresInv, DataOK, BurntOK, SplitsOK
  <2>7. split[q.alias] <= splits /\ y.split = split[q.alias]
    BY <2>3, <2>5, <2>6 DEF StoresInv, DataOK, SplitsOK, ShardA
  <2>8. QED
    BY <2>1, <2>3, <2>5, <2>6, <2>7
<1>7. ASSUME NEW e \in Env, NEW v \in Var, NEW x \in ShardOf(Secret), StandsFor(env'[e][v], x),
             env'[e][v] # env[e][v]
      PROVE  StandsFor(env[e][v], x) \/ x = ShardA(x.of)
  <2>1. PICK q \in ToSet(plan) : e = file /\ q.var = v /\ env'[e][v] = q.shard_a
    BY <1>4, <1>5, <1>7
  <2>2. /\ q.shard_a \in ShardOf(Alias) /\ q.shard_a.of = q.alias
        /\ q.alias \in Secret => q.shard_a = ShardA(q.alias)
        /\ q.alias = env[e][v]
    BY <1>2, <2>1 DEF Committable, LockPlanned
  <2>3. CASE q.shard_a = x
    BY <2>2, <2>3, ValueKinds
  <2>4. CASE Twice(q.shard_a) /\ q.shard_a.of = x
    BY <2>2, <2>4 DEF StandsFor
  <2>5. QED
    BY <1>7, <2>1, <2>3, <2>4 DEF StandsFor
<1>8. AgainOK'
  BY <1>1, <1>3, <1>6, <1>7, LinesChangeAgain DEF AgainInv
<1>9. QED
  BY <1>1, <1>8, AgainStopped DEF AgainInv

(* The rows an unwind deletes are of lines lock has not rewritten.          *)
LEMMA UnwindAgain ==
    ASSUME StoresInv, AgainInv, Unwind
    PROVE  AgainInv'
<1>1. pc = "unwind" /\ UNCHANGED <<env, splits>>
  BY DEF Unwind, files
<1>2. /\ plan \in Seq(Planned) /\ file \in Env /\ SeenAgain
      /\ \A q \in ToSet(plan) : LockPlanned(q)
  BY <1>1 DEF StoresInv, StoresOK, LockingOK, SeenOK, AgainInv, LockingAgain, Undoing
<1>3. CASE UNCHANGED <<split, enrolled>>
  <2>1. AgainOK'
    BY <1>1, <1>3, AgainSame DEF AgainInv
  <2>2. \A r \in enrolled' : HasRow(r.alias, r.var, r.env)
    BY <1>3 DEF HasRow
  <2>3. CASE Stop
    BY <2>1, <2>3, AgainStopped DEF AgainInv
  <2>4. CASE UNCHANGED <<pc, file, seen>>
    BY <1>1, <2>1, <2>2, <2>4, StillLockingAgain DEF AgainInv, Before, Undoing
  <2>5. CASE /\ plan # << >> /\ DeleteEnrollment(Last(plan).alias, file)
             /\ pc' \in {"unwind", "unwind_shard"} /\ UNCHANGED <<file, seen>>
    BY <1>1, <2>1, <2>2, <2>5, StillLockingAgain DEF AgainInv, Before, Undoing
  <2>6. QED
    BY <1>1, <2>3, <2>4, <2>5 DEF Unwind
<1>4. CASE /\ plan # << >> /\ DeleteEnrollment(Last(plan).alias, file)
           /\ pc' \in {"unwind", "unwind_shard"} /\ UNCHANGED <<split, file, seen>>
  <2>1. PICK p : p = Last(plan)
    OBVIOUS
  <2>2. LockPlanned(p)
    BY <1>2, <1>4, <2>1, FrontSet
  <2>3. PICK a \in Alias : a = p.alias /\ DeleteEnrollment(a, file)
    BY <1>4, <2>1, <2>2 DEF LockPlanned
  <2>4. ASSUME NEW v \in Var, Twice(env[file][v]), env[file][v].of = a
        PROVE  FALSE
    <3>1. a \in ShardOf(Secret) /\ StandsFor(env[file][v], a)
      BY <2>4, TwiceKinds DEF StandsFor
    <3>2. env[file][v] = seen[1][v]
      BY <1>2, <2>4, KeysStandForNone, TwiceKinds DEF SeenAgain
    <3>3. StandsFor(seen[1][p.var], a) /\ p.var \in Var /\ seen[1][p.var] = a
      BY <2>2, <2>3 DEF LockPlanned, StandsFor
    <3>4. v = p.var
      BY <1>2, <3>1, <3>2, <3>3 DEF SeenAgain
    <3>5. QED
      BY <2>4, <3>2, <3>3, <3>4, TwiceKinds
  <2>5. AgainOK'
    BY <1>1, <1>2, <1>4, <2>3, <2>4, DeleteEnrollmentAgain DEF AgainInv
  <2>6. \A r \in enrolled' : HasRow(r.alias, r.var, r.env)
    BY <2>3 DEF DeleteEnrollment, HasRow
  <2>7. QED
    BY <1>1, <1>4, <2>5, <2>6, StillLockingAgain DEF AgainInv, Before, Undoing
<1>5. QED
  BY <1>1, <1>3, <1>4 DEF Unwind

(* A split the unwind takes back goes with its rows.                        *)
LEMMA UnwindShardAgain ==
    ASSUME StoresInv, AgainInv, UnwindShard
    PROVE  AgainInv'
<1>1. /\ pc = "unwind_shard" /\ pc' = "unwind" /\ UNCHANGED <<env, splits, file, seen>>
  BY DEF UnwindShard, files, bounds
<1>2. plan # << >> /\ plan \in Seq(Planned) /\ \A q \in ToSet(plan) : LockPlanned(q)
  BY <1>1 DEF StoresInv, StoresOK, LockingOK, Undoing
<1>3. PICK a \in Alias : a = Last(plan).alias
  BY <1>2, FrontSet DEF LockPlanned
<1>4. DeleteEnrolled(a)
  BY <1>3 DEF UnwindShard
<1>5. AgainOK'
  BY <1>1, <1>4, DeleteEnrolledAgain DEF AgainInv
<1>6. \A r \in enrolled' : HasRow(r.alias, r.var, r.env)
  BY <1>4 DEF DeleteEnrolled, HasRow
<1>7. QED
  BY <1>1, <1>5, <1>6, StillLockingAgain DEF AgainInv, Before, Undoing

\* unlock, or the uninstall it is part of, has read a file.
LEMMA BeginRestoreAgain ==
    ASSUME StoresInv, AgainInv, NEW e \in Env, NEW R, R \subseteq enrolled, \A r \in R : r.env = e,
           Opens(R), BeginRestore(e, R),
           UNCHANGED <<env, split, enrolled, splits>>
    PROVE  AgainInv'
<1>1. PICK here : here = env[e]
  OBVIOUS
<1> DEFINE rec(r) == [alias |-> r.alias, var |-> r.var, restore |-> r.restore, shard_a |-> here[r.var]]
           g == [r \in R |-> rec(r)]
           S == {g[r] : r \in R}
<1>2. IsFiniteSet(R)
  BY FS_Subset DEF StoresInv, StoresOK
<1>3. IsFiniteSet(S)
  <2>1. PICK h : h = g
    OBVIOUS
  <2> HIDE DEF g
  <2>2. QED
    BY <1>2, <2>1, ImageFinite
<1>4. S = {rec(r) : r \in R}
  OBVIOUS
<1>5. plan' = SetToSeq(S) /\ pc' = "restore" /\ file' = e
  BY <1>1, <1>4 DEF BeginRestore
<1>6. ASSUME NEW r \in R
      PROVE  /\ rec(r).alias = r.alias /\ rec(r).var = r.var
             /\ rec(r).shard_a = ShardA(r.alias) /\ split[r.alias] # None
  BY <1>1 DEF Opens, Reconstructs
<1> HIDE DEF rec
<1>7. PICK T : T = S
  OBVIOUS
<1> HIDE DEF S, g
<1>8. ToSet(plan') = T
  BY <1>3, <1>5, <1>7, SetToSeqLists
<1>9. ASSUME NEW p \in T
      PROVE  \E r \in R : /\ p.alias = r.alias /\ p.var = r.var
                          /\ p.shard_a = ShardA(r.alias) /\ split[r.alias] # None
  BY <1>4, <1>6, <1>7
<1>10. ASSUME NEW p \in T PROVE AgainRestored(p)'
  <2>1. PICK r \in R : /\ p.alias = r.alias /\ p.var = r.var
                       /\ p.shard_a = ShardA(r.alias) /\ split[r.alias] # None
    BY <1>9
  <2>2. ASSUME p.alias \in ShardOf(Secret), NEW w \in Var, StandsFor(env[e][w], p.alias)
        PROVE  w = p.var
    BY <2>1, <2>2 DEF AgainInv, AgainOK, RowsNameLines
  <2>3. QED
    BY <1>5, <2>1, <2>2 DEF AgainRestored, StandsFor, Twice, ShardA
<1>11. \A p, q \in T : p.alias = q.alias => p.shard_a = q.shard_a
  BY <1>9
<1>12. RestoringAgain'
  BY <1>5, <1>8, <1>10, <1>11 DEF RestoringAgain
<1>13. AgainOK'
  BY AgainSame DEF AgainInv
<1>14. LockingAgain' /\ PurgeAgain'
  BY <1>5, AgainElsewhere DEF Before, Undoing
<1>15. QED
  BY <1>12, <1>13, <1>14 DEF AgainInv

(* unlock starts: every key of its plan reconstructs.                       *)
LEMMA StartUnlockAgain ==
    ASSUME StoresInv, AgainInv, NEW e \in Env, NEW A, StartUnlock(e, A)
    PROVE  AgainInv'
<1>1. UNCHANGED <<env, split, enrolled, splits>>
  BY DEF StartUnlock, files, rows, bounds
<1>2. PICK R \in Found(e, A) : Opens(R) /\ BeginRestore(e, R)
  BY DEF StartUnlock
<1>3. R \subseteq enrolled /\ \A r \in R : r.env = e
  BY DEF Found
<1>4. QED
  BY <1>1, <1>2, <1>3, BeginRestoreAgain

(* uninstall takes the next file, as unlock does, or leaves it out.         *)
LEMMA UninstallFileAgain ==
    ASSUME StoresInv, AgainInv, NEW e \in Env, UninstallFile(e)
    PROVE  AgainInv'
<1>1. PICK here : here = {r \in enrolled : r.env = e}
  OBVIOUS
<1>2. pc = "uninstall" /\ UNCHANGED <<env, split, enrolled, splits>>
  BY DEF UninstallFile, files, rows, bounds
<1>3. CASE Opens(here) /\ BeginRestore(e, here)
  BY <1>1, <1>2, <1>3, BeginRestoreAgain
<1>4. CASE pc' = pc
  <2>1. AgainOK'
    BY <1>2, AgainSame DEF AgainInv
  <2>2. QED
    BY <1>2, <1>4, <2>1, AgainElsewhere DEF AgainInv, Before, Undoing
<1>5. QED
  BY <1>1, <1>3, <1>4 DEF UninstallFile

\* The lines get back what was locked: an alias, where its shard-A stood.
LEMMA RestoreAgain ==
    ASSUME StoresInv, AgainInv, Restore
    PROVE  AgainInv'
<1>1. pc = "restore" /\ pc' = "forget" /\ UNCHANGED <<split, enrolled, decoys, splits, file, plan>>
  BY DEF Restore, rows, bounds
<1>2. /\ file \in Env
      /\ \A p \in ToSet(plan) : RestorePlanned(p) /\ AgainRestored(p)
      /\ \A p, q \in ToSet(plan) : p.alias = q.alias => p.shard_a = q.shard_a
  BY <1>1 DEF StoresInv, RestoringOK, AgainInv, RestoringAgain
<1>3. StoresInv'
  BY RestoreStep
<1>f. PICK f : f = file
  OBVIOUS
<1> DEFINE Back(v) == IF \E p \in ToSet(plan) : p.var = v
                      THEN (CHOOSE p \in ToSet(plan) : p.var = v).alias
                      ELSE env[f][v]
<1>4. \A e \in Env, v \in Var : env'[e][v] = IF e = f THEN Back(v) ELSE env[e][v]
  BY <1>f DEF Restore, StoresInv, StoresOK
<1>5. ASSUME NEW v \in Var, \E p \in ToSet(plan) : p.var = v
      PROVE  \E a \in Alias : Back(v) = a /\ env[f][v] = ShardA(a) /\ env[f][v] \in ShardOf(Alias)
  <2>1. PICK p \in ToSet(plan) : p.var = v /\ p = CHOOSE q \in ToSet(plan) : q.var = v
    BY <1>5
  <2>2. Back(v) = p.alias
    BY <1>5, <2>1
  <2>3. /\ p.alias \in Alias /\ env[f][v] = ShardA(p.alias) /\ split[p.alias] # None
    BY <1>1, <1>2, <1>f, <2>1 DEF RestorePlanned, Reconstructs
  <2>4. split[p.alias] \in 1..MaxSplits
    BY <2>3 DEF StoresInv, StoresOK
  <2>5. env[f][v] \in ShardOf(Alias)
    BY <2>3, <2>4, ValueKinds DEF ShardA
  <2>6. QED
    BY <2>2, <2>3, <2>5
<1>6. ASSUME NEW v \in Var, ~\E p \in ToSet(plan) : p.var = v PROVE Back(v) = env[f][v]
  BY <1>6
<1> HIDE DEF Back
<1>7. ASSUME NEW e \in Env, NEW v \in Var, Twice(env'[e][v])
      PROVE  env'[e][v] = env[e][v]
  BY <1>4, <1>5, <1>6, <1>7, TwiceKinds
<1>8. ASSUME NEW e \in Env, NEW v \in Var, NEW x \in ShardOf(Secret), StandsFor(env'[e][v], x)
      PROVE  StandsFor(env[e][v], x)
  <2>1. CASE env'[e][v] = env[e][v]
    BY <1>8, <2>1
  <2>2. CASE env'[e][v] # env[e][v]
    <3>1. e = f /\ \E p \in ToSet(plan) : p.var = v
      BY <1>4, <1>6, <2>2
    <3>2. PICK a \in Alias : env'[e][v] = a /\ env[f][v] = ShardA(a) /\ env[f][v] \in ShardOf(Alias)
      BY <1>4, <1>5, <3>1
    <3>3. a = x
      BY <1>8, <3>2, TwiceKinds DEF StandsFor
    <3>4. Twice(env[f][v]) /\ env[f][v].of = x
      BY <3>2, <3>3, TwiceKinds DEF ShardA
    <3>5. QED
      BY <3>1, <3>4 DEF StandsFor
  <2>3. QED
    BY <2>1, <2>2
<1>9. AgainOK'
  BY <1>1, <1>3, <1>7, <1>8, LinesChangeAgain DEF AgainInv
<1>10. ASSUME NEW p \in ToSet(plan) PROVE AgainRestored(p)'
  <2>1. RestorePlanned(p) /\ AgainRestored(p)
    BY <1>2
  <2>2. p.var \in Var
    BY <2>1 DEF RestorePlanned
  <2>3. ~Twice(env'[f][p.var])
    BY <1>2, <1>4, <1>5, <1>f, <2>2, TwiceKinds
  <2>4. ASSUME p.alias \in ShardOf(Secret), NEW w \in Var, StandsFor(env'[f][w], p.alias)
        PROVE  w = p.var
    BY <1>2, <1>8, <1>f, <2>1, <2>4 DEF AgainRestored
  <2>5. p.shard_a \in decoys \/ (split[p.alias] # None /\ p.shard_a = ShardA(p.alias))
    BY <2>1 DEF AgainRestored
  <2>6. QED
    BY <1>1, <1>f, <2>3, <2>4, <2>5 DEF AgainRestored, StandsFor, Twice, ShardA
<1>11. RestoringAgain'
  BY <1>1, <1>2, <1>10 DEF RestoringAgain
<1>12. QED
  BY <1>1, <1>9, <1>11, AgainElsewhere DEF AgainInv, Before, Undoing

(* unlock forgets its enrollments: their lines have let go of the shard-A.  *)
LEMMA ForgetAgain ==
    ASSUME StoresInv, AgainInv, Forget
    PROVE  AgainInv'
<1>1. pc = "forget" /\ UNCHANGED <<env, split, decoys, splits>>
  BY DEF Forget, files, bounds
<1>2. /\ plan \in Seq(Planned) /\ file \in Env
      /\ \A p \in ToSet(plan) : RestorePlanned(p) /\ AgainRestored(p)
      /\ \A p, q \in ToSet(plan) : p.alias = q.alias => p.shard_a = q.shard_a
  BY <1>1 DEF StoresInv, StoresOK, RestoringOK, AgainInv, RestoringAgain
<1>3. CASE plan = << >> /\ Finish /\ UNCHANGED enrolled
  <2>1. AgainOK'
    BY <1>1, <1>3, AgainSame DEF AgainInv
  <2>2. pc' \in {"idle", "uninstall"}
    BY <1>3 DEF Finish
  <2>3. QED
    BY <2>1, <2>2, AgainElsewhere DEF AgainInv, Before, Undoing
<1>4. CASE /\ plan # << >> /\ DeleteEnrollment(Head(plan).alias, file) /\ UNCHANGED file
           /\ (plan' = Tail(plan) /\ pc' = pc) \/ (pc' = "retire" /\ plan' = plan)
  <2>1. PICK p : p = Head(plan)
    OBVIOUS
  <2>2. p \in ToSet(plan) /\ ToSet(plan') \subseteq ToSet(plan)
    BY <1>2, <1>4, <2>1, TailSet
  <2>3. PICK a \in Alias : a = p.alias
    BY <1>2, <2>2 DEF RestorePlanned
  <2>4. ASSUME NEW v \in Var, Twice(env[file][v]), env[file][v].of = a
        PROVE  FALSE
    <3>1. a \in ShardOf(Secret) /\ StandsFor(env[file][v], a)
      BY <2>4, TwiceKinds DEF StandsFor
    <3>2. QED
      BY <1>1, <1>2, <2>2, <2>3, <2>4, <3>1 DEF AgainRestored
  <2>5. DeleteEnrollment(a, file) /\ \A b \in Alias : split'[b] = split[b]
    BY <1>1, <1>4, <2>1, <2>3
  <2>6. AgainOK'
    BY <1>1, <1>2, <2>4, <2>5, DeleteEnrollmentAgain DEF AgainInv
  <2>7. ASSUME NEW q \in ToSet(plan') PROVE AgainRestored(q)'
    <3>1. AgainRestored(q)
      BY <1>2, <2>2
    <3>2. pc' # "restore" /\ pc # "restore"
      BY <1>1, <1>4
    <3>3. QED
      BY <1>1, <1>4, <3>1, <3>2 DEF AgainRestored, StandsFor, Twice, ShardA
  <2>8. RestoringAgain'
    BY <1>1, <1>2, <1>4, <2>2, <2>7 DEF RestoringAgain
  <2>9. QED
    BY <1>1, <1>4, <2>6, <2>8, AgainElsewhere DEF AgainInv, Before, Undoing
<1>5. QED
  BY <1>1, <1>3, <1>4 DEF Forget

(* unlock retires a shard-A: no line and no row changes.                    *)
LEMMA RetireAgain ==
    ASSUME StoresInv, AgainInv, Retire
    PROVE  AgainInv'
<1>1. /\ pc = "retire" /\ pc' = "drop"
      /\ UNCHANGED <<env, split, enrolled, splits, file, plan>>
      /\ decoys' = decoys \cup {Head(plan).shard_a}
  BY DEF Retire, files, bounds
<1>2. AgainOK'
  BY <1>1, AgainSame DEF AgainInv
<1>3. \A p \in ToSet(plan) : AgainRestored(p)'
  <2> SUFFICES ASSUME NEW p \in ToSet(plan) PROVE AgainRestored(p)'
    OBVIOUS
  <2>1. AgainRestored(p)
    BY <1>1 DEF AgainInv, RestoringAgain
  <2>2. QED
    BY <1>1, <2>1 DEF AgainRestored, StandsFor, Twice, ShardA
<1>4. RestoringAgain'
  BY <1>1, <1>3 DEF AgainInv, RestoringAgain
<1>5. QED
  BY <1>1, <1>2, <1>4, AgainElsewhere DEF AgainInv, Before, Undoing

(* The split goes with its rows; another plan for it finds it retired.      *)
LEMMA DropAgain ==
    ASSUME StoresInv, AgainInv, Drop
    PROVE  AgainInv'
<1>1. /\ pc = "drop" /\ pc' = "forget" /\ plan' = Tail(plan)
      /\ UNCHANGED <<env, decoys, splits, file>>
  BY DEF Drop, files, bounds
<1>2. /\ plan \in Seq(Planned) /\ plan # << >>
      /\ \A p \in ToSet(plan) : RestorePlanned(p) /\ AgainRestored(p)
      /\ \A p, q \in ToSet(plan) : p.alias = q.alias => p.shard_a = q.shard_a
      /\ Head(plan).shard_a \in decoys
  BY <1>1 DEF StoresInv, StoresOK, RestoringOK, AgainInv, RestoringAgain
<1>3. PICK p : p = Head(plan)
  OBVIOUS
<1>4. p \in ToSet(plan) /\ ToSet(plan') \subseteq ToSet(plan)
  BY <1>1, <1>2, <1>3, TailSet
<1>5. PICK a \in Alias : a = p.alias
  BY <1>2, <1>4 DEF RestorePlanned
<1>6. DeleteEnrolled(a)
  BY <1>3, <1>5 DEF Drop
<1>7. AgainOK'
  BY <1>1, <1>6, DeleteEnrolledAgain DEF AgainInv
<1>8. ASSUME NEW q \in ToSet(plan') PROVE AgainRestored(q)'
  <2>1. AgainRestored(q) /\ q \in ToSet(plan) /\ q.alias \in Alias
    BY <1>2, <1>4 DEF RestorePlanned
  <2>2. CASE q.alias = a
    <3>1. q.shard_a \in decoys'
      BY <1>1, <1>2, <1>3, <1>4, <1>5, <2>1, <2>2
    <3>2. QED
      BY <1>1, <2>1, <3>1 DEF AgainRestored, StandsFor, Twice
  <2>3. CASE q.alias # a
    <3>1. split'[q.alias] = split[q.alias]
      BY <1>6, <2>1, <2>3 DEF DeleteEnrolled, StoresInv, StoresOK
    <3>2. q.shard_a \in decoys' \/ (split'[q.alias] # None /\ q.shard_a = ShardA(q.alias)')
      BY <1>1, <2>1, <3>1 DEF AgainRestored, ShardA
    <3>3. QED
      BY <1>1, <2>1, <3>2 DEF AgainRestored, StandsFor, Twice, ShardA
  <2>4. QED
    BY <2>2, <2>3
<1>9. RestoringAgain'
  BY <1>1, <1>2, <1>4, <1>8 DEF RestoringAgain
<1>10. QED
  BY <1>1, <1>7, <1>9, AgainElsewhere DEF AgainInv, Before, Undoing

(* uninstall starts, gives a file up, or wipes everything.                  *)
LEMMA UninstallAgain ==
    ASSUME StoresInv, AgainInv, StartUninstall \/ UninstallFileFails \/ Wipe
    PROVE  AgainInv'
<1>1. UNCHANGED <<env, splits>> /\ pc' \in {"idle", "uninstall"}
  BY DEF StartUninstall, UninstallFileFails, Wipe, Stop, files, bounds
<1>2. AgainOK'
  <2>1. CASE UNCHANGED <<split, enrolled>>
    BY <1>1, <2>1, AgainSame DEF AgainInv
  <2>2. CASE split' = [a \in Alias |-> None] /\ enrolled' = {}
    BY <1>1, <2>2, RowsGoAgain DEF AgainInv
  <2>3. QED
    BY <2>1, <2>2 DEF StartUninstall, UninstallFileFails, Wipe, rows
<1>3. QED
  BY <1>1, <1>2, AgainElsewhere DEF AgainInv, Before, Undoing

-----------------------------------------------------------------------------
(* revoke takes the rows of an alias and its split together.               *)
LEMMA RevokeAgain ==
    ASSUME StoresInv, AgainInv, NEW a \in Alias, Revoke(a)
    PROVE  AgainInv'
<1>1. pc = "idle" /\ pc' = pc /\ DeleteEnrolled(a) /\ UNCHANGED <<env, splits>>
  BY DEF Revoke, files, command, bounds
<1>2. AgainOK'
  BY <1>1, DeleteEnrolledAgain DEF AgainInv
<1>3. QED
  BY <1>1, <1>2, AgainElsewhere DEF AgainInv, Before, Undoing

\* doctor --fix: an orphan's line is gone, and it was the only one.
LEMMA StartPurgeAgain ==
    ASSUME StoresInv, AgainInv, StartPurge
    PROVE  AgainInv'
<1>1. /\ pc' = "purge" /\ todo' = {<<r.alias, r.env>> : r \in Orphans}
      /\ UNCHANGED <<env, split, enrolled, splits>>
  BY DEF StartPurge, files, rows, bounds
<1>2. AgainOK'
  BY <1>1, AgainSame DEF AgainInv
<1>3. ASSUME NEW r \in Orphans, NEW e \in Env, NEW v \in Var, Twice(env[e][v]),
             r.alias = env[e][v].of, r.env = e
      PROVE  FALSE
  <2>1. r \in enrolled /\ env[e][r.var] = None
    BY <1>3 DEF Orphans
  <2>2. PICK x \in ShardOf(Secret) : x = env[e][v].of
    BY <1>3, TwiceKinds
  <2>3. StandsFor(env[r.env][v], x)
    BY <1>3, <2>2 DEF StandsFor
  <2>4. v = r.var
    BY <1>3, <2>1, <2>2, <2>3 DEF AgainInv, AgainOK, RowsNameLines
  <2>5. QED
    BY <1>3, <2>1, <2>4, TwiceKinds
<1>4. ASSUME NEW k \in todo', NEW e \in Env, NEW v \in Var, Twice(env[e][v]),
             k = <<env[e][v].of, e>>
      PROVE  FALSE
  <2>1. PICK r \in Orphans : k = <<r.alias, r.env>>
    BY <1>1, <1>4
  <2>2. QED
    BY <1>3, <1>4, <2>1
<1>5. PurgeAgain'
  BY <1>1, <1>4 DEF PurgeAgain, Twice
<1>6. QED
  BY <1>1, <1>2, <1>5, AgainElsewhere DEF AgainInv, Before, Undoing

(* _purge_all deletes an orphan's rows, and no others.                      *)
LEMMA PurgeStepAgain ==
    ASSUME StoresInv, AgainInv, Purge
    PROVE  AgainInv'
<1>1. pc = "purge" /\ UNCHANGED <<env, split, splits>>
  BY DEF Purge, files, bounds
<1>2. ASSUME NEW k \in todo, DeleteEnrollment(k[1], k[2]), todo' = todo \ {k}, pc' = pc
      PROVE  AgainInv'
  <2>1. k \in Alias \X Env
    BY <1>1, <1>2 DEF StoresInv, PurgeOK
  <2>2. PICK a \in Alias, f \in Env : a = k[1] /\ f = k[2] /\ k = <<a, f>>
    BY <2>1
  <2>3. \A v \in Var : Twice(env[f][v]) => env[f][v].of # a
    BY <1>1, <1>2, <2>2 DEF AgainInv, PurgeAgain
  <2>4. DeleteEnrollment(a, f)
    BY <1>2, <2>2
  <2>5. \A b \in Alias : split'[b] = split[b] \/ split'[b] = None
    BY <1>1
  <2>6. AgainOK'
    BY <1>1, <2>3, <2>4, <2>5, DeleteEnrollmentAgain DEF AgainInv
  <2>7. PurgeAgain'
    BY <1>1, <1>2 DEF AgainInv, PurgeAgain, Twice
  <2>8. QED
    BY <1>1, <1>2, <2>6, <2>7, AgainElsewhere DEF AgainInv, Before, Undoing
<1>3. CASE pc' = "teardown" /\ UNCHANGED enrolled
  <2>1. AgainOK'
    BY <1>1, <1>3, AgainSame DEF AgainInv
  <2>2. QED
    BY <1>3, <2>1, AgainElsewhere DEF AgainInv, Before, Undoing
<1>4. QED
  BY <1>2, <1>3 DEF Purge

(* Then what has no row left goes.                                          *)
LEMMA TeardownAgain ==
    ASSUME StoresInv, AgainInv, Teardown
    PROVE  AgainInv'
<1>1. pc = "teardown" /\ UNCHANGED <<env, splits>> /\ pc' \in {"idle", "teardown"}
  BY DEF Teardown, Stop, files, bounds
<1>2. AgainOK'
  <2>1. ASSUME NEW a \in seen, DeleteEnrolled(a) PROVE AgainOK'
    <3>1. a \in Alias
      BY <1>1, <2>1 DEF StoresInv, PurgeOK
    <3>2. QED
      BY <1>1, <2>1, <3>1, DeleteEnrolledAgain DEF AgainInv
  <2>2. CASE UNCHANGED <<split, enrolled>>
    BY <1>1, <2>2, AgainSame DEF AgainInv
  <2>3. QED
    BY <2>1, <2>2 DEF Teardown
<1>3. QED
  BY <1>1, <1>2, AgainElsewhere DEF AgainInv, Before, Undoing

-----------------------------------------------------------------------------
\* The user puts a key on a line or deletes it: what was there is gone.
LEMMA KeyEditedAgain ==
    ASSUME StoresInv, StoresInv', AgainInv, pc # "restore",
           NEW e \in Env, NEW v \in Var, NEW s \in Secret \cup {None},
           env' = [env EXCEPT ![e][v] = s], UNCHANGED <<rows, command, splits>>
    PROVE  AgainInv'
<1>1. \A f \in Env, w \in Var : env'[f][w] = IF f = e /\ w = v THEN s ELSE env[f][w]
  BY DEF StoresInv, StoresOK
<1>2. UNCHANGED <<split, enrolled, decoys, splits, pc, file, todo, plan, seen>>
  BY DEF rows, command
<1>3. ~Twice(s) /\ \A x \in ShardOf(Secret) : ~StandsFor(s, x)
  BY KeysStandForNone, TwiceKinds, ValueKinds
<1>4. \A f \in Env, w \in Var : Twice(env'[f][w]) => env'[f][w] = env[f][w]
  BY <1>1, <1>3
<1>5. \A f \in Env, w \in Var, x \in ShardOf(Secret) :
         StandsFor(env'[f][w], x) => StandsFor(env[f][w], x)
  BY <1>1, <1>3
<1>6. AgainOK'
  BY <1>2, <1>4, <1>5, LinesChangeAgain DEF AgainInv
<1>7. LockingAgain'
  <2>1. CASE pc \notin Before \cup Undoing
    BY <1>2, <2>1, AgainElsewhere
  <2>2. CASE pc \in Before \cup Undoing
    <3>1. file \in Env /\ SeenAgain
      BY <2>2 DEF StoresInv, LockingOK, SeenOK, AgainInv, LockingAgain
    <3>2. \A w \in Var : env'[file][w] \in Secret \cup {None} \/ env'[file][w] = seen[1][w]
      BY <1>1, <3>1 DEF SeenAgain
    <3>3. SeenAgain'
      BY <1>2, <3>1, <3>2 DEF SeenAgain, StandsFor, Twice
    <3>4. pc \in Before => \A p \in ToSet(plan) : AgainCommittable(p)'
      BY <1>2 DEF AgainInv, LockingAgain, AgainCommittable, ShardA, HasRow
    <3>5. QED
      BY <1>2, <3>3, <3>4 DEF LockingAgain
  <2>3. QED
    BY <2>1, <2>2
<1>8. RestoringAgain'
  <2>1. CASE pc \notin {"restore", "forget", "retire", "drop"}
    BY <1>2, <2>1, AgainElsewhere
  <2>2. CASE pc \in {"restore", "forget", "retire", "drop"}
    <3>1. file \in Env
      BY <2>2 DEF StoresInv, RestoringOK
    <3>2. ASSUME NEW p \in ToSet(plan) PROVE AgainRestored(p)'
      <4>1. AgainRestored(p) /\ p.var \in Var
        BY <2>2, <3>2 DEF AgainInv, RestoringAgain, StoresInv, RestoringOK, RestorePlanned
      <4>2. p.alias \in ShardOf(Secret) =>
              /\ \A w \in Var : StandsFor(env'[file][w], p.alias) => w = p.var
              /\ ~Twice(env'[file][p.var])
        BY <1>4, <1>5, <3>1, <4>1 DEF AgainRestored
      <4>3. p.shard_a \in decoys \/ (split[p.alias] # None /\ p.shard_a = ShardA(p.alias))
        BY <4>1 DEF AgainRestored
      <4>4. QED
        BY <1>2, <4>2, <4>3 DEF AgainRestored, StandsFor, Twice, ShardA
    <3>3. QED
      BY <1>2, <2>2, <3>2 DEF AgainInv, RestoringAgain
  <2>3. QED
    BY <2>1, <2>2
<1>9. PurgeAgain'
  BY <1>2, <1>4 DEF AgainInv, PurgeAgain, Twice
<1>10. QED
  BY <1>6, <1>7, <1>8, <1>9 DEF AgainInv

(* An edit of a *_BASE_URL line changes nothing of this.                    *)
LEMMA LineEditedAgain ==
    ASSUME StoresInv, AgainInv, UNCHANGED <<env, rows, command, splits>>
    PROVE  AgainInv'
<1>1. UNCHANGED <<split, enrolled, decoys, pc, file, todo, plan, seen>>
  BY DEF rows, command
<1>2. AgainOK'
  BY <1>1, AgainSame DEF AgainInv
<1>3. LockingAgain'
  BY <1>1 DEF AgainInv, LockingAgain, SeenAgain, AgainCommittable, StandsFor, Twice, ShardA, HasRow
<1>4. RestoringAgain'
  BY <1>1 DEF AgainInv, RestoringAgain, AgainRestored, StandsFor, Twice, ShardA
<1>5. PurgeAgain'
  BY <1>1 DEF AgainInv, PurgeAgain, Twice
<1>6. QED
  BY <1>2, <1>3, <1>4, <1>5 DEF AgainInv

-----------------------------------------------------------------------------
(* At first nothing is locked.                                              *)
LEMMA AgainInit == Init => AgainInv
<1> SUFFICES ASSUME Init PROVE AgainInv
  OBVIOUS
<1>1. \A e \in Env, v \in Var : env[e][v] = None
  BY DEF Init
<1>2. AgainOK
  <2>1. ~Twice(None) /\ \A x \in ShardOf(Secret) : ~StandsFor(None, x)
    BY KeysStandForNone, TwiceKinds
  <2>2. AgainEnrolled
    BY <1>1, <2>1 DEF AgainEnrolled
  <2>3. OneLineEach
    BY <1>1, <2>1 DEF OneLineEach
  <2>4. RowsNameLines
    BY DEF RowsNameLines, Init
  <2>5. QED
    BY <2>2, <2>3, <2>4 DEF AgainOK
<1>3. pc = "idle"
  BY DEF Init
<1>4. QED
  BY <1>2, <1>3 DEF AgainInv, LockingAgain, RestoringAgain, PurgeAgain, Before, Undoing

(* Every step, of any command and of the user, keeps it.                    *)
LEMMA AgainStep ==
    ASSUME ~TwoNames, ~EditsRace, StoresInv, AgainInv, [Next]_vars
    PROVE  AgainInv'
<1>0. StoresInv'
  BY StoresInvStep
<1>1. CASE \E e \in Env, k \in BOOLEAN : StartLock(e, k)
  BY <1>1, StartLockAgain
<1>2. CASE \E v \in Var : Enroll(v)
  BY <1>2, EnrollAgain
<1>3. CASE (\E v \in Var : EnrollFails(v)) \/ RewriteRefused \/ LockFails
  BY <1>3, LockGivesUpAgain
<1>4. CASE Supersede \/ RecordBaseUrlRestores \/ Rewrite \/ Unwind \/ UnwindShard
  BY <1>4, SupersedeAgain, RecordAgain, RewriteAgain, UnwindAgain, UnwindShardAgain
<1>5. CASE \E e \in Env : \E A \in {EnrolledIn(e)} \cup {{a} : a \in EnrolledIn(e)} : StartUnlock(e, A)
  BY <1>5, StartUnlockAgain
<1>6. CASE Restore \/ Forget \/ Retire \/ Drop
  BY <1>6, RestoreAgain, ForgetAgain, RetireAgain, DropAgain
<1>7. CASE \E e \in Env : UninstallFile(e)
  BY <1>7, UninstallFileAgain
<1>8. CASE StartUninstall \/ UninstallFileFails \/ Wipe
  BY <1>8, UninstallAgain
<1>9. CASE \E a \in Alias : Revoke(a)
  BY <1>9, RevokeAgain
<1>10. CASE StartPurge \/ Purge \/ Teardown
  BY <1>10, StartPurgeAgain, PurgeStepAgain, TeardownAgain
<1>11. ASSUME NEW e \in Env, NEW v \in Var, NEW s \in Secret, PutKey(e, v, s) PROVE AgainInv'
  <2>1. pc # "restore" /\ UNCHANGED <<rows, command, splits>> /\ env' = [env EXCEPT ![e][v] = s]
    BY <1>11 DEF PutKey, Edit
  <2>2. s \in Secret \cup {None}
    OBVIOUS
  <2>3. QED
    BY <1>0, <2>1, <2>2, KeyEditedAgain
<1>12. ASSUME NEW e \in Env, NEW v \in Var, DeleteKey(e, v) PROVE AgainInv'
  <2>1. pc # "restore" /\ UNCHANGED <<rows, command, splits>> /\ env' = [env EXCEPT ![e][v] = None]
    BY <1>12 DEF DeleteKey, Edit
  <2>2. QED
    BY <1>0, <2>1, KeyEditedAgain
<1>13. CASE \E e \in Env, s \in Slot, x \in {None, Own} : PutLine(e, s, x)
  BY <1>13, LineEditedAgain DEF PutLine, Edit
<1>14. CASE Die
  <2>1. Stop /\ UNCHANGED <<env, splits, split, enrolled>>
    BY <1>14 DEF Die, files, rows
  <2>2. QED
    BY <2>1, AgainSame, AgainStopped DEF AgainInv
<1>15. CASE UNCHANGED vars
  BY <1>15, LineEditedAgain DEF vars, files, bounds
<1>16. QED
  BY <1>1, <1>2, <1>3, <1>4, <1>5, <1>6, <1>7, <1>8, <1>9, <1>10, <1>11, <1>12,
     <1>13, <1>14, <1>15 DEF Next

(* Only unlock retires.                                                    *)
LEMMA OnlyRetireAdds ==
    ASSUME [Next]_vars, ~Retire
    PROVE  decoys' \subseteq decoys
<1>1. CASE \E e \in Env, k \in BOOLEAN : StartLock(e, k)
  BY <1>1 DEF StartLock, rows
<1>2. CASE \E v \in Var : Enroll(v) \/ EnrollFails(v)
  BY <1>2 DEF Enroll, EnrollFails, rows
<1>3. CASE Supersede \/ RecordBaseUrlRestores \/ Rewrite \/ RewriteRefused
           \/ LockFails \/ Unwind \/ UnwindShard
  BY <1>3 DEF Supersede, RecordBaseUrlRestores, Rewrite, RewriteRefused, LockFails, Unwind,
     UnwindShard, rows
<1>4. CASE \E e \in Env : \E A \in {EnrolledIn(e)} \cup {{a} : a \in EnrolledIn(e)} : StartUnlock(e, A)
  BY <1>4 DEF StartUnlock, rows
<1>5. CASE Restore \/ Forget \/ Drop
  BY <1>5 DEF Restore, Forget, Drop, rows
<1>6. CASE StartUninstall \/ (\E e \in Env : UninstallFile(e)) \/ UninstallFileFails \/ Wipe
  BY <1>6 DEF StartUninstall, UninstallFile, UninstallFileFails, Wipe, rows
<1>7. CASE (\E a \in Alias : Revoke(a)) \/ StartPurge \/ Purge \/ Teardown
  BY <1>7 DEF Revoke, StartPurge, Purge, Teardown, rows
<1>8. CASE \/ \E e \in Env, v \in Var, s \in Secret : PutKey(e, v, s)
           \/ \E e \in Env, v \in Var : DeleteKey(e, v)
           \/ \E e \in Env, s \in Slot, x \in {None, Own} : PutLine(e, s, x)
  BY <1>8 DEF PutKey, DeleteKey, PutLine, Edit, rows
<1>9. CASE Die \/ UNCHANGED vars
  BY <1>9 DEF Die, vars, rows
<1>10. QED
  BY <1>1, <1>2, <1>3, <1>4, <1>5, <1>6, <1>7, <1>8, <1>9 DEF Next

(* What it retires was the stored split's, whose rows have all gone.       *)
LEMMA RetiresUnused ==
    ASSUME StoresInv, AgainInv, Retire,
           NEW x \in decoys' \ decoys, NEW e \in Env, NEW v \in Var, env'[e][v] = x
    PROVE  FALSE
<1>1. pc = "retire" /\ UNCHANGED env /\ x = Head(plan).shard_a
  BY DEF Retire, files
<1>2. /\ plan \in Seq(Planned) /\ plan # << >>
      /\ \A p \in ToSet(plan) : RestorePlanned(p) /\ AgainRestored(p)
      /\ \A r \in enrolled : r.alias # Head(plan).alias
  BY <1>1 DEF StoresInv, StoresOK, RestoringOK, AgainInv, RestoringAgain
<1>3. PICK p \in ToSet(plan) : p = Head(plan)
  BY <1>2, TailSet
<1>4. PICK a \in Alias : a = p.alias
  BY <1>2 DEF RestorePlanned
<1>5. split[a] # None /\ x = ShardA(a)
  BY <1>1, <1>2, <1>3, <1>4 DEF AgainRestored
<1>6. split[a] \in 1..MaxSplits /\ x.of = a /\ x.split = split[a]
  BY <1>5 DEF StoresInv, StoresOK, ShardA
<1>7. x \in ShardOf(Alias) /\ ~Burnt(x)
  BY <1>5, <1>6, ValueKinds DEF ShardA, Burnt
<1>8. ~HasRow(a, v, e)
  BY <1>2, <1>3, <1>4 DEF HasRow
<1>9. CASE a \in Secret
  <2>1. x \in ShardOf(Secret) /\ x \notin Secret
    BY <1>6, <1>7, <1>9, ValueKinds
  <2>2. wanted[e][v] # None
    BY <1>1, <1>7, <2>1 DEF StoresInv, DataOK, BurntOK
  <2>3. PICK b \in Secret : b = wanted[e][v]
    BY <2>2 DEF StoresInv, StoresOK
  <2>4. x = ShardA(b) /\ HasRow(b, v, e)
    BY <1>1, <2>1, <2>2, <2>3 DEF StoresInv, DataOK, KeysSafe, Sealed
  <2>5. b = a
    BY <1>6, <2>4 DEF ShardA
  <2>6. QED
    BY <1>8, <2>4, <2>5
<1>10. CASE a \in ShardOf(Secret)
  <2>1. Twice(x)
    BY <1>6, <1>7, <1>10, TwiceKinds
  <2>2. Twice(env[e][v]) /\ env[e][v] = ShardA(env[e][v].of) /\ env[e][v].of = a
    BY <1>1, <1>5, <1>6, <2>1
  <2>3. HasRow(env[e][v].of, v, e)
    BY <2>2 DEF AgainInv, AgainOK, AgainEnrolled
  <2>4. QED
    BY <1>8, <2>2, <2>3
<1>11. QED
  BY <1>9, <1>10 DEF Alias

(* Where keys have one name in a file and unlock is not raced, unlock and   *)
(* uninstall retire a shard-A only when no line of any file holds it: the   *)
(* tripwire never fires on what a user has in an .env (_pass3_db_cleanup's   *)
(* order: last enrollment, tripwire, shard).                                *)
THEOREM RetiredShardsAreUnused == ~TwoNames /\ ~EditsRace => (Spec => RetiredIsUnused)
<1> SUFFICES ASSUME ~TwoNames, ~EditsRace PROVE Spec => RetiredIsUnused
  OBVIOUS
<1>1. StoresInv /\ AgainInv /\ [Next]_vars => StoresInv' /\ AgainInv'
  BY StoresInvStep, AgainStep
<1>2. StoresInv /\ AgainInv /\ [Next]_vars =>
        [\A x \in decoys' \ decoys : \A e \in Env, v \in Var : env'[e][v] # x]_vars
  BY OnlyRetireAdds, RetiresUnused
<1>3. QED
  BY <1>1, <1>2, StoresInvInit, AgainInit, PTL DEF Spec, RetiredIsUnused

-----------------------------------------------------------------------------
(* A line that routes a locked key remembers what it was before.  The rows  *)
(* an alias has in a file name one line, and while the file routes the      *)
(* alias each of them has that route's record.                              *)

OneVarEach ==
    \A q, r \in enrolled : q.alias = r.alias /\ q.env = r.env => q.var = r.var

\* What is no route is as the user left it.
LinesOwned ==
    /\ wanted_line \in [Env -> [Slot -> {None, Own}]]
    /\ \A e \in Env, s \in Slot : line[e][s] \notin Route => line[e][s] = wanted_line[e][s]

RoutesRemember ==
    \A e \in Env, s \in Slot, r \in enrolled :
        r.env = e /\ line[e][s] = [to |-> r.alias] =>
            r.restore = [slot |-> s, original |-> wanted_line[e][s]]

LinesOK == OneVarEach /\ LinesOwned /\ RoutesRemember

\* lock: the file routes nothing yet; what it will route has its record.
LockingLines ==
    /\ pc \in Before => \A s \in Slot : line[file][s] \notin Route
    /\ pc = "rewrite" =>
          \A s \in PlannedLines, r \in enrolled :
              r.env = file /\ r.alias = Winner(s).alias =>
                  r.restore = [slot |-> s, original |-> seen[2][s]]

\* unlock: its plan has what a row remembers.
RestoringLines ==
    pc = "restore" =>
        \A p \in ToSet(plan) :
            \E r \in enrolled : r.alias = p.alias /\ r.env = file /\ r.restore = p.restore

LinesInv == LinesOK /\ LockingLines /\ RestoringLines

-----------------------------------------------------------------------------
(* Rows may go.                                                            *)
LEMMA RowsGoLines ==
    ASSUME LinesOK, UNCHANGED <<line, wanted_line>>, enrolled' \subseteq enrolled
    PROVE  LinesOK'
BY DEF LinesOK, OneVarEach, LinesOwned, RoutesRemember

(* Where a command that changes no line may be next.                       *)
LEMMA LinesElsewhere ==
    ASSUME LinesInv, UNCHANGED <<line, wanted_line>>, enrolled' \subseteq enrolled,
           pc' # "rewrite", pc' # "restore",
           pc' \in Before => pc \in Before /\ UNCHANGED file
    PROVE  LinesInv'
BY RowsGoLines DEF LinesInv, LockingLines, RestoringLines

(* A plan has what the rows it was made from remember.                     *)
LEMMA BeginRestoreLines ==
    ASSUME StoresInv, NEW e \in Env, NEW R, R \subseteq enrolled, \A r \in R : r.env = e,
           BeginRestore(e, R), UNCHANGED enrolled
    PROVE  RestoringLines' /\ pc' = "restore"
<1>1. PICK here : here = env[e]
  OBVIOUS
<1> DEFINE rec(r) == [alias |-> r.alias, var |-> r.var, restore |-> r.restore, shard_a |-> here[r.var]]
           g == [r \in R |-> rec(r)]
           S == {g[r] : r \in R}
<1>2. IsFiniteSet(R)
  BY FS_Subset DEF StoresInv, StoresOK
<1>3. IsFiniteSet(S)
  <2>1. PICK h : h = g
    OBVIOUS
  <2> HIDE DEF g
  <2>2. QED
    BY <1>2, <2>1, ImageFinite
<1>4. S = {rec(r) : r \in R}
  OBVIOUS
<1>5. plan' = SetToSeq(S) /\ pc' = "restore" /\ file' = e
  BY <1>1, <1>4 DEF BeginRestore
<1>6. \A r \in R : rec(r).alias = r.alias /\ rec(r).restore = r.restore
  OBVIOUS
<1> HIDE DEF rec
<1>7. PICK T : T = S
  OBVIOUS
<1> HIDE DEF S, g
<1>8. ToSet(plan') = T
  BY <1>3, <1>5, <1>7, SetToSeqLists
<1>9. \A p \in T : \E r \in R : r.alias = p.alias /\ r.restore = p.restore
  BY <1>4, <1>6, <1>7
<1>10. QED
  BY <1>5, <1>8, <1>9 DEF RestoringLines

(* A step of a command that writes no line and no record.                  *)
LEMMA CommandsKeepLines ==
    ASSUME StoresInv, LinesInv,
           \/ \E e \in Env, k \in BOOLEAN : StartLock(e, k)
           \/ \E v \in Var : EnrollFails(v)
           \/ Supersede \/ RewriteRefused \/ LockFails \/ Unwind \/ UnwindShard
           \/ \E e \in Env : \E A \in {EnrolledIn(e)} \cup {{a} : a \in EnrolledIn(e)} : StartUnlock(e, A)
           \/ Forget \/ Retire \/ Drop
           \/ StartUninstall \/ (\E e \in Env : UninstallFile(e)) \/ UninstallFileFails \/ Wipe
           \/ (\E a \in Alias : Revoke(a)) \/ StartPurge \/ Purge \/ Teardown
           \/ Die
    PROVE  LinesInv'
<1>1. ASSUME NEW e \in Env, NEW k \in BOOLEAN, StartLock(e, k) PROVE LinesInv'
  <2>1. /\ pc' = "enroll" /\ file' = e /\ UNCHANGED <<line, wanted_line, enrolled>>
        /\ \A s \in Slot : line[e][s] \notin Route
    BY <1>1 DEF StartLock, AlreadyLocked, files, rows, user
  <2>2. QED
    BY <2>1, RowsGoLines DEF LinesInv, LockingLines, RestoringLines
<1>2. CASE (\E v \in Var : EnrollFails(v)) \/ RewriteRefused \/ LockFails
  BY <1>2, LinesElsewhere DEF EnrollFails, RewriteRefused, LockFails, files, rows, user, Before
<1>3. CASE Supersede
  <2>1. /\ pc = "supersede" /\ pc' \in {"supersede", "record", "enroll"}
        /\ UNCHANGED <<line, wanted_line, file>> /\ enrolled' \subseteq enrolled
    BY <1>3 DEF Supersede, DeleteSuperseded, DeleteEnrollment, files, user
  <2>2. QED
    BY <2>1, LinesElsewhere DEF Before
<1>4. CASE Unwind \/ UnwindShard
  <2>1. /\ pc' \in {"idle", "unwind", "unwind_shard"}
        /\ UNCHANGED <<line, wanted_line>> /\ enrolled' \subseteq enrolled
    BY <1>4 DEF Unwind, UnwindShard, Stop, DeleteEnrollment, DeleteEnrolled, files, user
  <2>2. QED
    BY <2>1, LinesElsewhere DEF Before
<1>5. ASSUME NEW e \in Env, NEW A, StartUnlock(e, A) PROVE LinesInv'
  <2>1. UNCHANGED <<line, wanted_line, enrolled>>
    BY <1>5 DEF StartUnlock, files, rows, user
  <2>2. PICK R \in Found(e, A) : BeginRestore(e, R)
    BY <1>5 DEF StartUnlock
  <2>3. R \subseteq enrolled /\ \A r \in R : r.env = e
    BY DEF Found
  <2>4. RestoringLines' /\ pc' = "restore"
    BY <2>1, <2>2, <2>3, BeginRestoreLines
  <2>5. QED
    BY <2>1, <2>4, RowsGoLines DEF LinesInv, LockingLines, Before
<1>6. CASE Forget \/ Retire \/ Drop
  <2>1. /\ pc' \in {"idle", "uninstall", "forget", "retire", "drop"}
        /\ UNCHANGED <<line, wanted_line>> /\ enrolled' \subseteq enrolled
    BY <1>6 DEF Forget, Retire, Drop, Finish, DeleteEnrollment, DeleteEnrolled, files, user
  <2>2. QED
    BY <2>1, LinesElsewhere DEF Before
<1>7. CASE StartUninstall \/ UninstallFileFails \/ Wipe
  <2>1. /\ pc' \in {"idle", "uninstall"}
        /\ UNCHANGED <<line, wanted_line>> /\ enrolled' \subseteq enrolled
    BY <1>7 DEF StartUninstall, UninstallFileFails, Wipe, Stop, files, rows, user
  <2>2. QED
    BY <2>1, LinesElsewhere DEF Before
<1>8. ASSUME NEW e \in Env, UninstallFile(e) PROVE LinesInv'
  <2>1. PICK here : here = {r \in enrolled : r.env = e}
    OBVIOUS
  <2>2. pc = "uninstall" /\ UNCHANGED <<line, wanted_line, enrolled>>
    BY <1>8 DEF UninstallFile, files, rows, user
  <2>3. CASE BeginRestore(e, here)
    <3>1. RestoringLines' /\ pc' = "restore"
      BY <2>1, <2>2, <2>3, BeginRestoreLines
    <3>2. QED
      BY <2>2, <3>1, RowsGoLines DEF LinesInv, LockingLines, Before
  <2>4. CASE pc' = pc
    BY <2>2, <2>4, LinesElsewhere DEF Before
  <2>5. QED
    BY <1>8, <2>1, <2>3, <2>4 DEF UninstallFile
<1>9. CASE (\E a \in Alias : Revoke(a)) \/ StartPurge \/ Purge \/ Teardown
  <2>1. /\ pc' \in {"idle", "purge", "teardown"}
        /\ UNCHANGED <<line, wanted_line>> /\ enrolled' \subseteq enrolled
    BY <1>9 DEF Revoke, StartPurge, Purge, Teardown, Stop, DeleteEnrollment, DeleteEnrolled,
       files, rows, user, command
  <2>2. QED
    BY <2>1, LinesElsewhere DEF Before
<1>10. CASE Die
  BY <1>10, LinesElsewhere DEF Die, Stop, files, rows, user, Before
<1>11. QED
  BY <1>1, <1>2, <1>3, <1>4, <1>5, <1>6, <1>7, <1>8, <1>9, <1>10

(* A row that is new names the line its alias stood on.                    *)
LEMMA EnrollLines ==
    ASSUME StoresInv, AgainInv, LinesInv, NEW v \in Var, Enroll(v)
    PROVE  LinesInv'
<1>1. /\ pc = "enroll" /\ pc' = "supersede" /\ v \in todo
      /\ UNCHANGED <<line, wanted_line, file>>
  BY DEF Enroll, files, user
<1>2. SeenOK /\ SeenAgain /\ seen[1][v] \in Alias
  BY <1>1 DEF StoresInv, LockingOK, AgainInv, LockingAgain, Before
<1>3. PICK a \in Alias : a = seen[1][v]
  BY <1>2
<1>4. \A r \in enrolled' : r \in enrolled \/ (r.alias = a /\ r.var = v /\ r.env = file)
  <2>1. enrolled' = Enrolled(a, v, file)
    BY <1>3 DEF Enroll, UpsertAndEnroll
  <2>2. PICK new : new = [alias |-> a, var |-> v, env |-> file, restore |-> None]
    OBVIOUS
  <2>3. enrolled' = enrolled \/ enrolled' = enrolled \cup {new}
    BY <2>1, <2>2 DEF Enrolled
  <2>4. QED
    BY <2>2, <2>3
<1>5. ASSUME NEW r \in enrolled, r.alias = a, r.env = file PROVE r.var = v
  <2>1. CASE a \in Secret
    BY <1>2, <1>3, <1>5, <2>1 DEF SeenOK
  <2>2. CASE a \in ShardOf(Secret)
    <3>1. StandsFor(seen[1][v], a)
      BY <1>3 DEF StandsFor
    <3>2. QED
      BY <1>2, <1>5, <2>2, <3>1 DEF SeenAgain
  <2>3. QED
    BY <2>1, <2>2 DEF Alias
<1>6. OneVarEach'
  BY <1>4, <1>5 DEF LinesInv, LinesOK, OneVarEach
<1>7. \A s \in Slot : line[file][s] \notin Route
  BY <1>1 DEF LinesInv, LockingLines, Before
<1>8. RoutesRemember'
  <2> SUFFICES ASSUME NEW e \in Env, NEW s \in Slot, NEW r \in enrolled', r.env = e,
                      line[e][s] = [to |-> r.alias]
               PROVE  r.restore = [slot |-> s, original |-> wanted_line[e][s]]
    BY <1>1 DEF RoutesRemember
  <2>1. CASE r \in enrolled
    BY <2>1 DEF LinesInv, LinesOK, RoutesRemember
  <2>2. CASE r.alias = a /\ r.env = file
    BY <1>7, <2>2 DEF Route
  <2>3. QED
    BY <1>4, <2>1, <2>2
<1>9. LinesOwned'
  BY <1>1 DEF LinesInv, LinesOK, LinesOwned
<1>10. QED
  BY <1>1, <1>6, <1>7, <1>8, <1>9 DEF LinesInv, LinesOK, LockingLines, RestoringLines, Before

(* What is planned is enrolled, and by one name.                           *)
LEMMA PlannedRows ==
    ASSUME StoresInv, AgainInv, pc \in Before, NEW p \in ToSet(plan)
    PROVE  /\ p.alias \in Alias /\ p.var \in Var /\ HasRow(p.alias, p.var, file)
           /\ \A q \in ToSet(plan) : q.alias = p.alias => q.var = p.var
<1>1. SeenOK /\ SeenAgain /\ \A q \in ToSet(plan) : LockPlanned(q) /\ Committable(q) /\ AgainCommittable(q)
  BY DEF StoresInv, LockingOK, AgainInv, LockingAgain
<1>2. p.alias \in Alias /\ p.var \in Var /\ p.alias = seen[1][p.var]
  BY <1>1 DEF LockPlanned
<1>3. HasRow(p.alias, p.var, file)
  BY <1>1, <1>2 DEF Committable, AgainCommittable, Alias
<1>4. ASSUME NEW q \in ToSet(plan), q.alias = p.alias PROVE q.var = p.var
  <2>1. q.var \in Var /\ q.alias = seen[1][q.var]
    BY <1>1, <1>4 DEF LockPlanned
  <2>2. CASE p.alias \in Secret
    BY <1>1, <1>2, <1>4, <2>1, <2>2 DEF SeenOK
  <2>3. CASE p.alias \in ShardOf(Secret)
    <3>1. StandsFor(seen[1][p.var], p.alias) /\ StandsFor(seen[1][q.var], p.alias)
      BY <1>2, <1>4, <2>1 DEF StandsFor
    <3>2. QED
      BY <1>1, <1>2, <2>1, <2>3, <3>1 DEF SeenAgain
  <2>4. QED
    BY <1>2, <2>2, <2>3 DEF Alias
<1>5. QED
  BY <1>2, <1>3, <1>4

(* What _record_base_url_restores has for the key a line routes is that     *)
(* line.                                                                   *)
LEMMA WinnersRecord ==
    ASSUME StoresInv, AgainInv, pc \in Before, NEW s \in PlannedLines,
           NEW k, k = <<Winner(s).alias, Winner(s).var>>
    PROVE  /\ k \in DOMAIN PlannedRecords
           /\ PlannedRecords[k] = [slot |-> s, original |-> seen[2][s]]
<1>1. plan \in Seq(Planned) /\ s \in Slot
  BY DEF StoresInv, StoresOK, LockingOK, LockPlanned, PlannedLines, ToSet
<1>2. PICK w \in ToSet(plan) : w = Winner(s)
  BY <1>1, WinnerIsPlanned
<1>3. \A q \in ToSet(plan) : q.alias = w.alias => q.var = w.var
  BY PlannedRows
<1>4. PICK c \in ToSet(plan) : c.alias = w.alias /\ c.var = w.var
                               /\ c = CHOOSE p \in ToSet(plan) : <<p.alias, p.var>> = k
  BY <1>2
<1>5. \A t \in PlannedLines : Winner(t) \in ToSet(plan) /\ SlotOf[Winner(t).var] = t
  BY <1>1, WinnerIsPlanned
<1>6. \A t \in PlannedLines : Winner(t).alias = w.alias => t = s
  BY <1>2, <1>3, <1>5
<1> DEFINE mine == {t \in PlannedLines : Winner(t) = c}
           same == {t \in PlannedLines : Winner(t).alias = c.alias}
           slot == IF mine # {} THEN CHOOSE t \in mine : TRUE
                   ELSE IF same # {} THEN CHOOSE t \in same : TRUE ELSE None
<1>7. s \in same /\ \A t \in mine \cup same : t = s
  BY <1>2, <1>4, <1>6
<1>8. RestoreRecord(c) = [slot |-> slot, original |-> IF slot = None THEN None ELSE seen[2][slot]]
  BY DEF RestoreRecord
<1> HIDE DEF mine, same
<1>9. slot = s
  BY <1>7
<1> HIDE DEF slot
<1>10. s # None
  BY <1>1
<1>11. RestoreRecord(c) = [slot |-> s, original |-> seen[2][s]]
  BY <1>8, <1>9, <1>10
<1>12. k \in DOMAIN PlannedRecords
  <2>1. PICK i \in DOMAIN plan : w = plan[i]
    BY <1>2 DEF ToSet
  <2>2. QED
    BY <1>2, <2>1 DEF PlannedRecords
<1>13. PlannedRecords[k] = RestoreRecord(c)
  BY <1>4, <1>12 DEF PlannedRecords
<1>14. QED
  BY <1>11, <1>12, <1>13

(* The plan, and so what it will route, is the same while it is.           *)
LEMMA WinnersStay ==
    ASSUME UNCHANGED <<plan, keys_only>>
    PROVE  PlannedLines' = PlannedLines /\ \A s : (Winner(s))' = Winner(s)
BY DEF PlannedLines, Winner

(* record_base_url_restores: no line routes, and what one will has a record. *)
LEMMA RecordLines ==
    ASSUME StoresInv, AgainInv, LinesInv, RecordBaseUrlRestores
    PROVE  LinesInv'
<1>1. /\ pc = "record" /\ pc' \in {"rewrite", "unwind"}
      /\ UNCHANGED <<line, wanted_line, file, plan, seen, keys_only>>
      /\ RecordRestores(file, PlannedRecords)
  BY DEF RecordBaseUrlRestores, files, user
<1>r. PICK records : records = PlannedRecords
  OBVIOUS
<1> DEFINE R(r) == IF r.env = file /\ <<r.alias, r.var>> \in DOMAIN records
                   THEN [r EXCEPT !.restore = records[<<r.alias, r.var>>]]
                   ELSE r
<1>2. enrolled' = {R(r) : r \in enrolled}
  BY <1>1, <1>r DEF RecordRestores
<1>3. ASSUME NEW r \in enrolled
      PROVE  /\ R(r).alias = r.alias /\ R(r).var = r.var /\ R(r).env = r.env
             /\ r.env # file => R(r) = r
             /\ r.env = file /\ <<r.alias, r.var>> \in DOMAIN records =>
                    R(r).restore = records[<<r.alias, r.var>>]
  <2>1. r \in Row
    BY DEF StoresInv, StoresOK
  <2>2. QED
    BY <2>1 DEF Row
<1> HIDE DEF R
<1>4. ASSUME NEW q \in enrolled'
      PROVE  \E r \in enrolled : /\ q.alias = r.alias /\ q.var = r.var /\ q.env = r.env
                                 /\ r.env # file => q = r
                                 /\ r.env = file /\ <<r.alias, r.var>> \in DOMAIN records =>
                                        q.restore = records[<<r.alias, r.var>>]
  BY <1>2, <1>3
<1>5. ASSUME NEW p \in enrolled', NEW q \in enrolled', p.alias = q.alias, p.env = q.env
      PROVE  p.var = q.var
  <2>1. PICK r \in enrolled : p.alias = r.alias /\ p.var = r.var /\ p.env = r.env
    BY <1>4
  <2>2. PICK t \in enrolled : q.alias = t.alias /\ q.var = t.var /\ q.env = t.env
    BY <1>4
  <2>3. QED
    BY <1>5, <2>1, <2>2 DEF LinesInv, LinesOK, OneVarEach
<1>6. LinesOwned'
  BY <1>1 DEF LinesInv, LinesOK, LinesOwned
<1>7. \A s \in Slot : line[file][s] \notin Route
  BY <1>1 DEF LinesInv, LockingLines, Before
<1>8. RoutesRemember'
  <2> SUFFICES ASSUME NEW e \in Env, NEW s \in Slot, NEW q \in enrolled', q.env = e,
                      line[e][s] = [to |-> q.alias]
               PROVE  q.restore = [slot |-> s, original |-> wanted_line[e][s]]
    BY <1>1 DEF RoutesRemember
  <2>1. PICK r \in enrolled : q.alias = r.alias /\ q.env = r.env /\ (r.env # file => q = r)
    BY <1>4
  <2>2. r.alias \in Alias
    BY DEF StoresInv, StoresOK, Row
  <2>3. e # file
    BY <1>7, <2>1, <2>2 DEF Route
  <2>4. QED
    BY <2>1, <2>3 DEF LinesInv, LinesOK, RoutesRemember
<1>9. ASSUME NEW s \in PlannedLines, NEW q \in enrolled', q.env = file, q.alias = Winner(s).alias
      PROVE  q.restore = [slot |-> s, original |-> seen[2][s]]
  <2>1. PICK r \in enrolled : /\ q.alias = r.alias /\ q.env = r.env
                              /\ r.env = file /\ <<r.alias, r.var>> \in DOMAIN records =>
                                     q.restore = records[<<r.alias, r.var>>]
    BY <1>4
  <2>2. PICK w \in ToSet(plan) : w = Winner(s)
    BY WinnerIsPlanned DEF StoresInv, StoresOK
  <2>3. HasRow(w.alias, w.var, file)
    BY <1>1, PlannedRows DEF Before
  <2>4. r.var = w.var
    BY <1>9, <2>1, <2>2, <2>3 DEF HasRow, LinesInv, LinesOK, OneVarEach
  <2>5. PICK k : k = <<w.alias, w.var>>
    OBVIOUS
  <2>6. k \in DOMAIN records /\ records[k] = [slot |-> s, original |-> seen[2][s]]
    BY <1>1, <1>r, <2>2, <2>5, WinnersRecord DEF Before
  <2>7. k = <<r.alias, r.var>> /\ r.env = file
    BY <1>9, <2>1, <2>2, <2>4, <2>5
  <2>8. QED
    BY <2>1, <2>6, <2>7
<1>10. LockingLines'
  <2>1. PlannedLines' = PlannedLines /\ \A s : (Winner(s))' = Winner(s)
    BY <1>1, WinnersStay
  <2>2. QED
    BY <1>1, <1>7, <1>9, <2>1 DEF LockingLines
<1>11. RestoringLines'
  BY <1>1 DEF RestoringLines
<1>12. QED
  BY <1>5, <1>6, <1>8, <1>10, <1>11 DEF LinesInv, LinesOK, OneVarEach

(* _batch_rewrite: the line was the user's, and the rows say so.           *)
LEMMA RewriteLines ==
    ASSUME StoresInv, AgainInv, LinesInv, Rewrite
    PROVE  LinesInv'
<1>1. /\ pc = "rewrite" /\ pc' = "idle" /\ UNCHANGED <<enrolled, wanted_line>>
      /\ seen = <<env[file], line[file]>>
  BY DEF Rewrite, Stop, rows, user
<1>2. PICK f \in Env : f = file
  BY <1>1 DEF StoresInv, LockingOK, SeenOK, Before
<1>3. seen[2] = line[f]
  BY <1>1, <1>2
<1>4. \A e \in Env, s \in Slot : line'[e][s] =
         IF e = f THEN IF s \in PlannedLines THEN [to |-> Winner(s).alias] ELSE line[f][s]
                  ELSE line[e][s]
  BY <1>2 DEF Rewrite, StoresInv, StoresOK
<1>5. \A s \in Slot : line[f][s] \notin Route
  BY <1>1, <1>2 DEF LinesInv, LockingLines, Before
<1>6. ASSUME NEW s \in PlannedLines PROVE [to |-> Winner(s).alias] \in Route
  <2>1. Winner(s) \in ToSet(plan)
    BY WinnerIsPlanned DEF StoresInv, StoresOK
  <2>2. QED
    BY <1>1, <2>1, PlannedRows DEF Before, Route
<1>7. OneVarEach'
  BY <1>1 DEF LinesInv, LinesOK, OneVarEach
<1>8. LinesOwned'
  <2>1. ASSUME NEW e \in Env, NEW s \in Slot, line'[e][s] \notin Route
        PROVE  line'[e][s] = wanted_line[e][s]
    <3>1. ~(e = f /\ s \in PlannedLines)
      BY <1>4, <1>6, <2>1
    <3>2. line'[e][s] = line[e][s]
      BY <1>4, <3>1
    <3>3. QED
      BY <2>1, <3>2 DEF LinesInv, LinesOK, LinesOwned
  <2>2. QED
    BY <1>1, <2>1 DEF LinesInv, LinesOK, LinesOwned
<1>9. RoutesRemember'
  <2> SUFFICES ASSUME NEW e \in Env, NEW s \in Slot, NEW r \in enrolled, r.env = e,
                      line'[e][s] = [to |-> r.alias]
               PROVE  r.restore = [slot |-> s, original |-> wanted_line[e][s]]
    BY <1>1 DEF RoutesRemember
  <2>1. CASE e = f /\ s \in PlannedLines
    <3>1. r.alias = Winner(s).alias
      <4>1. PICK a, b : a = r.alias /\ b = Winner(s).alias
        OBVIOUS
      <4>2. [to |-> a] = [to |-> b]
        BY <1>4, <2>1, <4>1
      <4>3. [to |-> a].to = a /\ [to |-> b].to = b
        OBVIOUS
      <4>4. QED
        BY <4>1, <4>2, <4>3
    <3>2. r.restore = [slot |-> s, original |-> seen[2][s]]
      BY <1>1, <1>2, <2>1, <3>1 DEF LinesInv, LockingLines
    <3>3. line[f][s] = wanted_line[f][s]
      BY <1>5 DEF LinesInv, LinesOK, LinesOwned
    <3>4. QED
      BY <1>3, <2>1, <3>2, <3>3
  <2>2. CASE ~(e = f /\ s \in PlannedLines)
    <3>1. line[e][s] = [to |-> r.alias]
      BY <1>4, <2>2
    <3>2. QED
      BY <3>1 DEF LinesInv, LinesOK, RoutesRemember
  <2>3. QED
    BY <2>1, <2>2
<1>10. QED
  BY <1>1, <1>7, <1>8, <1>9 DEF LinesInv, LinesOK, LockingLines, RestoringLines, Before

(* unlock gives a line back what the row of the key it routes remembers.   *)
LEMMA RestoreLines ==
    ASSUME StoresInv, LinesInv, Restore
    PROVE  LinesInv'
<1>1. pc = "restore" /\ pc' = "forget" /\ UNCHANGED <<enrolled, wanted_line>>
  BY DEF Restore, rows, user
<1>2. PICK f \in Env : f = file
  BY <1>1 DEF StoresInv, RestoringOK
<1> DEFINE Back(s) == IF \E p \in ToSet(plan) : Touches(p, s)
                      THEN GivenBack(CHOOSE p \in ToSet(plan) : Touches(p, s), s)
                      ELSE line[f][s]
<1>3. \A e \in Env, s \in Slot : line'[e][s] = IF e = f THEN Back(s) ELSE line[e][s]
  BY <1>2 DEF Restore, StoresInv, StoresOK
<1>4. ASSUME NEW s \in Slot, \E p \in ToSet(plan) : Touches(p, s)
      PROVE  Back(s) = wanted_line[f][s]
  <2>1. PICK p \in ToSet(plan) : Touches(p, s) /\ p = CHOOSE q \in ToSet(plan) : Touches(q, s)
    BY <1>4
  <2>2. Back(s) = GivenBack(p, s)
    BY <1>4, <2>1
  <2>3. line[f][s] = [to |-> p.alias]
    BY <1>2, <2>1 DEF Touches
  <2>4. PICK r \in enrolled : r.alias = p.alias /\ r.env = f /\ r.restore = p.restore
    BY <1>1, <1>2 DEF LinesInv, RestoringLines
  <2>5. p.restore = [slot |-> s, original |-> wanted_line[f][s]]
    BY <2>3, <2>4 DEF LinesInv, LinesOK, RoutesRemember
  <2>6. p.restore \in Record \cup {None} /\ wanted_line[f][s] \in {None, Own}
    BY <1>1 DEF StoresInv, RestoringOK, RestorePlanned, LinesInv, LinesOK, LinesOwned
  <2>7. [slot |-> s, original |-> wanted_line[f][s]] \in Record
    BY <2>6 DEF Record
  <2>8. p.restore # None
    BY <2>5, <2>7
  <2>9. QED
    BY <2>2, <2>5, <2>8 DEF GivenBack
<1>5. ASSUME NEW s \in Slot, ~\E p \in ToSet(plan) : Touches(p, s) PROVE Back(s) = line[f][s]
  BY <1>5
<1> HIDE DEF Back
<1>6. \A s \in Slot : Back(s) = line[f][s] \/ Back(s) = wanted_line[f][s]
  BY <1>4, <1>5
<1>7. \A e \in Env, s \in Slot : line'[e][s] = line[e][s] \/ line'[e][s] = wanted_line[e][s]
  BY <1>3, <1>6
<1>8. OneVarEach'
  BY <1>1 DEF LinesInv, LinesOK, OneVarEach
<1>9. LinesOwned'
  BY <1>1, <1>7 DEF LinesInv, LinesOK, LinesOwned
<1>10. RoutesRemember'
  <2> SUFFICES ASSUME NEW e \in Env, NEW s \in Slot, NEW r \in enrolled, r.env = e,
                      line'[e][s] = [to |-> r.alias]
               PROVE  r.restore = [slot |-> s, original |-> wanted_line[e][s]]
    BY <1>1 DEF RoutesRemember
  <2>1. [to |-> r.alias] \in Route
    BY DEF Route, Row, StoresInv, StoresOK
  <2>2. wanted_line[e][s] \notin Route
    BY DEF LinesInv, LinesOK, LinesOwned
  <2>3. line[e][s] = [to |-> r.alias]
    BY <1>7, <2>1, <2>2
  <2>4. QED
    BY <2>3 DEF LinesInv, LinesOK, RoutesRemember
<1>11. QED
  BY <1>1, <1>8, <1>9, <1>10 DEF LinesInv, LinesOK, LockingLines, RestoringLines, Before

(* The user writes a line, or none: what he writes is no route.            *)
LEMMA EditsLines ==
    ASSUME StoresInv, LinesInv, UNCHANGED <<enrolled, command>>,
           wanted_line' \in [Env -> [Slot -> {None, Own}]],
           \A e \in Env, s \in Slot :
              \/ line'[e][s] = line[e][s] /\ wanted_line'[e][s] = wanted_line[e][s]
              \/ line'[e][s] \in {None, Own} /\ wanted_line'[e][s] = line'[e][s]
    PROVE  LinesInv'
<1>1. UNCHANGED <<pc, file, plan, seen, keys_only>>
  BY DEF command
<1>2. \A e \in Env, s \in Slot :
         line'[e][s] \in Route => line'[e][s] = line[e][s] /\ wanted_line'[e][s] = wanted_line[e][s]
  OBVIOUS
<1>3. OneVarEach' /\ LinesOwned'
  BY DEF LinesInv, LinesOK, OneVarEach, LinesOwned
<1>4. RoutesRemember'
  <2> SUFFICES ASSUME NEW e \in Env, NEW s \in Slot, NEW r \in enrolled, r.env = e,
                      line'[e][s] = [to |-> r.alias]
               PROVE  r.restore = [slot |-> s, original |-> wanted_line'[e][s]]
    BY DEF RoutesRemember
  <2>1. [to |-> r.alias] \in Route
    BY DEF Route, Row, StoresInv, StoresOK
  <2>2. line[e][s] = [to |-> r.alias] /\ wanted_line'[e][s] = wanted_line[e][s]
    BY <1>2, <2>1
  <2>3. QED
    BY <2>2 DEF LinesInv, LinesOK, RoutesRemember
<1>5. LockingLines'
  <2>1. ASSUME pc \in Before, NEW s \in Slot PROVE line'[file][s] \notin Route
    <3>1. file \in Env /\ line[file][s] \notin Route
      BY <2>1 DEF StoresInv, LockingOK, SeenOK, LinesInv, LockingLines
    <3>2. QED
      BY <1>2, <3>1
  <2>2. PlannedLines' = PlannedLines /\ \A s : (Winner(s))' = Winner(s)
    BY <1>1, WinnersStay
  <2>3. QED
    BY <1>1, <2>1, <2>2 DEF LinesInv, LockingLines
<1>6. RestoringLines'
  BY <1>1 DEF LinesInv, RestoringLines
<1>7. QED
  BY <1>3, <1>4, <1>5, <1>6 DEF LinesInv, LinesOK

(* At first no line routes.                                                *)
LEMMA LinesInit == Init => LinesInv
<1> SUFFICES ASSUME Init PROVE LinesInv
  OBVIOUS
<1>1. pc = "idle" /\ enrolled = {}
  BY DEF Init
<1>2. LinesOwned
  BY DEF Init, LinesOwned
<1>3. OneVarEach /\ RoutesRemember
  BY <1>1 DEF OneVarEach, RoutesRemember
<1>4. QED
  BY <1>1, <1>2, <1>3 DEF LinesInv, LinesOK, LockingLines, RestoringLines, Before

(* Every step keeps it.                                                    *)
LEMMA LinesStep ==
    ASSUME StoresInv, AgainInv, LinesInv, [Next]_vars
    PROVE  LinesInv'
<1>w. wanted_line \in [Env -> [Slot -> {None, Own}]]
  BY DEF LinesInv, LinesOK, LinesOwned
<1>1. CASE \E v \in Var : Enroll(v)
  BY <1>1, EnrollLines
<1>2. CASE RecordBaseUrlRestores \/ Rewrite \/ Restore
  BY <1>2, RecordLines, RewriteLines, RestoreLines
<1>3. CASE \/ \E e \in Env, v \in Var, s \in Secret : PutKey(e, v, s)
           \/ \E e \in Env, v \in Var : DeleteKey(e, v)
           \/ UNCHANGED vars
  <2>1. UNCHANGED <<line, wanted_line, enrolled, command>>
    BY <1>3 DEF PutKey, DeleteKey, Edit, vars, files, rows, user
  <2>2. QED
    BY <1>w, <2>1, EditsLines
<1>4. ASSUME NEW e \in Env, NEW s \in Slot, NEW x \in {None, Own}, PutLine(e, s, x) PROVE LinesInv'
  <2>1. /\ UNCHANGED <<enrolled, command>> /\ line' = [line EXCEPT ![e][s] = x]
        /\ wanted_line' = [wanted_line EXCEPT ![e][s] = x]
    BY <1>4 DEF PutLine, Edit, rows
  <2>2. wanted_line' \in [Env -> [Slot -> {None, Own}]]
    BY <1>w, <2>1
  <2>3. \A f \in Env, t \in Slot :
           /\ line'[f][t] = IF f = e /\ t = s THEN x ELSE line[f][t]
           /\ wanted_line'[f][t] = IF f = e /\ t = s THEN x ELSE wanted_line[f][t]
    BY <1>w, <2>1 DEF StoresInv, StoresOK
  <2>4. QED
    BY <2>1, <2>2, <2>3, EditsLines
<1>5. CASE \E v \in Var : EnrollFails(v)
  BY <1>5, CommandsKeepLines
<1>6. QED
  BY <1>1, <1>2, <1>3, <1>4, <1>5, CommandsKeepLines DEF Next

(* Where keys have one name in a file and unlock is not raced, a *_BASE_URL  *)
(* line that sends a locked key's traffic to the proxy is one whose owner's *)
(* value a row of the key remembers, whatever failed, was killed or edited  *)
(* (_record_base_url_restores before _batch_rewrite, _line_actions).        *)
THEOREM RoutesRememberOwners == ~TwoNames /\ ~EditsRace => (Spec => []RouteRemembersOwner)
<1> SUFFICES ASSUME ~TwoNames, ~EditsRace PROVE Spec => []RouteRemembersOwner
  OBVIOUS
<1>1. StoresInv /\ AgainInv /\ LinesInv /\ [Next]_vars => StoresInv' /\ AgainInv' /\ LinesInv'
  BY StoresInvStep, AgainStep, LinesStep
<1>2. StoresInv /\ LinesInv => RouteRemembersOwner
  <2> SUFFICES ASSUME StoresInv, LinesInv, NEW e \in Env, NEW s \in Slot, NEW v \in Var,
                      wanted[e][v] # None, env[e][v] # wanted[e][v],
                      line[e][s] = [to |-> wanted[e][v]]
               PROVE  \E r \in RowsOf(wanted[e][v], e) :
                         r.restore = [slot |-> s, original |-> wanted_line[e][s]]
    BY DEF RouteRemembersOwner
  <2>1. HasRow(wanted[e][v], v, e)
    BY DEF StoresInv, DataOK, KeysSafe, Sealed
  <2>2. QED
    BY <2>1 DEF HasRow, LinesInv, LinesOK, RoutesRemember, RowsOf
<1>3. QED
  BY <1>1, <1>2, StoresInvInit, AgainInit, LinesInit, PTL DEF Spec

-----------------------------------------------------------------------------
(* The entries of openclaw.json (OpenClaw).  A record, an entry that calls  *)
(* the provider directly, and the file a rollback goes back to are each as  *)
(* the entry's owner wrote it last.                                         *)

Direct(e) == e # Nothing /\ ~Routed(e)

Affected == PlannedProviders(planned_keys)

Recorded(p) == \E k \in KeysOf(p) : oc_row[k] = RecordOf(owner[p])

\* What a file says of p is what its owner wrote, or a row says it.
Faithful(content, p) ==
    /\ Direct(content[p]) => Owned(p) /\ RecordOf(content[p]) = RecordOf(owner[p])
    /\ p \notin unrestored /\ Owned(p) => Direct(content[p]) \/ Recorded(p)

TrueRecord(r, k) ==
    r \in OcRecord => Owned(ProviderOf[k]) /\ r = RecordOf(owner[ProviderOf[k]])

FilesTyped ==
    /\ entry \in [Provider -> OcEntry \cup {Nothing}]
    /\ owner \in [Provider -> OcEntry \cup {Nothing}]
    /\ oc_row \in [OcKey -> {Nothing, Bare} \cup OcRecord]
    /\ unrestored \subseteq Provider
    /\ revisions \in 0..MaxRevisions

EntriesOK ==
    /\ \A p \in Provider : Faithful(entry, p)
    /\ \A k \in OcKey : TrueRecord(oc_row[k], k)
    /\ layout # "present" => \A p \in Provider : entry[p] = Nothing

\* The command works through its own keys.
PlanOK ==
    /\ planned_keys \in Seq(OcKey)
    /\ stage \in {"captured", "write", "undo", "unlocked", "restore", "caches"} =>
         queue \in Seq(OcKey) /\ ToSet(queue) \subseteq ToSet(planned_keys)
    /\ stage \in {"captured", "unlocked"} => queue = planned_keys

\* lock rewrites an entry once a row has its record.
CapturedOK ==
    stage \in {"captured", "write"} =>
        \A p \in Affected \ unrestored : Owned(p) => Recorded(p)

\* Going back to the snapshot loses nothing.
SnapshotOK ==
    stage \in {"write", "rollback", "undo", "restore", "unroll"} =>
        /\ snapshot.file \in [Provider -> OcEntry \cup {Nothing}]
        /\ \A p \in Provider : p \in Affected \/ ~changed => Faithful(snapshot.file, p)
        /\ layout # "present" => \A p \in Provider : snapshot.file[p] = Nothing
        /\ stage \in {"rollback", "unroll"} => ~changed
        /\ stage \in {"write", "rollback", "undo"} /\ snapshot.was # "present"
             => \A p \in Provider : snapshot.file[p] = Nothing

\* unlock writes what the rows it deleted said.
RecordsOK ==
    /\ stage = "unlocked" =>
         \A k \in ToSet(planned_keys) : snapshot[k] \in {Bare} \cup OcRecord /\ TrueRecord(snapshot[k], k)
    /\ stage = "restore" =>
         /\ \A k \in ToSet(planned_keys) :
              snapshot.records[k] \in {Bare} \cup OcRecord /\ TrueRecord(snapshot.records[k], k)
         /\ layout \in {"present", "corrupt"}

\* What unlock counts as restored is.
RestoredOK ==
    /\ stage \in {"idle", "captured", "unlocked"} => providers_set = {}
    /\ stage \in {"restore", "caches"} =>
         \A p \in providers_set : p \in Affected /\ p \in Provider /\ Direct(entry[p])

OpenClawInv == FilesTyped /\ EntriesOK /\ PlanOK /\ CapturedOK /\ SnapshotOK /\ RecordsOK /\ RestoredOK

(* The commands go through sequences of keys. *)
LEMMA KeySequences ==
    \A S \in SetToAllKPermutations(OcKey) : S \in Seq(OcKey)
<1>1. SUFFICES ASSUME NEW T \in SUBSET OcKey, NEW S \in SetToSeqs(T)
               PROVE  S \in Seq(OcKey)
  BY DEF SetToAllKPermutations
<1>2. Cardinality(T) \in Nat
  BY OpenClawAssumption, FS_Subset, FS_CardinalityType
<1>3. S \in [1..Cardinality(T) -> OcKey]
  BY DEF SetToSeqs
<1>4. PICK n \in Nat : S \in [1..n -> OcKey]
  BY <1>2, <1>3
<1>5. [1..n -> OcKey] \in {[1..m -> OcKey] : m \in Nat}
  OBVIOUS
<1>6. QED
  BY <1>4, <1>5, SeqDef

(* The head of a queue is one of its keys, the rest are the others. *)
LEMMA QueueHead ==
    ASSUME NEW q \in Seq(OcKey), q # << >>
    PROVE  /\ Head(q) \in OcKey /\ Head(q) \in ToSet(q)
           /\ Tail(q) \in Seq(OcKey) /\ ToSet(Tail(q)) \subseteq ToSet(q)
<1>1. Len(q) \in Nat \ {0} /\ DOMAIN q = 1..Len(q) /\ Head(q) = q[1]
  OBVIOUS
<1>2. \A i \in DOMAIN Tail(q) : i + 1 \in DOMAIN q /\ Tail(q)[i] = q[i + 1]
  BY <1>1
<1>3. QED
  BY <1>1, <1>2 DEF ToSet

(* The providers of the command are those of its keys. *)
LEMMA PlannedKeys ==
    ASSUME NEW S \in Seq(OcKey)
    PROVE  /\ ToSet(S) \subseteq OcKey
           /\ PlannedProviders(S) = {ProviderOf[k] : k \in ToSet(S)}
           /\ PlannedProviders(S) \subseteq Provider
BY OpenClawAssumption DEF ToSet, PlannedProviders

(* A record is that of an entry with it. *)
LEMMA Records ==
    /\ \A e \in OcEntry : RecordOf(e) \in OcRecord
    /\ \A r \in OcRecord, k \in OcKey :
         RecordOf(Original(r, k)) = r
    /\ Bare \notin OcRecord
BY OpenClawAssumption DEF OcEntry, OcRecord, RecordOf, Original, Bare

(* The steps, with the sequences of keys typed. *)
LEMMA OcSteps ==
    ASSUME OcNext
    PROVE  \/ \E S \in Seq(OcKey) : (\E adopt \in BOOLEAN : LockKeys(S, adopt)) \/ UnlockKeys(S)
           \/ ApplyLock \/ WriteProvider \/ WriteProviderFails \/ Rollback
           \/ InterruptWrite \/ UndoOwnProviderWrites \/ EndOfWrites \/ Neutralize
           \/ Scrub \/ ApplyUnlock \/ RestoreProvider \/ RestoreProviderFails
           \/ Unroll \/ EndOfRestores \/ RestoreCaches \/ OcDie
           \/ \E p \in Provider : CacheKey(p) \/ \E e \in OthersEntry(p) : WriteEntry(p, e)
<1>1. CASE \E S \in SetToAllKPermutations(OcKey) \ {<< >>} :
             (\E adopt \in BOOLEAN : LockKeys(S, adopt)) \/ UnlockKeys(S)
  <2>1. PICK S \in SetToAllKPermutations(OcKey) :
          (\E adopt \in BOOLEAN : LockKeys(S, adopt)) \/ UnlockKeys(S)
    BY <1>1
  <2>2. S \in Seq(OcKey)
    BY <2>1, KeySequences
  <2>3. QED
    BY <2>1, <2>2
<1>2. QED
  BY <1>1 DEF OcNext

(* What unlock writes is nobody's proxy. *)
LEMMA OriginalsDirect ==
    \A r \in OcRecord, k \in OcKey :
       Original(r, k) # Nothing /\ ~Routed(Original(r, k)) /\ RecordOf(Original(r, k)) = r
<1> TAKE r \in OcRecord, k \in OcKey
<1>1. Original(r, k) \in OcEntry
  BY OpenClawAssumption DEF Original, OcEntry, OcRecord, Secrets
<1>2. QED
  BY <1>1, Records, NothingAssumption DEF Routed, Original

(* What rows and owners say of an entry changes only with them. *)
LEMMA RowsSame ==
    ASSUME UNCHANGED <<oc_row, owner>>
    PROVE  \A p : (Recorded(p)' <=> Recorded(p)) /\ (Owned(p)' <=> Owned(p))
BY DEF Recorded, Owned, Routed

(* A step that leaves the files and the rows alone keeps them. *)
LEMMA FilesSame ==
    ASSUME EntriesOK, UNCHANGED <<layout, entry, oc_row, owner, unrestored>>
    PROVE  EntriesOK'
<1>1. \A p : (Recorded(p)' <=> Recorded(p)) /\ (Owned(p)' <=> Owned(p))
  BY RowsSame
<1>2. QED
  BY <1>1 DEF EntriesOK, Faithful, TrueRecord

(* One entry is replaced by a faithful one. *)
LEMMA OneEntry ==
    ASSUME FilesTyped, EntriesOK, NEW q \in Provider, NEW e,
           entry' = [entry EXCEPT ![q] = e], UNCHANGED <<oc_row, owner, unrestored>>,
           layout' = "present" \/ (layout' = layout /\ e = Nothing),
           Direct(e) => Owned(q) /\ RecordOf(e) = RecordOf(owner[q]),
           q \notin unrestored /\ Owned(q) => Direct(e) \/ Recorded(q)
    PROVE  EntriesOK'
<1>1. \A p : (Recorded(p)' <=> Recorded(p)) /\ (Owned(p)' <=> Owned(p))
  BY RowsSame
<1>2. entry'[q] = e /\ \A p \in Provider \ {q} : entry'[p] = entry[p]
  BY DEF FilesTyped
<1>3. \A p \in Provider : Faithful(entry, p)'
  <2>1. Faithful(entry, q)'
    BY <1>1, <1>2 DEF Faithful
  <2>2. \A p \in Provider \ {q} : Faithful(entry, p)'
    BY <1>1, <1>2 DEF EntriesOK, Faithful
  <2>3. QED
    BY <2>1, <2>2
<1>4. \A k \in OcKey : TrueRecord(oc_row[k], k)'
  BY <1>1 DEF EntriesOK, TrueRecord
<1>5. layout' # "present" => \A p \in Provider : entry'[p] = Nothing
  BY <1>2 DEF EntriesOK
<1>6. QED
  BY <1>3, <1>4, <1>5 DEF EntriesOK

(* The file goes back to a faithful one. *)
LEMMA WentBack ==
    ASSUME EntriesOK, NEW f, entry' = f, \A p \in Provider : Faithful(f, p),
           UNCHANGED <<oc_row, owner, unrestored>>,
           layout' # "present" => \A p \in Provider : f[p] = Nothing
    PROVE  EntriesOK'
<1>1. \A p : (Recorded(p)' <=> Recorded(p)) /\ (Owned(p)' <=> Owned(p))
  BY RowsSame
<1>2. QED
  BY <1>1 DEF EntriesOK, Faithful, TrueRecord

(* What lock records is the owner's entry. *)
LEMMA CapturedTrue ==
    ASSUME FilesTyped, EntriesOK, NEW k \in OcKey
    PROVE  /\ Captured(k) \in {Bare} \cup OcRecord
           /\ TrueRecord(Captured(k), k)
           /\ Direct(entry[ProviderOf[k]]) => Captured(k) = RecordOf(owner[ProviderOf[k]])
           /\ oc_row[k] \in OcRecord => Captured(k) = oc_row[k]
<1> DEFINE p == ProviderOf[k]
           r == IF oc_row[k] \in OcRecord THEN oc_row[k] ELSE Bare
<1>1. p \in Provider
  BY OpenClawAssumption
<1>2. Direct(entry[p]) => /\ layout = "present" /\ Owned(p) /\ RecordOf(entry[p]) = RecordOf(owner[p])
                          /\ entry[p] \in OcEntry
  BY <1>1 DEF EntriesOK, Faithful, FilesTyped, Direct
<1>3. TrueRecord(oc_row[k], k)
  BY DEF EntriesOK
<1>4. CASE Direct(entry[p])
  <2>1. Captured(k) = RecordOf(entry[p])
    BY <1>2, <1>4 DEF Captured, Direct
  <2>2. Captured(k) = RecordOf(owner[p]) /\ Captured(k) \in OcRecord
    BY <1>2, <1>4, <2>1, Records
  <2>3. QED
    BY <1>2, <1>3, <1>4, <2>2 DEF TrueRecord
<1>5. CASE ~Direct(entry[p])
  <2>1. Captured(k) = r
    BY <1>5 DEF Captured, Direct
  <2>2. QED
    BY <1>3, <1>5, <2>1, Records DEF TrueRecord
<1>6. QED
  BY <1>4, <1>5

(* Locking keys keeps every record. *)
LEMMA LockKeepsRecords ==
    ASSUME FilesTyped, EntriesOK, NEW S, NEW adopt, LockKeys(S, adopt), NEW p \in Provider, Owned(p),
           Recorded(p) \/ (Direct(entry[p]) /\ p \in {ProviderOf[k] : k \in ToSet(S) \cap OcKey})
    PROVE  Recorded(p)'
<1>1. owner' = owner /\ \A k \in OcKey : oc_row'[k] = IF k \in ToSet(S) THEN Captured(k) ELSE oc_row[k]
  BY DEF LockKeys, ocUser
<1>2. CASE Recorded(p)
  <2>1. PICK k \in KeysOf(p) : oc_row[k] = RecordOf(owner[p])
    BY <1>2 DEF Recorded
  <2>2. k \in OcKey /\ oc_row[k] \in OcRecord
    BY <2>1, Records DEF KeysOf, Owned, FilesTyped
  <2>3. oc_row'[k] = RecordOf(owner[p])
    BY <1>1, <2>1, <2>2, CapturedTrue
  <2>4. QED
    BY <1>1, <2>1, <2>3 DEF Recorded
<1>3. CASE Direct(entry[p]) /\ p \in {ProviderOf[k] : k \in ToSet(S) \cap OcKey}
  <2>1. PICK k \in OcKey : k \in ToSet(S) /\ p = ProviderOf[k]
    BY <1>3
  <2>2. oc_row'[k] = RecordOf(owner[p])
    BY <1>1, <1>3, <2>1, CapturedTrue
  <2>3. QED
    BY <1>1, <2>1, <2>2 DEF Recorded, KeysOf
<1>4. QED
  BY <1>2, <1>3

(* Every step keeps the types of the files. *)
LEMMA FilesTypedStep ==
    ASSUME OpenClawInv, [OcNext]_ocVars, ~RollbackRaces
    PROVE  FilesTyped'
<1>1. ASSUME NEW S \in Seq(OcKey), NEW adopt \in BOOLEAN, LockKeys(S, adopt) PROVE FilesTyped'
  <2>1. \A k \in OcKey : Captured(k) \in {Bare} \cup OcRecord
    BY CapturedTrue DEF OpenClawInv
  <2>2. oc_row' \in [OcKey -> {Nothing, Bare} \cup OcRecord]
    BY <1>1, <2>1 DEF LockKeys, OpenClawInv, FilesTyped
  <2>3. QED
    BY <1>1, <2>2 DEF LockKeys, ocUser, OpenClawInv, FilesTyped
<1>2. ASSUME NEW S \in Seq(OcKey), UnlockKeys(S) PROVE FilesTyped'
  <2>1. oc_row' \in [OcKey -> {Nothing, Bare} \cup OcRecord]
    BY <1>2 DEF UnlockKeys, OpenClawInv, FilesTyped
  <2>2. unrestored' \subseteq Provider
    BY <1>2, PlannedKeys, OpenClawAssumption DEF UnlockKeys, OpenClawInv, FilesTyped
  <2>3. QED
    BY <1>2, <2>1, <2>2 DEF UnlockKeys, OpenClawInv, FilesTyped
<1>3. CASE ApplyLock
  BY <1>3 DEF ApplyLock, ocUser, OpenClawInv, FilesTyped
<1>4. CASE WriteProvider
  <2>1. /\ queue \in Seq(OcKey) /\ queue # << >> /\ planned_keys \in Seq(OcKey)
        /\ ToSet(queue) \subseteq ToSet(planned_keys)
    BY <1>4 DEF WriteProvider, OpenClawInv, PlanOK
  <2>2. PICK k \in OcKey, p \in Provider : k = Head(queue) /\ p = ProviderOf[k]
    BY <2>1, QueueHead, OpenClawAssumption
  <2>3. p \in Affected /\ k \in ToSet(planned_keys)
    BY <2>1, <2>2, QueueHead, PlannedKeys DEF Affected
  <2>4. Wired(p, k) \in OcEntry
    BY OpenClawAssumption DEF Wired, OcEntry, Half, OpenClawInv, FilesTyped
  <2>5. entry' = entry \/ entry' = [entry EXCEPT ![p] = Wired(p, k)]
    BY <1>4, <2>2 DEF WriteProvider
  <2>6. entry' \in [Provider -> OcEntry \cup {Nothing}]
    BY <2>4, <2>5 DEF OpenClawInv, FilesTyped
  <2>7. QED
    BY <1>4, <2>6 DEF WriteProvider, ocUser, OpenClawInv, FilesTyped
<1>5. CASE WriteProviderFails
  BY <1>5 DEF WriteProviderFails, ocUser, OpenClawInv, FilesTyped
<1>6. CASE Rollback
  <2>1. entry' = entry \/ entry' = snapshot.file \/ entry' = [p \in Provider |-> Nothing]
    BY <1>6 DEF Rollback, RolledBack
  <2>2. snapshot.file \in [Provider -> OcEntry \cup {Nothing}]
    BY <1>6 DEF Rollback, OpenClawInv, SnapshotOK
  <2>3. entry' \in [Provider -> OcEntry \cup {Nothing}]
    BY <2>1, <2>2 DEF OpenClawInv, FilesTyped
  <2>4. QED
    BY <1>6, <2>3 DEF Rollback, ocUser, OpenClawInv, FilesTyped
<1>7. CASE InterruptWrite
  BY <1>7 DEF InterruptWrite, ocUser, OpenClawInv, FilesTyped
<1>8. CASE UndoOwnProviderWrites
  <2>1. snapshot.file \in [Provider -> OcEntry \cup {Nothing}]
    BY <1>8 DEF UndoOwnProviderWrites, OpenClawInv, SnapshotOK
  <2>2. CASE entry' = entry
    BY <1>8, <2>2 DEF UndoOwnProviderWrites, ocUser, OpenClawInv, FilesTyped
  <2>3. CASE /\ queue # << >>
             /\ entry' = [entry EXCEPT ![ProviderOf[Head(queue)]] = snapshot.file[ProviderOf[Head(queue)]]]
    <3>1. Head(queue) \in OcKey
      BY <1>8, <2>3, QueueHead DEF UndoOwnProviderWrites, OpenClawInv, PlanOK
    <3>2. ProviderOf[Head(queue)] \in Provider
      BY <3>1, OpenClawAssumption
    <3>3. entry' \in [Provider -> OcEntry \cup {Nothing}]
      BY <2>1, <2>3, <3>2 DEF OpenClawInv, FilesTyped
    <3>4. QED
      BY <1>8, <3>3 DEF UndoOwnProviderWrites, ocUser, OpenClawInv, FilesTyped
  <2>4. QED
    BY <1>8, <2>2, <2>3 DEF UndoOwnProviderWrites
<1>9. CASE EndOfWrites
  BY <1>9 DEF EndOfWrites, ocUser, OpenClawInv, FilesTyped
<1>10. CASE Neutralize
  BY <1>10 DEF Neutralize, ocUser, OpenClawInv, FilesTyped
<1>11. CASE Scrub
  BY <1>11 DEF Scrub, ocUser, OpenClawInv, FilesTyped
<1>12. CASE ApplyUnlock
  BY <1>12 DEF ApplyUnlock, ocUser, OpenClawInv, FilesTyped
<1>13. CASE RestoreProvider
  <2>1. /\ queue \in Seq(OcKey) /\ queue # << >> /\ planned_keys \in Seq(OcKey)
        /\ ToSet(queue) \subseteq ToSet(planned_keys)
    BY <1>13 DEF RestoreProvider, OpenClawInv, PlanOK
  <2>2. PICK k \in OcKey, p \in Provider : k = Head(queue) /\ p = ProviderOf[k]
    BY <2>1, QueueHead, OpenClawAssumption
  <2>3. p \in Affected /\ k \in ToSet(planned_keys)
    BY <2>1, <2>2, QueueHead, PlannedKeys DEF Affected
  <2>4. \/ entry' = entry
        \/ /\ snapshot.records[k] \in OcRecord
           /\ entry' = [entry EXCEPT ![p] = Original(snapshot.records[k], k)]
    BY <1>13, <2>2, <2>3 DEF RestoreProvider, OpenClawInv, RecordsOK
  <2>5. \A r \in OcRecord : Original(r, k) \in OcEntry
    BY OpenClawAssumption DEF Original, OcEntry, OcRecord, Secrets
  <2>6. entry' \in [Provider -> OcEntry \cup {Nothing}]
    BY <2>4, <2>5 DEF OpenClawInv, FilesTyped
  <2>7. QED
    BY <1>13, <2>6 DEF RestoreProvider, ocUser, OpenClawInv, FilesTyped
<1>14. CASE RestoreProviderFails
  BY <1>14 DEF RestoreProviderFails, ocUser, OpenClawInv, FilesTyped
<1>15. CASE Unroll
  <2>1. entry' = entry \/ entry' = snapshot.file \/ entry' = [p \in Provider |-> Nothing]
    BY <1>15 DEF Unroll, RolledBack
  <2>2. snapshot.file \in [Provider -> OcEntry \cup {Nothing}]
    BY <1>15 DEF Unroll, OpenClawInv, SnapshotOK
  <2>3. entry' \in [Provider -> OcEntry \cup {Nothing}]
    BY <2>1, <2>2 DEF OpenClawInv, FilesTyped
  <2>4. QED
    BY <1>15, <2>3 DEF Unroll, ocUser, OpenClawInv, FilesTyped
<1>16. CASE EndOfRestores
  BY <1>16 DEF EndOfRestores, ocUser, OpenClawInv, FilesTyped
<1>17. CASE RestoreCaches
  BY <1>17 DEF RestoreCaches, ocUser, OpenClawInv, FilesTyped
<1>18. CASE OcDie
  BY <1>18 DEF OcDie, ocUser, OpenClawInv, FilesTyped
<1>19. ASSUME NEW p \in Provider, NEW e \in OthersEntry(p), WriteEntry(p, e) PROVE FilesTyped'
  <2>1. revisions' \in 0..MaxRevisions /\ revisions' = revisions + 1
    BY <1>19, OpenClawAssumption DEF WriteEntry, OpenClawInv, FilesTyped
  <2>2. e \in OcEntry
    BY <2>1, OpenClawAssumption DEF OthersEntry, OcEntry, Secrets, KeysOf
  <2>3. QED
    BY <1>19, <2>1, <2>2 DEF WriteEntry, OpenClawInv, FilesTyped
<1>20. ASSUME NEW p \in Provider, CacheKey(p) PROVE FilesTyped'
  BY <1>20 DEF CacheKey, ocUser, OpenClawInv, FilesTyped
<1>21. CASE UNCHANGED ocVars
  BY <1>21 DEF OpenClawInv, FilesTyped, ocVars, ocUser
<1>22. QED
  BY OcSteps, <1>1, <1>2, <1>3, <1>4, <1>5, <1>6, <1>7, <1>8, <1>9, <1>10, <1>11, <1>12, <1>13, <1>14,
     <1>15, <1>16, <1>17, <1>18, <1>19, <1>20, <1>21

(* Every step keeps the command at its own keys. *)
LEMMA PlanOKStep ==
    ASSUME PlanOK, [OcNext]_ocVars
    PROVE  PlanOK'
<1>1. ASSUME NEW S \in Seq(OcKey), NEW adopt \in BOOLEAN, LockKeys(S, adopt) PROVE PlanOK'
  BY <1>1 DEF LockKeys, GoTo, Finished, PlanOK, oc_command
<1>2. ASSUME NEW S \in Seq(OcKey), UnlockKeys(S) PROVE PlanOK'
  BY <1>2 DEF UnlockKeys, GoTo, Finished, PlanOK, oc_command
<1>3. CASE ApplyLock
  <2>1. CASE stage' = "idle" /\ planned_keys' = << >>
    BY <2>1 DEF PlanOK
  <2>2. CASE stage' \in {"write", "restore", "caches"} /\ planned_keys' = planned_keys /\ queue' = queue
    BY <1>3, <2>2 DEF ApplyLock, PlanOK
  <2>3. QED
    BY <1>3, <2>1, <2>2 DEF ApplyLock, GoTo, Finished
<1>4. CASE WriteProvider
  BY <1>4, QueueHead DEF WriteProvider, GoTo, Finished, PlanOK
<1>5. CASE WriteProviderFails
  BY <1>5 DEF WriteProviderFails, GoTo, Finished, PlanOK, oc_command
<1>6. CASE Rollback
  BY <1>6 DEF Rollback, GoTo, Finished, PlanOK, oc_command
<1>7. CASE InterruptWrite
  BY <1>7 DEF InterruptWrite, GoTo, Finished, PlanOK, oc_command
<1>8. CASE UndoOwnProviderWrites
  <2>1. CASE stage' = "idle" /\ planned_keys' = << >>
    BY <2>1 DEF PlanOK
  <2>2. CASE queue # << >> /\ stage' = stage /\ planned_keys' = planned_keys /\ queue' = Tail(queue)
    BY <1>8, <2>2, QueueHead DEF UndoOwnProviderWrites, PlanOK
  <2>3. QED
    BY <1>8, <2>1, <2>2 DEF UndoOwnProviderWrites, GoTo, Finished
<1>9. CASE EndOfWrites
  BY <1>9 DEF EndOfWrites, GoTo, Finished, PlanOK, oc_command
<1>10. CASE Neutralize
  BY <1>10 DEF Neutralize, GoTo, Finished, PlanOK, oc_command
<1>11. CASE Scrub
  <2>1. CASE stage' = "idle" /\ planned_keys' = << >>
    BY <2>1 DEF PlanOK
  <2>2. CASE stage' = stage /\ planned_keys' = planned_keys
    BY <1>11, <2>2 DEF Scrub, PlanOK
  <2>3. QED
    BY <1>11, <2>1, <2>2 DEF Scrub, GoTo, Finished
<1>12. CASE ApplyUnlock
  <2>1. CASE stage' = "idle" /\ planned_keys' = << >>
    BY <2>1 DEF PlanOK
  <2>2. CASE stage' \in {"write", "restore", "caches"} /\ planned_keys' = planned_keys /\ queue' = queue
    BY <1>12, <2>2 DEF ApplyUnlock, PlanOK
  <2>3. QED
    BY <1>12, <2>1, <2>2 DEF ApplyUnlock, GoTo, Finished
<1>13. CASE RestoreProvider
  BY <1>13, QueueHead DEF RestoreProvider, GoTo, Finished, PlanOK
<1>14. CASE RestoreProviderFails
  BY <1>14 DEF RestoreProviderFails, GoTo, Finished, PlanOK, oc_command
<1>15. CASE Unroll
  BY <1>15 DEF Unroll, GoTo, Finished, PlanOK, oc_command
<1>16. CASE EndOfRestores
  BY <1>16 DEF EndOfRestores, GoTo, Finished, PlanOK, oc_command
<1>17. CASE RestoreCaches
  <2>1. CASE stage' = "idle" /\ planned_keys' = << >>
    BY <2>1 DEF PlanOK
  <2>2. CASE stage' = stage /\ planned_keys' = planned_keys /\ queue # << >> /\ queue' = Tail(queue)
    BY <1>17, <2>2, QueueHead DEF RestoreCaches, PlanOK
  <2>3. QED
    BY <1>17, <2>1, <2>2 DEF RestoreCaches, GoTo, Finished
<1>18. CASE OcDie
  <2>1. stage' = "idle" /\ planned_keys' = << >>
    BY <1>18 DEF OcDie, Finished
  <2>2. QED
    BY <2>1 DEF PlanOK
<1>19. ASSUME NEW p \in Provider, NEW e \in OthersEntry(p), WriteEntry(p, e) PROVE PlanOK'
  BY <1>19 DEF WriteEntry, GoTo, Finished, PlanOK, oc_command
<1>20. ASSUME NEW p \in Provider, CacheKey(p) PROVE PlanOK'
  BY <1>20 DEF CacheKey, GoTo, Finished, PlanOK, oc_command
<1>21. CASE UNCHANGED ocVars
  BY <1>21 DEF ocVars, oc_command, PlanOK
<1>22. QED
  BY OcSteps, <1>1, <1>2, <1>3, <1>4, <1>5, <1>6, <1>7, <1>8, <1>9, <1>10, <1>11, <1>12, <1>13, <1>14,
     <1>15, <1>16, <1>17, <1>18, <1>19, <1>20, <1>21

(* Every step keeps the entries and the records as their owners wrote them. *)
LEMMA EntriesOKStep ==
    ASSUME OpenClawInv, [OcNext]_ocVars, ~RollbackRaces
    PROVE  EntriesOK'
<1>1. ASSUME NEW S \in Seq(OcKey), NEW adopt \in BOOLEAN, LockKeys(S, adopt) PROVE EntriesOK'
  <2>1. UNCHANGED <<layout, entry, owner, unrestored>>
    BY <1>1 DEF LockKeys, ocUser
  <2>2. \A p \in Provider : Faithful(entry, p)'
    <3> SUFFICES ASSUME NEW p \in Provider PROVE Faithful(entry, p)'
      OBVIOUS
    <3>1. Faithful(entry, p) /\ (Owned(p)' <=> Owned(p))
      BY <2>1 DEF OpenClawInv, EntriesOK, Owned, Routed
    <3>2. Owned(p) /\ Recorded(p) => Recorded(p)'
      BY <1>1, LockKeepsRecords DEF OpenClawInv
    <3>3. QED
      BY <2>1, <3>1, <3>2 DEF Faithful
  <2>3. \A k \in OcKey : TrueRecord(oc_row[k], k)'
    <3> SUFFICES ASSUME NEW k \in OcKey PROVE TrueRecord(oc_row[k], k)'
      OBVIOUS
    <3>1. oc_row'[k] = Captured(k) \/ oc_row'[k] = oc_row[k]
      BY <1>1 DEF LockKeys
    <3>2. TrueRecord(oc_row[k], k) /\ TrueRecord(Captured(k), k)
      BY CapturedTrue DEF OpenClawInv, EntriesOK
    <3>3. \A q : Owned(q)' <=> Owned(q)
      BY <2>1 DEF Owned, Routed
    <3>4. QED
      BY <2>1, <3>1, <3>2, <3>3 DEF TrueRecord
  <2>4. QED
    BY <2>1, <2>2, <2>3 DEF OpenClawInv, EntriesOK
<1>2. ASSUME NEW S \in Seq(OcKey), UnlockKeys(S) PROVE EntriesOK'
  <2>1. UNCHANGED <<layout, entry, owner>> /\ unrestored \subseteq unrestored'
    BY <1>2 DEF UnlockKeys
  <2>2. \A k \in OcKey : oc_row'[k] = IF k \in ToSet(S) THEN Nothing ELSE oc_row[k]
    BY <1>2 DEF UnlockKeys
  <2>3. \A q : Owned(q)' <=> Owned(q)
    BY <2>1 DEF Owned, Routed
  <2>4. \A p \in Provider : Faithful(entry, p)'
    <3> SUFFICES ASSUME NEW p \in Provider PROVE Faithful(entry, p)'
      OBVIOUS
    <3>1. Faithful(entry, p)
      BY DEF OpenClawInv, EntriesOK
    <3>2. ASSUME p \notin unrestored', Owned(p), Recorded(p) PROVE Recorded(p)'
      <4>1. PICK k \in KeysOf(p) : oc_row[k] = RecordOf(owner[p])
        BY <3>2 DEF Recorded
      <4>2. k \in OcKey /\ p = ProviderOf[k] /\ oc_row[k] # Bare
        BY <3>2, <4>1, Records DEF KeysOf, Owned, OpenClawInv, FilesTyped
      <4>3. k \notin ToSet(S)
        BY <1>2, <3>2, <4>2 DEF UnlockKeys
      <4>4. QED
        BY <2>1, <2>2, <4>1, <4>2, <4>3 DEF Recorded
    <3>3. QED
      BY <2>1, <2>3, <3>1, <3>2 DEF Faithful
  <2>5. \A k \in OcKey : TrueRecord(oc_row[k], k)'
    BY <2>1, <2>2, <2>3, NothingAssumption DEF TrueRecord, OpenClawInv, EntriesOK
  <2>6. QED
    BY <2>1, <2>4, <2>5 DEF OpenClawInv, EntriesOK
<1>3. CASE ApplyLock
  <2>1. UNCHANGED <<layout, entry, oc_row, owner, unrestored>>
    BY <1>3 DEF ApplyLock, ocUser
  <2>2. QED
    BY <2>1, FilesSame DEF OpenClawInv
<1>4. CASE WriteProvider
  <2>1. /\ queue \in Seq(OcKey) /\ queue # << >> /\ planned_keys \in Seq(OcKey)
        /\ ToSet(queue) \subseteq ToSet(planned_keys)
    BY <1>4 DEF WriteProvider, OpenClawInv, PlanOK
  <2>2. PICK k \in OcKey, p \in Provider : k = Head(queue) /\ p = ProviderOf[k]
    BY <2>1, QueueHead, OpenClawAssumption
  <2>3. p \in Affected /\ k \in ToSet(planned_keys)
    BY <2>1, <2>2, QueueHead, PlannedKeys DEF Affected
  <2>4. UNCHANGED <<oc_row, owner, unrestored>>
    BY <1>4 DEF WriteProvider, ocUser
  <2>5. CASE entry' = entry /\ layout' = layout
    BY <2>4, <2>5, FilesSame DEF OpenClawInv
  <2>6. CASE entry' = [entry EXCEPT ![p] = Wired(p, k)] /\ layout' = "present"
    <3>1. ~Direct(Wired(p, k))
      BY OpenClawAssumption DEF Direct, Routed, Wired
    <3>2. p \notin unrestored /\ Owned(p) => Recorded(p)
      BY <1>4, <2>3 DEF WriteProvider, OpenClawInv, CapturedOK
    <3>3. QED
      BY <2>4, <2>6, <3>1, <3>2, OneEntry DEF OpenClawInv
  <2>7. QED
    BY <1>4, <2>2, <2>5, <2>6 DEF WriteProvider
<1>5. CASE WriteProviderFails
  <2>1. UNCHANGED <<layout, entry, oc_row, owner, unrestored>>
    BY <1>5 DEF WriteProviderFails, ocUser
  <2>2. QED
    BY <2>1, FilesSame DEF OpenClawInv
<1>6. CASE Rollback
  <2>1. UNCHANGED <<oc_row, owner, unrestored>> /\ stage = "rollback"
    BY <1>6 DEF Rollback, ocUser
  <2>2. CASE entry' = entry /\ layout' = layout
    BY <2>1, <2>2, FilesSame DEF OpenClawInv
  <2>3. CASE RolledBack
    <3>1. PICK f : f = entry'
      OBVIOUS
    <3>2. /\ ~changed /\ \A p \in Provider : Faithful(snapshot.file, p)
          /\ layout # "present" => \A p \in Provider : snapshot.file[p] = Nothing
          /\ snapshot.was # "present" => \A p \in Provider : snapshot.file[p] = Nothing
      BY <2>1 DEF OpenClawInv, SnapshotOK
    <3>3. \A p \in Provider : f[p] = snapshot.file[p]
      BY <2>3, <3>1, <3>2 DEF RolledBack
    <3>4. \A p \in Provider : Faithful(f, p)
      BY <3>2, <3>3 DEF Faithful
    <3>5. layout' # "present" => \A p \in Provider : f[p] = Nothing
      BY <2>3, <3>2, <3>3 DEF RolledBack
    <3>6. QED
      BY <2>1, <3>1, <3>4, <3>5, WentBack DEF OpenClawInv
  <2>4. QED
    BY <1>6, <2>2, <2>3 DEF Rollback
<1>7. CASE InterruptWrite
  <2>1. UNCHANGED <<layout, entry, oc_row, owner, unrestored>>
    BY <1>7 DEF InterruptWrite, ocUser
  <2>2. QED
    BY <2>1, FilesSame DEF OpenClawInv
<1>8. CASE UndoOwnProviderWrites
  <2>1. UNCHANGED <<layout, oc_row, owner, unrestored>>
    BY <1>8 DEF UndoOwnProviderWrites, ocUser
  <2>2. CASE entry' = entry
    BY <2>1, <2>2, FilesSame DEF OpenClawInv
  <2>3. CASE /\ queue # << >>
             /\ entry' = [entry EXCEPT ![ProviderOf[Head(queue)]] = snapshot.file[ProviderOf[Head(queue)]]]
    <3>1. stage = "undo" /\ queue \in Seq(OcKey) /\ ToSet(queue) \subseteq ToSet(planned_keys)
          /\ planned_keys \in Seq(OcKey)
      BY <1>8 DEF UndoOwnProviderWrites, OpenClawInv, PlanOK
    <3>2. PICK q \in Provider : q = ProviderOf[Head(queue)] /\ q \in Affected
      BY <2>3, <3>1, QueueHead, PlannedKeys DEF Affected
    <3>3. PICK e : e = snapshot.file[q]
      OBVIOUS
    <3>4. Faithful(snapshot.file, q) /\ (layout # "present" => e = Nothing)
      BY <3>1, <3>2, <3>3 DEF OpenClawInv, SnapshotOK
    <3>5. entry' = [entry EXCEPT ![q] = e]
      BY <2>3, <3>2, <3>3
    <3>6. /\ Direct(e) => Owned(q) /\ RecordOf(e) = RecordOf(owner[q])
          /\ q \notin unrestored /\ Owned(q) => Direct(e) \/ Recorded(q)
      BY <3>3, <3>4 DEF Faithful
    <3>7. QED
      BY <2>1, <3>4, <3>5, <3>6, OneEntry DEF OpenClawInv
  <2>4. QED
    BY <1>8, <2>2, <2>3 DEF UndoOwnProviderWrites
<1>9. CASE EndOfWrites
  <2>1. UNCHANGED <<layout, entry, oc_row, owner, unrestored>>
    BY <1>9 DEF EndOfWrites, ocUser
  <2>2. QED
    BY <2>1, FilesSame DEF OpenClawInv
<1>10. CASE Neutralize
  <2>1. UNCHANGED <<layout, entry, oc_row, owner, unrestored>>
    BY <1>10 DEF Neutralize, ocUser
  <2>2. QED
    BY <2>1, FilesSame DEF OpenClawInv
<1>11. CASE Scrub
  <2>1. UNCHANGED <<layout, entry, oc_row, owner, unrestored>>
    BY <1>11 DEF Scrub, ocUser
  <2>2. QED
    BY <2>1, FilesSame DEF OpenClawInv
<1>12. CASE ApplyUnlock
  <2>1. UNCHANGED <<layout, entry, oc_row, owner, unrestored>>
    BY <1>12 DEF ApplyUnlock, ocUser
  <2>2. QED
    BY <2>1, FilesSame DEF OpenClawInv
<1>13. CASE RestoreProvider
  <2>1. /\ queue \in Seq(OcKey) /\ queue # << >> /\ planned_keys \in Seq(OcKey)
        /\ ToSet(queue) \subseteq ToSet(planned_keys)
    BY <1>13 DEF RestoreProvider, OpenClawInv, PlanOK
  <2>2. PICK k \in OcKey, p \in Provider : k = Head(queue) /\ p = ProviderOf[k]
    BY <2>1, QueueHead, OpenClawAssumption
  <2>3. p \in Affected /\ k \in ToSet(planned_keys)
    BY <2>1, <2>2, QueueHead, PlannedKeys DEF Affected
  <2>4. UNCHANGED <<layout, oc_row, owner, unrestored>> /\ stage = "restore"
    BY <1>13 DEF RestoreProvider, ocUser
  <2>5. CASE entry' = entry
    BY <2>4, <2>5, FilesSame DEF OpenClawInv
  <2>6. PICK r : r = snapshot.records[k]
    OBVIOUS
  <2>7. CASE r # Bare /\ layout # "corrupt" /\ entry' = [entry EXCEPT ![p] = Original(r, k)]
    <3>1. layout = "present" /\ r \in OcRecord /\ Owned(p) /\ r = RecordOf(owner[p])
      BY <2>2, <2>3, <2>4, <2>6, <2>7 DEF OpenClawInv, RecordsOK, TrueRecord
    <3>2. Original(r, k) # Nothing /\ ~Routed(Original(r, k)) /\ RecordOf(Original(r, k)) = r
      BY <3>1, OriginalsDirect
    <3>3. QED
      BY <2>4, <2>7, <3>1, <3>2, OneEntry DEF OpenClawInv, Direct
  <2>8. QED
    BY <1>13, <2>2, <2>5, <2>6, <2>7 DEF RestoreProvider
<1>14. CASE RestoreProviderFails
  <2>1. UNCHANGED <<layout, entry, oc_row, owner, unrestored>>
    BY <1>14 DEF RestoreProviderFails, ocUser
  <2>2. QED
    BY <2>1, FilesSame DEF OpenClawInv
<1>15. CASE Unroll
  <2>1. UNCHANGED <<layout, oc_row, owner, unrestored>> /\ stage = "unroll"
    BY <1>15 DEF Unroll, ocUser
  <2>2. CASE entry' = entry
    BY <2>1, <2>2, FilesSame DEF OpenClawInv
  <2>3. CASE entry' = snapshot.file
    <3>1. PICK f : f = snapshot.file
      OBVIOUS
    <3>2. /\ ~changed /\ \A p \in Provider : Faithful(f, p)
          /\ layout # "present" => \A p \in Provider : f[p] = Nothing
      BY <2>1, <3>1 DEF OpenClawInv, SnapshotOK
    <3>3. QED
      BY <2>1, <2>3, <3>1, <3>2, WentBack DEF OpenClawInv
  <2>4. QED
    BY <1>15, <2>2, <2>3 DEF Unroll
<1>16. CASE EndOfRestores
  <2>1. UNCHANGED <<layout, entry, oc_row, owner, unrestored>>
    BY <1>16 DEF EndOfRestores, ocUser
  <2>2. QED
    BY <2>1, FilesSame DEF OpenClawInv
<1>17. CASE RestoreCaches
  <2>1. UNCHANGED <<layout, entry, oc_row, owner>> /\ stage = "caches"
    BY <1>17 DEF RestoreCaches
  <2>2. CASE unrestored' = unrestored
    BY <2>1, <2>2, FilesSame DEF OpenClawInv
  <2>3. CASE unrestored' = unrestored \ providers_set
    <3>1. \A p : (Recorded(p)' <=> Recorded(p)) /\ (Owned(p)' <=> Owned(p))
      BY <2>1, RowsSame
    <3>2. \A p \in providers_set : Direct(entry[p])
      BY <2>1 DEF OpenClawInv, RestoredOK
    <3>3. \A p \in Provider : Faithful(entry, p)'
      BY <2>1, <2>3, <3>1, <3>2 DEF OpenClawInv, EntriesOK, Faithful
    <3>4. QED
      BY <2>1, <3>1, <3>3 DEF OpenClawInv, EntriesOK, TrueRecord
  <2>4. QED
    BY <1>17, <2>2, <2>3 DEF RestoreCaches
<1>18. CASE OcDie
  <2>1. UNCHANGED <<layout, entry, oc_row, owner, unrestored>>
    BY <1>18 DEF OcDie, ocUser
  <2>2. QED
    BY <2>1, FilesSame DEF OpenClawInv
<1>19. ASSUME NEW p \in Provider, NEW e \in OthersEntry(p), WriteEntry(p, e) PROVE EntriesOK'
  <2>1. /\ layout' = "present" /\ oc_row' = oc_row /\ unrestored' = unrestored \ {p}
        /\ \A k \in KeysOf(p) : oc_row[k] = Nothing
    BY <1>19 DEF WriteEntry
  <2>2. /\ entry'[p] = e /\ owner'[p] = e
        /\ \A q \in Provider \ {p} : entry'[q] = entry[q] /\ owner'[q] = owner[q]
    BY <1>19 DEF WriteEntry, OpenClawInv, FilesTyped
  <2>3. \A q \in Provider \ {p} : (Owned(q)' <=> Owned(q)) /\ (Recorded(q)' <=> Recorded(q))
    BY <2>1, <2>2 DEF Owned, Routed, Recorded
  <2>4. Faithful(entry, p)'
    BY <2>2 DEF Faithful, Direct, Owned, Routed
  <2>5. \A q \in Provider \ {p} : Faithful(entry, q)'
    BY <2>1, <2>2, <2>3 DEF Faithful, OpenClawInv, EntriesOK
  <2>6. \A k \in OcKey : TrueRecord(oc_row[k], k)'
    <3> SUFFICES ASSUME NEW k \in OcKey PROVE TrueRecord(oc_row[k], k)'
      OBVIOUS
    <3>1. CASE ProviderOf[k] = p
      BY <2>1, <3>1, NothingAssumption DEF TrueRecord, KeysOf
    <3>2. CASE ProviderOf[k] # p
      BY <2>1, <2>2, <2>3, <3>2, OpenClawAssumption DEF TrueRecord, OpenClawInv, EntriesOK
    <3>3. QED
      BY <3>1, <3>2
  <2>7. QED
    BY <2>1, <2>4, <2>5, <2>6 DEF EntriesOK
<1>20. ASSUME NEW p \in Provider, CacheKey(p) PROVE EntriesOK'
  <2>1. UNCHANGED <<layout, entry, oc_row, owner, unrestored>>
    BY <1>20 DEF CacheKey, ocUser
  <2>2. QED
    BY <2>1, FilesSame DEF OpenClawInv
<1>21. CASE UNCHANGED ocVars
  <2>1. UNCHANGED <<layout, entry, oc_row, owner, unrestored>>
    BY <1>21 DEF ocVars, oc_command, ocUser
  <2>2. QED
    BY <2>1, FilesSame DEF OpenClawInv
<1>22. QED
  BY OcSteps, <1>1, <1>2, <1>3, <1>4, <1>5, <1>6, <1>7, <1>8, <1>9, <1>10, <1>11, <1>12, <1>13, <1>14,
     <1>15, <1>16, <1>17, <1>18, <1>19, <1>20, <1>21

(* Every step keeps the records of the keys being locked. *)
LEMMA CapturedOKStep ==
    ASSUME OpenClawInv, [OcNext]_ocVars, ~RollbackRaces
    PROVE  CapturedOK'
<1>1. ASSUME NEW S \in Seq(OcKey), NEW adopt \in BOOLEAN, LockKeys(S, adopt) PROVE CapturedOK'
  <2>1. planned_keys' = S /\ owner' = owner /\ unrestored' = unrestored /\ entry' = entry
    BY <1>1 DEF LockKeys, ocUser
  <2>2. ASSUME NEW p \in Affected', p \notin unrestored, Owned(p) PROVE Recorded(p)'
    <3>1. p \in Provider /\ p \in {ProviderOf[k] : k \in ToSet(S) \cap OcKey}
      BY <2>1, <2>2, PlannedKeys DEF Affected
    <3>2. Faithful(entry, p)
      BY <3>1 DEF OpenClawInv, EntriesOK
    <3>3. QED
      BY <1>1, <2>2, <3>1, <3>2, LockKeepsRecords DEF OpenClawInv, Faithful
  <2>3. \A q : Owned(q)' <=> Owned(q)
    BY <2>1 DEF Owned, Routed
  <2>4. QED
    BY <2>1, <2>2, <2>3 DEF CapturedOK
<1>2. ASSUME NEW S \in Seq(OcKey), UnlockKeys(S) PROVE CapturedOK'
  <2>1. stage' \notin {"captured", "write"}
    BY <1>2 DEF UnlockKeys, GoTo, Finished
  <2>2. QED
    BY <2>1 DEF CapturedOK
<1>3. CASE ApplyLock
  <2>1. CASE stage' = "idle"
    BY <2>1 DEF CapturedOK
  <2>2. CASE /\ stage \in {"captured", "write"} /\ UNCHANGED <<planned_keys, oc_row, owner, unrestored>>
    <3>1. \A p : (Recorded(p)' <=> Recorded(p)) /\ (Owned(p)' <=> Owned(p))
      BY <2>2, RowsSame
    <3>2. QED
      BY <2>2, <3>1 DEF CapturedOK, OpenClawInv, Affected
  <2>3. QED
    BY <1>3, <2>1, <2>2 DEF ApplyLock, GoTo, Finished, ocUser
<1>4. CASE WriteProvider
  <2>1. CASE stage' = "idle"
    BY <2>1 DEF CapturedOK
  <2>2. CASE /\ stage \in {"captured", "write"} /\ UNCHANGED <<planned_keys, oc_row, owner, unrestored>>
    <3>1. \A p : (Recorded(p)' <=> Recorded(p)) /\ (Owned(p)' <=> Owned(p))
      BY <2>2, RowsSame
    <3>2. QED
      BY <2>2, <3>1 DEF CapturedOK, OpenClawInv, Affected
  <2>3. QED
    BY <1>4, <2>1, <2>2 DEF WriteProvider, GoTo, Finished, ocUser
<1>5. CASE WriteProviderFails
  <2>1. stage' \notin {"captured", "write"}
    BY <1>5 DEF WriteProviderFails, GoTo, Finished
  <2>2. QED
    BY <2>1 DEF CapturedOK
<1>6. CASE Rollback
  <2>1. stage' \notin {"captured", "write"}
    BY <1>6 DEF Rollback, GoTo, Finished
  <2>2. QED
    BY <2>1 DEF CapturedOK
<1>7. CASE InterruptWrite
  <2>1. stage' \notin {"captured", "write"}
    BY <1>7 DEF InterruptWrite, GoTo, Finished
  <2>2. QED
    BY <2>1 DEF CapturedOK
<1>8. CASE UndoOwnProviderWrites
  <2>1. stage' \notin {"captured", "write"}
    BY <1>8 DEF UndoOwnProviderWrites, GoTo, Finished
  <2>2. QED
    BY <2>1 DEF CapturedOK
<1>9. CASE EndOfWrites
  <2>1. stage' \notin {"captured", "write"}
    BY <1>9 DEF EndOfWrites, GoTo, Finished
  <2>2. QED
    BY <2>1 DEF CapturedOK
<1>10. CASE Neutralize
  <2>1. stage' \notin {"captured", "write"}
    BY <1>10 DEF Neutralize, GoTo, Finished
  <2>2. QED
    BY <2>1 DEF CapturedOK
<1>11. CASE Scrub
  <2>1. stage' \notin {"captured", "write"}
    BY <1>11 DEF Scrub, GoTo, Finished
  <2>2. QED
    BY <2>1 DEF CapturedOK
<1>12. CASE ApplyUnlock
  <2>1. stage' \notin {"captured", "write"}
    BY <1>12 DEF ApplyUnlock, GoTo, Finished
  <2>2. QED
    BY <2>1 DEF CapturedOK
<1>13. CASE RestoreProvider
  <2>1. stage' \notin {"captured", "write"}
    BY <1>13 DEF RestoreProvider, GoTo, Finished
  <2>2. QED
    BY <2>1 DEF CapturedOK
<1>14. CASE RestoreProviderFails
  <2>1. stage' \notin {"captured", "write"}
    BY <1>14 DEF RestoreProviderFails, GoTo, Finished
  <2>2. QED
    BY <2>1 DEF CapturedOK
<1>15. CASE Unroll
  <2>1. stage' \notin {"captured", "write"}
    BY <1>15 DEF Unroll, GoTo, Finished
  <2>2. QED
    BY <2>1 DEF CapturedOK
<1>16. CASE EndOfRestores
  <2>1. stage' \notin {"captured", "write"}
    BY <1>16 DEF EndOfRestores, GoTo, Finished
  <2>2. QED
    BY <2>1 DEF CapturedOK
<1>17. CASE RestoreCaches
  <2>1. stage' \notin {"captured", "write"}
    BY <1>17 DEF RestoreCaches, GoTo, Finished
  <2>2. QED
    BY <2>1 DEF CapturedOK
<1>18. CASE OcDie
  <2>1. stage' \notin {"captured", "write"}
    BY <1>18 DEF OcDie, GoTo, Finished
  <2>2. QED
    BY <2>1 DEF CapturedOK
<1>19. ASSUME NEW p \in Provider, NEW e \in OthersEntry(p), WriteEntry(p, e) PROVE CapturedOK'
  <2>1. oc_row' = oc_row /\ planned_keys' = planned_keys /\ stage' = stage /\ p \notin Affected
        /\ unrestored' = unrestored \ {p}
    BY <1>19 DEF WriteEntry, Affected
  <2>2. \A q \in Provider \ {p} : owner'[q] = owner[q]
    BY <1>19 DEF WriteEntry, OpenClawInv, FilesTyped
  <2>3. \A q \in Provider \ {p} : (Owned(q)' <=> Owned(q)) /\ (Recorded(q)' <=> Recorded(q))
    BY <2>1, <2>2 DEF Owned, Routed, Recorded
  <2>4. Affected' = Affected /\ Affected \subseteq Provider
    BY <2>1, PlannedKeys DEF Affected, OpenClawInv, PlanOK
  <2>5. QED
    BY <2>1, <2>3, <2>4 DEF CapturedOK, OpenClawInv
<1>20. ASSUME NEW p \in Provider, CacheKey(p) PROVE CapturedOK'
  <2>1. UNCHANGED <<stage, planned_keys, oc_row, owner, unrestored>>
    BY <1>20 DEF CacheKey, oc_command, ocUser
  <2>2. \A q : (Recorded(q)' <=> Recorded(q)) /\ (Owned(q)' <=> Owned(q))
    BY <2>1, RowsSame
  <2>3. QED
    BY <2>1, <2>2 DEF CapturedOK, OpenClawInv, Affected
<1>21. CASE UNCHANGED ocVars
  <2>1. UNCHANGED <<stage, planned_keys, oc_row, owner, unrestored>>
    BY <1>21 DEF ocVars, oc_command, oc_command, ocUser
  <2>2. \A p : (Recorded(p)' <=> Recorded(p)) /\ (Owned(p)' <=> Owned(p))
    BY <2>1, RowsSame
  <2>3. QED
    BY <2>1, <2>2 DEF CapturedOK, OpenClawInv, Affected
<1>22. QED
  BY OcSteps, <1>1, <1>2, <1>3, <1>4, <1>5, <1>6, <1>7, <1>8, <1>9, <1>10, <1>11, <1>12, <1>13, <1>14,
     <1>15, <1>16, <1>17, <1>18, <1>19, <1>20, <1>21

(* Every step keeps the snapshot fit to go back to. *)
LEMMA SnapshotOKStep ==
    ASSUME OpenClawInv, [OcNext]_ocVars, ~RollbackRaces
    PROVE  SnapshotOK'
<1>1. ASSUME NEW S \in Seq(OcKey), NEW adopt \in BOOLEAN, LockKeys(S, adopt) PROVE SnapshotOK'
  <2>1. stage' \notin {"write", "rollback", "undo", "restore", "unroll"}
    BY <1>1 DEF LockKeys, GoTo, Finished
  <2>2. QED
    BY <2>1 DEF SnapshotOK
<1>2. ASSUME NEW S \in Seq(OcKey), UnlockKeys(S) PROVE SnapshotOK'
  <2>1. stage' \notin {"write", "rollback", "undo", "restore", "unroll"}
    BY <1>2 DEF UnlockKeys, GoTo, Finished
  <2>2. QED
    BY <2>1 DEF SnapshotOK
<1>3. CASE ApplyLock
  <2>1. CASE stage' \in {"idle", "caches"}
    BY <2>1 DEF SnapshotOK
  <2>2. CASE /\ stage' = "write" /\ snapshot'.file = entry /\ ~changed'
             /\ UNCHANGED <<layout, oc_row, owner, unrestored>>
             /\ stage' = "write" => snapshot'.was = layout
    <3>1. \A p : (Recorded(p)' <=> Recorded(p)) /\ (Owned(p)' <=> Owned(p))
      BY <2>2, RowsSame
    <3>2. \A p \in Provider : Faithful(snapshot.file, p)'
      BY <2>2, <3>1 DEF Faithful, OpenClawInv, EntriesOK
    <3>3. QED
      BY <2>2, <3>2 DEF SnapshotOK, OpenClawInv, EntriesOK, FilesTyped
  <2>3. QED
    BY <1>3, <2>1, <2>2 DEF ApplyLock, GoTo, Finished, ocUser
<1>4. CASE WriteProvider
  <2>1. CASE stage' = "idle"
    BY <2>1 DEF SnapshotOK
  <2>2. CASE /\ stage = "write" /\ stage' = "write"
             /\ layout' \in {layout, "present"}
             /\ UNCHANGED <<planned_keys, snapshot, changed, oc_row, owner, unrestored>>
    <3>1. \A p : (Recorded(p)' <=> Recorded(p)) /\ (Owned(p)' <=> Owned(p))
      BY <2>2, RowsSame
    <3>2. Affected' = Affected
      BY <2>2 DEF Affected
    <3>3. QED
      BY <2>2, <3>1, <3>2 DEF SnapshotOK, OpenClawInv, Faithful
  <2>3. QED
    BY <1>4, <2>1, <2>2 DEF WriteProvider, GoTo, Finished, ocUser, oc_command
<1>5. CASE WriteProviderFails
  <2>1. CASE stage' = "idle"
    BY <2>1 DEF SnapshotOK
  <2>2. CASE /\ stage = "write" /\ stage' = "rollback" /\ ~changed
             /\ UNCHANGED <<layout, planned_keys, snapshot, changed, oc_row, owner, unrestored>>
    <3>1. \A p : (Recorded(p)' <=> Recorded(p)) /\ (Owned(p)' <=> Owned(p))
      BY <2>2, RowsSame
    <3>2. Affected' = Affected
      BY <2>2 DEF Affected
    <3>3. QED
      BY <2>2, <3>1, <3>2 DEF SnapshotOK, OpenClawInv, Faithful
  <2>3. QED
    BY <1>5, <2>1, <2>2 DEF WriteProviderFails, GoTo, Finished, ocUser, oc_command
<1>6. CASE Rollback
  <2>1. stage' \notin {"write", "rollback", "undo", "restore", "unroll"}
    BY <1>6 DEF Rollback, GoTo, Finished
  <2>2. QED
    BY <2>1 DEF SnapshotOK
<1>7. CASE InterruptWrite
  <2>1. CASE stage' = "idle"
    BY <2>1 DEF SnapshotOK
  <2>2. CASE /\ stage = "write" /\ stage' = "undo"
             /\ UNCHANGED <<layout, planned_keys, snapshot, changed, oc_row, owner, unrestored>>
    <3>1. \A p : (Recorded(p)' <=> Recorded(p)) /\ (Owned(p)' <=> Owned(p))
      BY <2>2, RowsSame
    <3>2. Affected' = Affected
      BY <2>2 DEF Affected
    <3>3. QED
      BY <2>2, <3>1, <3>2 DEF SnapshotOK, OpenClawInv, Faithful
  <2>3. QED
    BY <1>7, <2>1, <2>2 DEF InterruptWrite, GoTo, Finished, ocUser, oc_command
<1>8. CASE UndoOwnProviderWrites
  <2>1. CASE stage' = "idle"
    BY <2>1 DEF SnapshotOK
  <2>2. CASE /\ stage = "undo" /\ stage' = "undo"
             /\ UNCHANGED <<layout, planned_keys, snapshot, changed, oc_row, owner, unrestored>>
    <3>1. \A p : (Recorded(p)' <=> Recorded(p)) /\ (Owned(p)' <=> Owned(p))
      BY <2>2, RowsSame
    <3>2. Affected' = Affected
      BY <2>2 DEF Affected
    <3>3. QED
      BY <2>2, <3>1, <3>2 DEF SnapshotOK, OpenClawInv, Faithful
  <2>3. QED
    BY <1>8, <2>1, <2>2 DEF UndoOwnProviderWrites, GoTo, Finished, ocUser, oc_command
<1>9. CASE EndOfWrites
  <2>1. stage' \notin {"write", "rollback", "undo", "restore", "unroll"}
    BY <1>9 DEF EndOfWrites, GoTo, Finished
  <2>2. QED
    BY <2>1 DEF SnapshotOK
<1>10. CASE Neutralize
  <2>1. stage' \notin {"write", "rollback", "undo", "restore", "unroll"}
    BY <1>10 DEF Neutralize, GoTo, Finished
  <2>2. QED
    BY <2>1 DEF SnapshotOK
<1>11. CASE Scrub
  <2>1. stage' \notin {"write", "rollback", "undo", "restore", "unroll"}
    BY <1>11 DEF Scrub, GoTo, Finished
  <2>2. QED
    BY <2>1 DEF SnapshotOK
<1>12. CASE ApplyUnlock
  <2>1. CASE stage' \in {"idle", "caches"}
    BY <2>1 DEF SnapshotOK
  <2>2. CASE /\ stage' = "restore" /\ snapshot'.file = entry /\ ~changed'
             /\ UNCHANGED <<layout, oc_row, owner, unrestored>>
             /\ stage' = "write" => snapshot'.was = layout
    <3>1. \A p : (Recorded(p)' <=> Recorded(p)) /\ (Owned(p)' <=> Owned(p))
      BY <2>2, RowsSame
    <3>2. \A p \in Provider : Faithful(snapshot.file, p)'
      BY <2>2, <3>1 DEF Faithful, OpenClawInv, EntriesOK
    <3>3. QED
      BY <2>2, <3>2 DEF SnapshotOK, OpenClawInv, EntriesOK, FilesTyped
  <2>3. QED
    BY <1>12, <2>1, <2>2 DEF ApplyUnlock, GoTo, Finished, ocUser
<1>13. CASE RestoreProvider
  <2>1. CASE stage' = "idle"
    BY <2>1 DEF SnapshotOK
  <2>2. CASE /\ stage = "restore" /\ stage' = "restore"
             /\ UNCHANGED <<layout, planned_keys, snapshot, changed, oc_row, owner, unrestored>>
    <3>1. \A p : (Recorded(p)' <=> Recorded(p)) /\ (Owned(p)' <=> Owned(p))
      BY <2>2, RowsSame
    <3>2. Affected' = Affected
      BY <2>2 DEF Affected
    <3>3. QED
      BY <2>2, <3>1, <3>2 DEF SnapshotOK, OpenClawInv, Faithful
  <2>3. QED
    BY <1>13, <2>1, <2>2 DEF RestoreProvider, GoTo, Finished, ocUser, oc_command
<1>14. CASE RestoreProviderFails
  <2>1. CASE stage' = "idle"
    BY <2>1 DEF SnapshotOK
  <2>2. CASE /\ stage = "restore" /\ stage' = "unroll" /\ ~changed
             /\ UNCHANGED <<layout, planned_keys, snapshot, changed, oc_row, owner, unrestored>>
    <3>1. \A p : (Recorded(p)' <=> Recorded(p)) /\ (Owned(p)' <=> Owned(p))
      BY <2>2, RowsSame
    <3>2. Affected' = Affected
      BY <2>2 DEF Affected
    <3>3. QED
      BY <2>2, <3>1, <3>2 DEF SnapshotOK, OpenClawInv, Faithful
  <2>3. QED
    BY <1>14, <2>1, <2>2 DEF RestoreProviderFails, GoTo, Finished, ocUser, oc_command
<1>15. CASE Unroll
  <2>1. stage' \notin {"write", "rollback", "undo", "restore", "unroll"}
    BY <1>15 DEF Unroll, GoTo, Finished
  <2>2. QED
    BY <2>1 DEF SnapshotOK
<1>16. CASE EndOfRestores
  <2>1. stage' \notin {"write", "rollback", "undo", "restore", "unroll"}
    BY <1>16 DEF EndOfRestores, GoTo, Finished
  <2>2. QED
    BY <2>1 DEF SnapshotOK
<1>17. CASE RestoreCaches
  <2>1. stage' \notin {"write", "rollback", "undo", "restore", "unroll"}
    BY <1>17 DEF RestoreCaches, GoTo, Finished
  <2>2. QED
    BY <2>1 DEF SnapshotOK
<1>18. CASE OcDie
  <2>1. stage' \notin {"write", "rollback", "undo", "restore", "unroll"}
    BY <1>18 DEF OcDie, GoTo, Finished
  <2>2. QED
    BY <2>1 DEF SnapshotOK
<1>19. ASSUME NEW p \in Provider, NEW e \in OthersEntry(p), WriteEntry(p, e) PROVE SnapshotOK'
  <2>1. /\ UNCHANGED <<layout, oc_row, planned_keys, stage, snapshot>> /\ p \notin Affected
        /\ unrestored' = unrestored \ {p} /\ changed' /\ stage \notin {"rollback", "unroll"}
    BY <1>19 DEF WriteEntry, Affected
  <2>2. \A q \in Provider \ {p} : owner'[q] = owner[q]
    BY <1>19 DEF WriteEntry, OpenClawInv, FilesTyped
  <2>3. \A q \in Provider \ {p} : (Owned(q)' <=> Owned(q)) /\ (Recorded(q)' <=> Recorded(q))
    BY <2>1, <2>2 DEF Owned, Routed, Recorded
  <2>4. Affected' = Affected
    BY <2>1 DEF Affected
  <2>5. ASSUME stage \in {"write", "rollback", "undo", "restore", "unroll"}, NEW q \in Provider, q \in Affected
        PROVE  Faithful(snapshot.file, q)'
    <3>1. q # p /\ Faithful(snapshot.file, q)
      BY <2>1, <2>5 DEF OpenClawInv, SnapshotOK
    <3>2. QED
      BY <2>1, <2>2, <2>3, <3>1 DEF Faithful
  <2>6. QED
    BY <2>1, <2>4, <2>5 DEF OpenClawInv, SnapshotOK
<1>20. ASSUME NEW p \in Provider, CacheKey(p) PROVE SnapshotOK'
  <2>1. CASE stage' = "idle"
    BY <2>1 DEF SnapshotOK
  <2>2. CASE /\ stage' = stage
             /\ UNCHANGED <<layout, planned_keys, snapshot, changed, oc_row, owner, unrestored>>
    <3>1. \A q : (Recorded(q)' <=> Recorded(q)) /\ (Owned(q)' <=> Owned(q))
      BY <2>2, RowsSame
    <3>2. Affected' = Affected
      BY <2>2 DEF Affected
    <3>3. QED
      BY <2>2, <3>1, <3>2 DEF SnapshotOK, OpenClawInv, Faithful
  <2>3. QED
    BY <1>20, <2>1, <2>2 DEF CacheKey, GoTo, Finished, ocUser, oc_command
<1>21. CASE UNCHANGED ocVars
  <2>1. CASE stage' = "idle"
    BY <2>1 DEF SnapshotOK
  <2>2. CASE /\ stage' = stage
             /\ UNCHANGED <<layout, planned_keys, snapshot, changed, oc_row, owner, unrestored>>
    <3>1. \A p : (Recorded(p)' <=> Recorded(p)) /\ (Owned(p)' <=> Owned(p))
      BY <2>2, RowsSame
    <3>2. Affected' = Affected
      BY <2>2 DEF Affected
    <3>3. QED
      BY <2>2, <3>1, <3>2 DEF SnapshotOK, OpenClawInv, Faithful
  <2>3. QED
    BY <1>21, <2>1, <2>2 DEF ocVars, oc_command, GoTo, Finished, ocUser, oc_command
<1>22. QED
  BY OcSteps, <1>1, <1>2, <1>3, <1>4, <1>5, <1>6, <1>7, <1>8, <1>9, <1>10, <1>11, <1>12, <1>13, <1>14,
     <1>15, <1>16, <1>17, <1>18, <1>19, <1>20, <1>21

(* Every step keeps the records unlock goes by. *)
LEMMA RecordsOKStep ==
    ASSUME OpenClawInv, [OcNext]_ocVars, ~RollbackRaces
    PROVE  RecordsOK'
<1>1. ASSUME NEW S \in Seq(OcKey), NEW adopt \in BOOLEAN, LockKeys(S, adopt) PROVE RecordsOK'
  <2>1. stage' \notin {"unlocked", "restore"}
    BY <1>1 DEF LockKeys, GoTo, Finished
  <2>2. QED
    BY <2>1 DEF RecordsOK
<1>2. ASSUME NEW S \in Seq(OcKey), UnlockKeys(S) PROVE RecordsOK'
  <2>1. planned_keys' = S /\ owner' = owner /\ stage' = "unlocked" /\ ToSet(S) \subseteq OcKey
    BY <1>2, PlannedKeys DEF UnlockKeys
  <2>2. \A k \in ToSet(S) : snapshot'[k] = oc_row[k] /\ oc_row[k] # Nothing
    BY <1>2 DEF UnlockKeys, ToSet
  <2>3. \A q : Owned(q)' <=> Owned(q)
    BY <2>1 DEF Owned, Routed
  <2>4. ASSUME NEW k \in ToSet(S)
        PROVE  snapshot'[k] \in {Bare} \cup OcRecord /\ TrueRecord(snapshot[k], k)'
    BY <2>1, <2>2, <2>3 DEF OpenClawInv, EntriesOK, FilesTyped, TrueRecord
  <2>5. QED
    BY <2>1, <2>4 DEF RecordsOK
<1>3. CASE ApplyLock
  <2>1. stage' \notin {"unlocked", "restore"}
    BY <1>3 DEF ApplyLock, GoTo, Finished
  <2>2. QED
    BY <2>1 DEF RecordsOK
<1>4. CASE WriteProvider
  <2>1. stage' \notin {"unlocked", "restore"}
    BY <1>4 DEF WriteProvider, GoTo, Finished
  <2>2. QED
    BY <2>1 DEF RecordsOK
<1>5. CASE WriteProviderFails
  <2>1. stage' \notin {"unlocked", "restore"}
    BY <1>5 DEF WriteProviderFails, GoTo, Finished
  <2>2. QED
    BY <2>1 DEF RecordsOK
<1>6. CASE Rollback
  <2>1. stage' \notin {"unlocked", "restore"}
    BY <1>6 DEF Rollback, GoTo, Finished
  <2>2. QED
    BY <2>1 DEF RecordsOK
<1>7. CASE InterruptWrite
  <2>1. stage' \notin {"unlocked", "restore"}
    BY <1>7 DEF InterruptWrite, GoTo, Finished
  <2>2. QED
    BY <2>1 DEF RecordsOK
<1>8. CASE UndoOwnProviderWrites
  <2>1. stage' \notin {"unlocked", "restore"}
    BY <1>8 DEF UndoOwnProviderWrites, GoTo, Finished
  <2>2. QED
    BY <2>1 DEF RecordsOK
<1>9. CASE EndOfWrites
  <2>1. stage' \notin {"unlocked", "restore"}
    BY <1>9 DEF EndOfWrites, GoTo, Finished
  <2>2. QED
    BY <2>1 DEF RecordsOK
<1>10. CASE Neutralize
  <2>1. stage' \notin {"unlocked", "restore"}
    BY <1>10 DEF Neutralize, GoTo, Finished
  <2>2. QED
    BY <2>1 DEF RecordsOK
<1>11. CASE Scrub
  <2>1. stage' \notin {"unlocked", "restore"}
    BY <1>11 DEF Scrub, GoTo, Finished
  <2>2. QED
    BY <2>1 DEF RecordsOK
<1>12. CASE ApplyUnlock
  <2>1. CASE stage' \in {"idle", "caches"}
    BY <2>1 DEF RecordsOK
  <2>2. CASE /\ stage = "unlocked" /\ stage' = "restore" /\ snapshot'.records = snapshot
             /\ layout' \in {"present", "corrupt"} /\ UNCHANGED <<planned_keys, owner>>
    <3>1. \A q : Owned(q)' <=> Owned(q)
      BY <2>2 DEF Owned, Routed
    <3>2. QED
      BY <2>2, <3>1 DEF OpenClawInv, RecordsOK, TrueRecord
  <2>3. QED
    BY <1>12, <2>1, <2>2 DEF ApplyUnlock, GoTo, Finished, ocUser
<1>13. CASE RestoreProvider
  <2>1. UNCHANGED <<stage, layout, planned_keys, snapshot, owner>>
    BY <1>13 DEF RestoreProvider, GoTo, ocUser, oc_command
  <2>2. \A q : Owned(q)' <=> Owned(q)
    BY <2>1 DEF Owned, Routed
  <2>3. QED
    BY <2>1, <2>2 DEF OpenClawInv, RecordsOK, TrueRecord
<1>14. CASE RestoreProviderFails
  <2>1. stage' \notin {"unlocked", "restore"}
    BY <1>14 DEF RestoreProviderFails, GoTo, Finished
  <2>2. QED
    BY <2>1 DEF RecordsOK
<1>15. CASE Unroll
  <2>1. stage' \notin {"unlocked", "restore"}
    BY <1>15 DEF Unroll, GoTo, Finished
  <2>2. QED
    BY <2>1 DEF RecordsOK
<1>16. CASE EndOfRestores
  <2>1. stage' \notin {"unlocked", "restore"}
    BY <1>16 DEF EndOfRestores, GoTo, Finished
  <2>2. QED
    BY <2>1 DEF RecordsOK
<1>17. CASE RestoreCaches
  <2>1. stage' \notin {"unlocked", "restore"}
    BY <1>17 DEF RestoreCaches, GoTo, Finished
  <2>2. QED
    BY <2>1 DEF RecordsOK
<1>18. CASE OcDie
  <2>1. stage' \notin {"unlocked", "restore"}
    BY <1>18 DEF OcDie, GoTo, Finished
  <2>2. QED
    BY <2>1 DEF RecordsOK
<1>19. ASSUME NEW p \in Provider, NEW e \in OthersEntry(p), WriteEntry(p, e) PROVE RecordsOK'
  <2>1. UNCHANGED <<stage, layout, planned_keys, snapshot>> /\ p \notin Affected
    BY <1>19 DEF WriteEntry, Affected
  <2>2. \A q \in Provider \ {p} : owner'[q] = owner[q]
    BY <1>19 DEF WriteEntry, OpenClawInv, FilesTyped
  <2>3. \A q \in Provider \ {p} : Owned(q)' <=> Owned(q)
    BY <2>2 DEF Owned, Routed
  <2>4. \A k \in ToSet(planned_keys) : ProviderOf[k] \in Provider \ {p}
    BY <2>1, PlannedKeys DEF Affected, OpenClawInv, PlanOK
  <2>5. QED
    BY <2>1, <2>2, <2>3, <2>4 DEF OpenClawInv, RecordsOK, TrueRecord
<1>20. ASSUME NEW p \in Provider, CacheKey(p) PROVE RecordsOK'
  <2>1. UNCHANGED <<stage, layout, planned_keys, snapshot, owner>>
    BY <1>20 DEF CacheKey, GoTo, ocUser, oc_command
  <2>2. \A q : Owned(q)' <=> Owned(q)
    BY <2>1 DEF Owned, Routed
  <2>3. QED
    BY <2>1, <2>2 DEF OpenClawInv, RecordsOK, TrueRecord
<1>21. CASE UNCHANGED ocVars
  <2>1. UNCHANGED <<stage, layout, planned_keys, snapshot, owner>>
    BY <1>21 DEF ocVars, oc_command, GoTo, ocUser, oc_command
  <2>2. \A q : Owned(q)' <=> Owned(q)
    BY <2>1 DEF Owned, Routed
  <2>3. QED
    BY <2>1, <2>2 DEF OpenClawInv, RecordsOK, TrueRecord
<1>22. QED
  BY OcSteps, <1>1, <1>2, <1>3, <1>4, <1>5, <1>6, <1>7, <1>8, <1>9, <1>10, <1>11, <1>12, <1>13, <1>14,
     <1>15, <1>16, <1>17, <1>18, <1>19, <1>20, <1>21

(* Every step keeps what unlock restored. *)
LEMMA RestoredOKStep ==
    ASSUME OpenClawInv, [OcNext]_ocVars, ~RollbackRaces
    PROVE  RestoredOK'
<1>1. ASSUME NEW S \in Seq(OcKey), NEW adopt \in BOOLEAN, LockKeys(S, adopt) PROVE RestoredOK'
  BY <1>1 DEF LockKeys, GoTo, Finished, ocUser, oc_command, OpenClawInv, RestoredOK, Affected
<1>2. ASSUME NEW S \in Seq(OcKey), UnlockKeys(S) PROVE RestoredOK'
  BY <1>2 DEF UnlockKeys, GoTo, Finished, ocUser, oc_command, OpenClawInv, RestoredOK, Affected
<1>3. CASE ApplyLock
  BY <1>3 DEF ApplyLock, GoTo, Finished, ocUser, oc_command, OpenClawInv, RestoredOK, Affected
<1>4. CASE WriteProvider
  BY <1>4 DEF WriteProvider, GoTo, Finished, ocUser, oc_command, OpenClawInv, RestoredOK, Affected
<1>5. CASE WriteProviderFails
  BY <1>5 DEF WriteProviderFails, GoTo, Finished, ocUser, oc_command, OpenClawInv, RestoredOK, Affected
<1>6. CASE Rollback
  BY <1>6 DEF Rollback, GoTo, Finished, ocUser, oc_command, OpenClawInv, RestoredOK, Affected
<1>7. CASE InterruptWrite
  BY <1>7 DEF InterruptWrite, GoTo, Finished, ocUser, oc_command, OpenClawInv, RestoredOK, Affected
<1>8. CASE UndoOwnProviderWrites
  BY <1>8 DEF UndoOwnProviderWrites, GoTo, Finished, ocUser, oc_command, OpenClawInv, RestoredOK, Affected
<1>9. CASE EndOfWrites
  BY <1>9 DEF EndOfWrites, GoTo, Finished, ocUser, oc_command, OpenClawInv, RestoredOK, Affected
<1>10. CASE Neutralize
  BY <1>10 DEF Neutralize, GoTo, Finished, ocUser, oc_command, OpenClawInv, RestoredOK, Affected
<1>11. CASE Scrub
  BY <1>11 DEF Scrub, GoTo, Finished, ocUser, oc_command, OpenClawInv, RestoredOK, Affected
<1>12. CASE ApplyUnlock
  BY <1>12 DEF ApplyUnlock, GoTo, Finished, ocUser, oc_command, OpenClawInv, RestoredOK, Affected
<1>13. CASE RestoreProvider
  <2>1. /\ queue \in Seq(OcKey) /\ queue # << >> /\ planned_keys \in Seq(OcKey)
        /\ ToSet(queue) \subseteq ToSet(planned_keys)
    BY <1>13 DEF RestoreProvider, OpenClawInv, PlanOK
  <2>2. PICK k \in OcKey, p \in Provider : k = Head(queue) /\ p = ProviderOf[k]
    BY <2>1, QueueHead, OpenClawAssumption
  <2>3. p \in Affected /\ k \in ToSet(planned_keys)
    BY <2>1, <2>2, QueueHead, PlannedKeys DEF Affected
  <2>4. stage = "restore" /\ stage' = "restore" /\ planned_keys' = planned_keys
    BY <1>13 DEF RestoreProvider, GoTo
  <2>5. CASE entry' = entry /\ providers_set' = providers_set
    BY <2>4, <2>5 DEF OpenClawInv, RestoredOK, Affected, Direct, Routed
  <2>6. CASE /\ snapshot.records[k] # Bare /\ entry' = [entry EXCEPT ![p] = Original(snapshot.records[k], k)]
             /\ providers_set' = providers_set \cup {p}
    <3>1. PICK r \in OcRecord : r = snapshot.records[k]
      BY <2>3, <2>4, <2>6 DEF OpenClawInv, RecordsOK
    <3>2. Direct(Original(r, k))
      BY OriginalsDirect DEF Direct
    <3>3. entry' = [entry EXCEPT ![p] = Original(r, k)]
      BY <2>6, <3>1
    <3>4. entry'[p] = Original(r, k) /\ \A q \in Provider \ {p} : entry'[q] = entry[q]
      BY <3>3 DEF OpenClawInv, FilesTyped
    <3>5. \A q \in providers_set : q \in Affected /\ q \in Provider /\ Direct(entry[q])
      BY <2>4 DEF OpenClawInv, RestoredOK
    <3>6. Affected' = Affected
      BY <2>4 DEF Affected
    <3>7. QED
      BY <2>3, <2>4, <2>6, <3>2, <3>4, <3>5, <3>6 DEF RestoredOK
  <2>7. QED
    BY <1>13, <2>2, <2>5, <2>6 DEF RestoreProvider
<1>14. CASE RestoreProviderFails
  BY <1>14 DEF RestoreProviderFails, GoTo, Finished, ocUser, oc_command, OpenClawInv, RestoredOK, Affected
<1>15. CASE Unroll
  BY <1>15 DEF Unroll, GoTo, Finished, ocUser, oc_command, OpenClawInv, RestoredOK, Affected
<1>16. CASE EndOfRestores
  BY <1>16 DEF EndOfRestores, GoTo, Finished, ocUser, oc_command, OpenClawInv, RestoredOK, Affected
<1>17. CASE RestoreCaches
  BY <1>17 DEF RestoreCaches, GoTo, Finished, ocUser, oc_command, OpenClawInv, RestoredOK, Affected
<1>18. CASE OcDie
  BY <1>18 DEF OcDie, GoTo, Finished, ocUser, oc_command, OpenClawInv, RestoredOK, Affected
<1>19. ASSUME NEW p \in Provider, NEW e \in OthersEntry(p), WriteEntry(p, e) PROVE RestoredOK'
  <2>1. UNCHANGED <<stage, planned_keys, providers_set>> /\ p \notin Affected
    BY <1>19 DEF WriteEntry, Affected
  <2>2. \A q \in Provider \ {p} : entry'[q] = entry[q]
    BY <1>19 DEF WriteEntry, OpenClawInv, FilesTyped
  <2>3. Affected' = Affected
    BY <2>1 DEF Affected
  <2>4. QED
    BY <2>1, <2>2, <2>3 DEF OpenClawInv, RestoredOK
<1>20. ASSUME NEW p \in Provider, CacheKey(p) PROVE RestoredOK'
  BY <1>20 DEF CacheKey, GoTo, Finished, ocUser, oc_command, OpenClawInv, RestoredOK, Affected
<1>21. CASE UNCHANGED ocVars
  BY <1>21 DEF ocVars, oc_command, GoTo, Finished, ocUser, oc_command, OpenClawInv, RestoredOK, Affected
<1>22. QED
  BY OcSteps, <1>1, <1>2, <1>3, <1>4, <1>5, <1>6, <1>7, <1>8, <1>9, <1>10, <1>11, <1>12, <1>13, <1>14,
     <1>15, <1>16, <1>17, <1>18, <1>19, <1>20, <1>21

(* Nothing has an entry at first. *)
LEMMA OpenClawInvInit == OcInit => OpenClawInv
BY OpenClawAssumption, NothingAssumption
   DEF OcInit, OpenClawInv, FilesTyped, EntriesOK, PlanOK, CapturedOK, SnapshotOK, RecordsOK,
       RestoredOK, Faithful, TrueRecord, Direct, Owned, OcRecord

(* lock and unlock on openclaw.json: whatever they wrote, rolled back or     *)
(* left half done, for any keys that share any providers, an entry of the    *)
(* user's is in the file or in a row; unless others write the file between   *)
(* a write that failed and its rollback.                                     *)
THEOREM OriginalsAreKept == ~RollbackRaces => (OcSpec => []OriginalKept)
<1> SUFFICES ASSUME ~RollbackRaces PROVE OcSpec => []OriginalKept
  OBVIOUS
<1>1. OpenClawInv /\ [OcNext]_ocVars => OpenClawInv'
  BY FilesTypedStep, EntriesOKStep, PlanOKStep, CapturedOKStep, SnapshotOKStep, RecordsOKStep,
     RestoredOKStep DEF OpenClawInv
<1>2. OpenClawInv => OriginalKept
  BY DEF OpenClawInv, EntriesOK, Faithful, Direct, Recorded, OriginalKept, Restorable
<1>3. QED
  BY <1>1, <1>2, OpenClawInvInit, PTL DEF OcSpec

-----------------------------------------------------------------------------
(* What lock and unlock of OpenClaw report and do, whoever else writes the  *)
(* file and whenever: the entries of the command's own providers are its    *)
(* own while it runs, and it knows which of them it has been through.       *)

\* The shapes of the files, of what a rollback goes back to, and of what unlock read.
ShapesOK ==
    /\ entry \in [Provider -> OcEntry \cup {Nothing}]
    /\ oc_row \in [OcKey -> {Nothing, Bare} \cup OcRecord]
    /\ revisions \in 0..MaxRevisions
    /\ layout # "present" => \A p \in Provider : entry[p] = Nothing
    /\ cache = [p \in Provider |-> cache[p]]

GoneBackTo ==
    stage \in {"write", "rollback", "undo", "restore", "unroll"} =>
        /\ snapshot.file \in [Provider -> OcEntry \cup {Nothing}]
        /\ layout # "present" => \A p \in Provider : snapshot.file[p] = Nothing

ReadFromRows ==
    /\ stage = "unlocked" => \A k \in ToSet(planned_keys) : snapshot[k] \in {Bare} \cup OcRecord
    /\ stage = "restore" =>
         \A k \in ToSet(planned_keys) : snapshot.records[k] \in {Bare} \cup OcRecord

\* lock without an error so far: what is no longer in the queue is routed.
RouteOK ==
    stage \in {"write", "neutralize", "scrub"} /\ ~erred =>
        \A p \in PlannedProviders(planned_keys) :
            Routed(entry[p]) \/ (stage = "write" /\ p \in PlannedProviders(queue))

\* unlock: a key that had a record has its provider's own entry back, or that
\* provider's caches are barred.
BackOrBarred(k) ==
    \/ ~Routed(entry[ProviderOf[k]])
    \/ ProviderOf[k] \in blocked
    \/ snapshot.records[k] = Bare

ReturnOK ==
    /\ stage = "restore" => \A k \in ToSet(planned_keys) : k \in ToSet(queue) \/ BackOrBarred(k)
    /\ stage = "restore" => layout \in {"present", "corrupt"}
    /\ stage = "unroll" => blocked = Provider
    /\ stage = "rollback" => erred
    /\ stage \in {"unroll", "caches"} => \A k \in ToSet(planned_keys) : BackOrBarred(k)

FollowInv == ShapesOK /\ PlanOK /\ GoneBackTo /\ ReadFromRows /\ RouteOK /\ ReturnOK

(* A provider of the queue is the head's, or one of the rest. *)
LEMMA QueueProviders ==
    ASSUME NEW q \in Seq(OcKey), q # << >>
    PROVE  \A p \in PlannedProviders(q) :
              p = ProviderOf[Head(q)] \/ p \in PlannedProviders(Tail(q))
<1>1. Len(q) \in Nat \ {0} /\ DOMAIN q = 1..Len(q) /\ Head(q) = q[1]
  OBVIOUS
<1>2. \A i \in DOMAIN q : i = 1 \/ (i - 1 \in DOMAIN Tail(q) /\ Tail(q)[i - 1] = q[i])
  BY <1>1
<1>3. ASSUME NEW i \in DOMAIN q
      PROVE  ProviderOf[q[i]] = ProviderOf[Head(q)] \/ ProviderOf[q[i]] \in PlannedProviders(Tail(q))
  BY <1>1, <1>2 DEF PlannedProviders
<1>4. QED
  BY <1>3 DEF PlannedProviders

(* Likewise a key of the queue. *)
LEMMA QueueKeys ==
    ASSUME NEW q \in Seq(OcKey), q # << >>
    PROVE  \A k \in ToSet(q) : k = Head(q) \/ k \in ToSet(Tail(q))
<1>1. Len(q) \in Nat \ {0} /\ DOMAIN q = 1..Len(q) /\ Head(q) = q[1]
  OBVIOUS
<1>2. \A i \in DOMAIN q : i = 1 \/ (i - 1 \in DOMAIN Tail(q) /\ Tail(q)[i - 1] = q[i])
  BY <1>1
<1>3. QED
  BY <1>1, <1>2 DEF ToSet

(* An empty queue is about nobody. *)
LEMMA EmptyQueue == PlannedProviders(<< >>) = {} /\ ToSet(<< >>) = {}
BY DEF PlannedProviders, ToSet

(* What lock writes is a route, and an entry. *)
LEMMA WiredRoutes ==
    ASSUME ShapesOK, NEW p \in Provider, NEW k \in OcKey
    PROVE  Wired(p, k) \in OcEntry /\ Routed(Wired(p, k))
<1>1. Wired(p, k) \in OcEntry
  BY OpenClawAssumption DEF Wired, OcEntry, Half, ShapesOK
<1>2. QED
  BY <1>1, OpenClawAssumption, NothingAssumption DEF Routed, Wired

(* What a step under way finds in the queue. *)
LEMMA AtHead ==
    ASSUME PlanOK, stage \in {"write", "undo", "restore", "caches"}, queue # << >>
    PROVE  /\ queue \in Seq(OcKey) /\ planned_keys \in Seq(OcKey)
           /\ Head(queue) \in OcKey /\ Head(queue) \in ToSet(planned_keys)
           /\ ProviderOf[Head(queue)] \in Provider
           /\ ProviderOf[Head(queue)] \in PlannedProviders(planned_keys)
<1>1. queue \in Seq(OcKey) /\ planned_keys \in Seq(OcKey) /\ ToSet(queue) \subseteq ToSet(planned_keys)
  BY DEF PlanOK
<1>2. QED
  BY <1>1, QueueHead, PlannedKeys, OpenClawAssumption

(* The steps that leave openclaw.json and the rows alone. *)
OcStill == UNCHANGED <<layout, entry, oc_row, revisions>>

LEMMA StillSteps ==
    ASSUME \/ ApplyLock \/ WriteProviderFails \/ InterruptWrite \/ EndOfWrites \/ Neutralize
           \/ Scrub \/ ApplyUnlock \/ RestoreProviderFails \/ EndOfRestores \/ RestoreCaches
           \/ OcDie \/ (\E p \in Provider : CacheKey(p)) \/ UNCHANGED ocVars
    PROVE  OcStill
BY DEF ApplyLock, WriteProviderFails, InterruptWrite, EndOfWrites, Neutralize, Scrub, ApplyUnlock,
   RestoreProviderFails, EndOfRestores, RestoreCaches, OcDie, CacheKey, ocVars, ocUser, OcStill

(* There is one cache for each provider. *)
LEMMA CachesStay ==
    ASSUME cache = [p \in Provider |-> cache[p]], [OcNext]_ocVars
    PROVE  cache' = [p \in Provider |-> cache'[p]]
<1>1. CASE Neutralize
  BY <1>1 DEF Neutralize
<1>2. CASE Scrub
  BY <1>2 DEF Scrub
<1>3. CASE RestoreCaches
  BY <1>3 DEF RestoreCaches
<1>4. ASSUME NEW q \in Provider, CacheKey(q) PROVE cache' = [p \in Provider |-> cache'[p]]
  BY <1>4 DEF CacheKey
<1>5. CASE UNCHANGED cache
  BY <1>5
<1>6. QED
  BY OcSteps, <1>1, <1>2, <1>3, <1>4, <1>5 DEF LockKeys, UnlockKeys, ApplyLock, WriteProvider,
     WriteProviderFails, Rollback, InterruptWrite, UndoOwnProviderWrites, EndOfWrites, ApplyUnlock,
     RestoreProvider, RestoreProviderFails, Unroll, EndOfRestores, WriteEntry, OcDie, ocVars

LEMMA ShapesStep ==
    ASSUME FollowInv, [OcNext]_ocVars
    PROVE  ShapesOK'
<1> USE DEF FollowInv
<1> DEFINE FilesOK == /\ entry \in [Provider -> OcEntry \cup {Nothing}]
                      /\ oc_row \in [OcKey -> {Nothing, Bare} \cup OcRecord]
                      /\ revisions \in 0..MaxRevisions
                      /\ layout # "present" => \A p \in Provider : entry[p] = Nothing
<1>0. ASSUME FilesOK' PROVE ShapesOK'
  <2>1. cache' = [p \in Provider |-> cache'[p]]
    BY CachesStay DEF ShapesOK
  <2>2. QED
    BY <1>0, <2>1 DEF ShapesOK
<1>1. ASSUME OcStill PROVE FilesOK'
  BY <1>1 DEF OcStill, ShapesOK
<1>2. ASSUME NEW S \in Seq(OcKey), NEW adopt \in BOOLEAN, LockKeys(S, adopt) PROVE FilesOK'
  <2>1. ASSUME NEW k \in OcKey PROVE Captured(k) \in {Nothing, Bare} \cup OcRecord
    <3>1. entry[ProviderOf[k]] \in OcEntry \cup {Nothing}
      BY OpenClawAssumption DEF ShapesOK
    <3>2. QED
      BY <3>1, Records DEF Captured
  <2>2. oc_row' = [k \in OcKey |-> IF k \in ToSet(S) THEN Captured(k) ELSE oc_row[k]]
    BY <1>2 DEF LockKeys
  <2>3. oc_row' \in [OcKey -> {Nothing, Bare} \cup OcRecord]
    BY <2>1, <2>2 DEF ShapesOK
  <2>4. QED
    BY <1>2, <2>3 DEF LockKeys, ShapesOK, ocUser
<1>3. ASSUME NEW S \in Seq(OcKey), UnlockKeys(S) PROVE FilesOK'
  BY <1>3 DEF UnlockKeys, ShapesOK
<1>4. ASSUME WriteProvider PROVE FilesOK'
  <2> DEFINE k == Head(queue)
             p == ProviderOf[k]
  <2>1. k \in OcKey /\ p \in Provider
    BY <1>4, AtHead DEF WriteProvider
  <2>2. Wired(p, k) \in OcEntry
    BY <2>1, WiredRoutes
  <2>3. \/ UNCHANGED <<entry, layout>>
        \/ entry' = [entry EXCEPT ![p] = Wired(p, k)] /\ layout' = "present"
    BY <1>4 DEF WriteProvider
  <2>4. oc_row' = oc_row /\ revisions' = revisions
    BY <1>4 DEF WriteProvider, ocUser
  <2> HIDE DEF p, k
  <2>5. QED
    BY <2>2, <2>3, <2>4 DEF ShapesOK
<1>5. ASSUME Rollback PROVE FilesOK'
  BY <1>5 DEF Rollback, RolledBack, ShapesOK, GoneBackTo, ocUser
<1>6. ASSUME UndoOwnProviderWrites PROVE FilesOK'
  <2>1. CASE entry' = entry
    BY <1>6, <2>1 DEF UndoOwnProviderWrites, ShapesOK, ocUser
  <2>2. CASE entry' # entry
    <3> DEFINE p == ProviderOf[Head(queue)]
    <3>1. p \in Provider /\ stage = "undo"
      BY <1>6, <2>2, AtHead DEF UndoOwnProviderWrites
    <3>2. entry' = [entry EXCEPT ![p] = snapshot.file[p]]
      BY <1>6, <2>2 DEF UndoOwnProviderWrites
    <3>3. UNCHANGED <<layout, oc_row, revisions>>
      BY <1>6 DEF UndoOwnProviderWrites, ocUser
    <3> HIDE DEF p
    <3>4. QED
      BY <3>1, <3>2, <3>3 DEF ShapesOK, GoneBackTo
  <2>3. QED
    BY <2>1, <2>2
<1>7. ASSUME RestoreProvider PROVE FilesOK'
  <2>1. CASE entry' = entry
    BY <1>7, <2>1 DEF RestoreProvider, ShapesOK, ocUser
  <2>2. CASE entry' # entry
    <3> DEFINE k == Head(queue)
               p == ProviderOf[k]
               r == snapshot.records[k]
    <3>1. p \in Provider /\ stage = "restore" /\ k \in OcKey /\ k \in ToSet(planned_keys)
      BY <1>7, AtHead DEF RestoreProvider
    <3>2. entry' = [entry EXCEPT ![p] = Original(r, k)] /\ r # Bare
      BY <1>7, <2>2 DEF RestoreProvider
    <3>3. r \in OcRecord
      BY <3>1, <3>2 DEF ReadFromRows
    <3>4. Original(r, k) \in OcEntry
      BY <3>1, <3>3, OpenClawAssumption DEF Original, OcEntry, OcRecord, Secrets
    <3>5. UNCHANGED <<layout, oc_row, revisions>>
      BY <1>7 DEF RestoreProvider, ocUser
    <3>6. layout = "present"
      BY <1>7, <3>1, <3>2, <2>2 DEF RestoreProvider, ReturnOK
    <3> HIDE DEF p, k, r
    <3>7. QED
      BY <3>1, <3>2, <3>4, <3>5, <3>6 DEF ShapesOK
  <2>3. QED
    BY <2>1, <2>2
<1>8. ASSUME Unroll PROVE FilesOK'
  BY <1>8 DEF Unroll, ShapesOK, GoneBackTo, ocUser
<1>9. ASSUME NEW p \in Provider, NEW e \in OthersEntry(p), WriteEntry(p, e) PROVE FilesOK'
  <2>1. revisions' = revisions + 1 /\ revisions' \in 0..MaxRevisions
    BY <1>9, OpenClawAssumption DEF WriteEntry, ShapesOK
  <2>2. e \in OcEntry
    BY <1>9, <2>1, OpenClawAssumption DEF OthersEntry, OcEntry, Secrets, KeysOf
  <2>3. layout' = "present" /\ entry' = [entry EXCEPT ![p] = e] /\ oc_row' = oc_row
    BY <1>9 DEF WriteEntry
  <2>4. QED
    BY <2>1, <2>2, <2>3 DEF ShapesOK
<1>10. QED
  BY OcSteps, StillSteps, <1>0, <1>1, <1>2, <1>3, <1>4, <1>5, <1>6, <1>7, <1>8, <1>9

LEMMA GoneBackToStep ==
    ASSUME FollowInv, [OcNext]_ocVars
    PROVE  GoneBackTo'
<1> USE DEF FollowInv
<1>1. ASSUME UNCHANGED <<layout, snapshot>>, GoneBackTo,
             stage' \in {"write", "rollback", "undo", "restore", "unroll"} =>
             stage \in {"write", "rollback", "undo", "restore", "unroll"}
      PROVE  GoneBackTo'
  BY <1>1 DEF GoneBackTo
<1>2. ASSUME NEW S \in Seq(OcKey), (\E adopt \in BOOLEAN : LockKeys(S, adopt)) \/ UnlockKeys(S)
      PROVE  GoneBackTo'
  BY <1>2 DEF LockKeys, UnlockKeys, GoneBackTo
<1>3. CASE ApplyLock \/ ApplyUnlock
  BY <1>3 DEF ApplyLock, ApplyUnlock, Finished, GoTo, GoneBackTo, ShapesOK
<1>4. CASE WriteProvider
  BY <1>4 DEF WriteProvider, GoTo, GoneBackTo
<1>5. CASE Rollback \/ Unroll \/ Neutralize \/ Scrub \/ RestoreCaches \/ OcDie \/ EndOfWrites
           \/ EndOfRestores
  BY <1>5 DEF Rollback, Unroll, Neutralize, Scrub, RestoreCaches, OcDie, EndOfWrites,
     EndOfRestores, Finished, GoTo, GoneBackTo
<1>6. CASE WriteProviderFails \/ InterruptWrite \/ RestoreProvider \/ RestoreProviderFails
  BY <1>1, <1>6 DEF WriteProviderFails, InterruptWrite, RestoreProvider, RestoreProviderFails, GoTo
<1>7. CASE UndoOwnProviderWrites
  BY <1>7 DEF UndoOwnProviderWrites, Finished, GoTo, GoneBackTo
<1>8. ASSUME NEW p \in Provider, CacheKey(p) \/ \E e \in OthersEntry(p) : WriteEntry(p, e)
      PROVE  GoneBackTo'
  BY <1>1, <1>8 DEF CacheKey, WriteEntry, oc_command
<1>9. CASE UNCHANGED ocVars
  BY <1>1, <1>9 DEF ocVars, oc_command
<1>10. QED
  BY OcSteps, <1>2, <1>3, <1>4, <1>5, <1>6, <1>7, <1>8, <1>9

LEMMA ReadFromRowsStep ==
    ASSUME FollowInv, [OcNext]_ocVars
    PROVE  ReadFromRows'
<1> USE DEF FollowInv
<1>1. ASSUME UNCHANGED <<planned_keys, snapshot, layout>>,
             stage' \in {"unlocked", "restore"} => stage' = stage
      PROVE  ReadFromRows'
  BY <1>1 DEF ReadFromRows
<1>2. ASSUME stage' \notin {"unlocked", "restore"} PROVE ReadFromRows'
  BY <1>2 DEF ReadFromRows
<1>3. ASSUME NEW S \in Seq(OcKey), UnlockKeys(S) PROVE ReadFromRows'
  <2>1. /\ stage' = "unlocked" /\ planned_keys' = S /\ snapshot' = [k \in ToSet(S) |-> oc_row[k]]
        /\ \A i \in DOMAIN S : oc_row[S[i]] # Nothing
    BY <1>3 DEF UnlockKeys
  <2>2. ToSet(S) \subseteq OcKey
    BY PlannedKeys
  <2>3. \A k \in ToSet(S) : oc_row[k] \in {Bare} \cup OcRecord
    BY <2>1, <2>2 DEF ShapesOK, ToSet
  <2>4. QED
    BY <2>1, <2>3 DEF ReadFromRows
<1>4. CASE ApplyUnlock
  <2>1. CASE stage' \notin {"unlocked", "restore"}
    BY <2>1, <1>2
  <2>2. CASE stage' = "restore" /\ snapshot' = [file |-> entry, records |-> snapshot]
             /\ planned_keys' = planned_keys /\ stage = "unlocked"
             /\ layout' \in {"present", "corrupt"}
    BY <2>2 DEF ReadFromRows
  <2>3. QED
    BY <1>4, <2>1, <2>2 DEF ApplyUnlock, Finished, GoTo
<1>5. CASE RestoreProvider
  BY <1>1, <1>5 DEF RestoreProvider, GoTo
<1>6. CASE ApplyLock \/ WriteProvider \/ WriteProviderFails \/ Rollback \/ InterruptWrite
           \/ UndoOwnProviderWrites \/ EndOfWrites \/ Neutralize \/ Scrub
           \/ RestoreProviderFails \/ Unroll \/ EndOfRestores \/ RestoreCaches \/ OcDie
           \/ \E S \in Seq(OcKey), adopt \in BOOLEAN : LockKeys(S, adopt)
  <2>1. stage' \notin {"unlocked", "restore"}
    BY <1>6 DEF ApplyLock, WriteProvider, WriteProviderFails, Rollback, InterruptWrite,
       UndoOwnProviderWrites, EndOfWrites, Neutralize, Scrub, RestoreProviderFails, Unroll,
       EndOfRestores, RestoreCaches, OcDie, LockKeys, Finished, GoTo
  <2>2. QED
    BY <2>1, <1>2
<1>7. ASSUME NEW p \in Provider, CacheKey(p) \/ \E e \in OthersEntry(p) : WriteEntry(p, e)
      PROVE  ReadFromRows'
  BY <1>1, <1>7 DEF CacheKey, WriteEntry, oc_command
<1>8. CASE UNCHANGED ocVars
  BY <1>1, <1>8 DEF ocVars, oc_command
<1>9. QED
  BY OcSteps, <1>3, <1>4, <1>5, <1>6, <1>7, <1>8

(* Others leave the entries of a running command alone. *)
LEMMA OthersElsewhere ==
    ASSUME FollowInv, NEW q \in Provider, NEW e, WriteEntry(q, e)
    PROVE  /\ UNCHANGED oc_command \/ (UNCHANGED <<stage, queue, planned_keys, snapshot, blocked, erred>>)
           /\ \A p \in PlannedProviders(planned_keys) : entry'[p] = entry[p]
BY DEF WriteEntry, FollowInv, ShapesOK

LEMMA RouteStep ==
    ASSUME FollowInv, [OcNext]_ocVars
    PROVE  RouteOK'
<1> USE DEF FollowInv
<1>1. ASSUME stage' \notin {"write", "neutralize", "scrub"} \/ erred' PROVE RouteOK'
  BY <1>1 DEF RouteOK
<1>2. ASSUME UNCHANGED <<entry, planned_keys, erred>>, stage \in {"write", "neutralize", "scrub"},
             stage' \in {"neutralize", "scrub"}, stage = "write" => queue = << >>
      PROVE  RouteOK'
  BY <1>2, EmptyQueue DEF RouteOK, Routed
<1>3. CASE ApplyLock
  <2>1. CASE stage' = "idle"
    BY <1>1, <2>1
  <2>2. CASE stage' = "write" /\ queue' = queue /\ planned_keys' = planned_keys /\ stage = "captured"
    BY <2>2 DEF RouteOK, PlanOK
  <2>3. QED
    BY <1>3, <2>1, <2>2 DEF ApplyLock, Finished, GoTo
<1>4. CASE WriteProvider
  <2> DEFINE k == Head(queue)
             p == ProviderOf[k]
  <2>1. k \in OcKey /\ p \in Provider /\ queue \in Seq(OcKey) /\ queue # << >>
    BY <1>4, AtHead DEF WriteProvider
  <2>2. stage = "write" /\ stage' = "write" /\ planned_keys' = planned_keys /\ queue' = Tail(queue)
    BY <1>4 DEF WriteProvider, GoTo
  <2>3. \A q \in PlannedProviders(queue) : q = p \/ q \in PlannedProviders(queue')
    BY <2>1, <2>2, QueueProviders
  <2>4. CASE erred'
    BY <1>1, <2>4
  <2>5. CASE ~erred' /\ entry' = entry /\ Routed(entry[p])
    <3>1. erred' = erred
      BY <1>4, <2>5 DEF WriteProvider
    <3>2. QED
      BY <2>2, <2>3, <2>5, <3>1 DEF RouteOK, Routed
  <2>6. CASE ~erred' /\ entry' = [entry EXCEPT ![p] = Wired(p, k)]
    <3>1. erred' = erred
      BY <1>4, <2>6 DEF WriteProvider
    <3>2. Routed(Wired(p, k))
      BY <2>1, WiredRoutes
    <3>3. entry'[p] = Wired(p, k) /\ \A q \in Provider \ {p} : entry'[q] = entry[q]
      BY <2>1, <2>6 DEF ShapesOK
    <3>4. PlannedProviders(planned_keys) \subseteq Provider
      BY PlannedKeys DEF PlanOK
    <3> HIDE DEF p, k
    <3>5. QED
      BY <2>2, <2>3, <2>6, <3>1, <3>2, <3>3, <3>4 DEF RouteOK, Routed
  <2>7. QED
    BY <1>4, <2>4, <2>5, <2>6 DEF WriteProvider, Unrecognized
<1>5. CASE EndOfWrites \/ Neutralize
  BY <1>2, <1>5 DEF EndOfWrites, Neutralize, GoTo
<1>6. CASE Scrub
  <2>1. CASE stage' = "idle"
    BY <1>1, <2>1
  <2>2. CASE stage' = "scrub" /\ UNCHANGED <<entry, planned_keys, erred>> /\ stage = "scrub"
    BY <1>2, <2>2
  <2>3. QED
    BY <1>6, <2>1, <2>2 DEF Scrub, Finished, GoTo
<1>7. CASE Rollback
  <2>1. CASE erred
    BY <1>1, <1>7, <2>1 DEF Rollback
  <2>2. CASE ~erred
    BY <1>7, <2>2 DEF Rollback, ReturnOK
  <2>3. QED
    BY <2>1, <2>2
<1>8. CASE WriteProviderFails \/ InterruptWrite
           \/ UndoOwnProviderWrites \/ ApplyUnlock \/ RestoreProvider
           \/ RestoreProviderFails \/ Unroll \/ EndOfRestores \/ RestoreCaches \/ OcDie
           \/ (\E S \in Seq(OcKey), adopt \in BOOLEAN : LockKeys(S, adopt))
           \/ (\E S \in Seq(OcKey) : UnlockKeys(S))
  <2>1. stage' \notin {"write", "neutralize", "scrub"}
    BY <1>8 DEF WriteProviderFails, InterruptWrite, UndoOwnProviderWrites, ApplyUnlock,
       RestoreProvider, RestoreProviderFails, Unroll, EndOfRestores, RestoreCaches, OcDie,
       LockKeys, UnlockKeys, Finished, GoTo
  <2>2. QED
    BY <2>1, <1>1
<1>9. ASSUME NEW p \in Provider, NEW e \in OthersEntry(p), WriteEntry(p, e) PROVE RouteOK'
  <2>1. UNCHANGED <<stage, queue, planned_keys, erred>>
    BY <1>9 DEF WriteEntry
  <2>2. \A q \in PlannedProviders(planned_keys) : entry'[q] = entry[q]
    BY <1>9, OthersElsewhere
  <2>3. QED
    BY <2>1, <2>2 DEF RouteOK, Routed
<1>10. ASSUME NEW p \in Provider, CacheKey(p) PROVE RouteOK'
  BY <1>1, <1>10 DEF CacheKey, oc_command
<1>11. CASE UNCHANGED ocVars
  BY <1>11 DEF ocVars, oc_command, RouteOK, Routed
<1>12. QED
  BY OcSteps, <1>3, <1>4, <1>5, <1>6, <1>7, <1>8, <1>9, <1>10, <1>11

(* A key given back stays so while nothing it depends on changes. *)
LEMMA StaysBack ==
    ASSUME NEW k, BackOrBarred(k), snapshot' = snapshot, blocked \subseteq blocked',
           entry'[ProviderOf[k]] = entry[ProviderOf[k]] \/ ~Routed(entry'[ProviderOf[k]])
    PROVE  BackOrBarred(k)'
BY DEF BackOrBarred, Routed

LEMMA ReturnStep ==
    ASSUME FollowInv, [OcNext]_ocVars
    PROVE  ReturnOK'
<1> USE DEF FollowInv
<1>0. /\ ToSet(planned_keys) \subseteq OcKey
      /\ \A k \in ToSet(planned_keys) :
           ProviderOf[k] \in Provider /\ ProviderOf[k] \in PlannedProviders(planned_keys)
  BY PlannedKeys, OpenClawAssumption DEF PlanOK
<1>1. ASSUME stage' \notin {"rollback", "restore", "unroll", "caches"} PROVE ReturnOK'
  BY <1>1 DEF ReturnOK
<1>2. CASE ApplyUnlock
  <2>1. CASE stage' = "idle"
    BY <1>1, <2>1
  <2>2. CASE stage' = "restore" /\ queue' = queue /\ planned_keys' = planned_keys /\ stage = "unlocked"
             /\ layout' \in {"present", "corrupt"}
    BY <2>2 DEF PlanOK, ReturnOK
  <2>3. CASE stage' = "caches" /\ planned_keys' = planned_keys
             /\ layout # "present" /\ entry' = entry
    <3>1. \A k \in ToSet(planned_keys) : ~Routed(entry'[ProviderOf[k]])
      BY <1>0, <2>3 DEF ShapesOK, Routed
    <3>2. \A k \in ToSet(planned_keys) : BackOrBarred(k)'
      BY <3>1 DEF BackOrBarred
    <3>3. QED
      BY <2>3, <3>2 DEF ReturnOK
  <2>4. QED
    BY <1>2, <2>1, <2>2, <2>3 DEF ApplyUnlock, Finished, GoTo
<1>3. CASE RestoreProvider
  <2>0. PICK k \in OcKey : k = Head(queue)
    BY <1>3, AtHead DEF RestoreProvider
  <2>1. PICK p \in Provider :
          /\ p = ProviderOf[k]
          /\ k \in ToSet(planned_keys) /\ queue \in Seq(OcKey) /\ queue # << >>
    BY <1>3, <2>0, AtHead DEF RestoreProvider
  <2> DEFINE r == snapshot.records[k]
  <2>2. /\ stage = "restore" /\ stage' = "restore" /\ planned_keys' = planned_keys
        /\ queue' = Tail(queue) /\ snapshot' = snapshot /\ layout' = layout
    BY <1>3 DEF RestoreProvider, GoTo
  <2>3. \A j \in ToSet(queue) : j = k \/ j \in ToSet(queue')
    BY <2>0, <2>1, <2>2, QueueKeys
  <2>4. CASE r = Bare /\ UNCHANGED <<entry, blocked>>
    <3>1. \A j \in ToSet(planned_keys) : BackOrBarred(j) => BackOrBarred(j)'
      BY <2>2, <2>4, StaysBack
    <3>2. BackOrBarred(k)'
      BY <2>1, <2>2, <2>4 DEF BackOrBarred
    <3>3. QED
      BY <2>2, <2>3, <3>1, <3>2 DEF ReturnOK
  <2>5. CASE entry' = entry /\ blocked' = blocked \cup {p}
    <3>1. \A j \in ToSet(planned_keys) : BackOrBarred(j) => BackOrBarred(j)'
      BY <2>2, <2>5, StaysBack
    <3>2. BackOrBarred(k)'
      BY <2>1, <2>5 DEF BackOrBarred
    <3>3. QED
      BY <2>2, <2>3, <3>1, <3>2 DEF ReturnOK
  <2>6. CASE entry' = [entry EXCEPT ![p] = Original(r, k)] /\ r # Bare /\ blocked' = blocked
    <3>1. r \in OcRecord
      BY <2>1, <2>2, <2>6 DEF ReadFromRows
    <3>2. ~Routed(Original(r, k))
      BY <3>1, OriginalsDirect
    <3>3. entry'[p] = Original(r, k) /\ \A q \in Provider \ {p} : entry'[q] = entry[q]
      BY <2>1, <2>6 DEF ShapesOK
    <3>4. BackOrBarred(k)'
      BY <2>1, <3>2, <3>3 DEF BackOrBarred
    <3>5. \A j \in ToSet(planned_keys) :
             entry'[ProviderOf[j]] = entry[ProviderOf[j]] \/ ~Routed(entry'[ProviderOf[j]])
      BY <1>0, <3>2, <3>3
    <3>6. \A j \in ToSet(planned_keys) : BackOrBarred(j) => BackOrBarred(j)'
      BY <2>2, <2>6, <3>5, StaysBack
    <3>7. QED
      BY <2>2, <2>3, <3>4, <3>6 DEF ReturnOK
  <2>7. QED
    BY <1>3, <2>0, <2>1, <2>4, <2>5, <2>6 DEF RestoreProvider
<1>4. CASE RestoreProviderFails
  <2>1. stage' = "unroll" /\ blocked' = Provider /\ planned_keys' = planned_keys
    BY <1>4 DEF RestoreProviderFails, GoTo
  <2>2. QED
    BY <1>0, <2>1 DEF ReturnOK, BackOrBarred
<1>5. CASE Unroll
  <2>1. stage = "unroll" /\ stage' = "caches" /\ blocked' = blocked /\ planned_keys' = planned_keys
    BY <1>5 DEF Unroll, GoTo
  <2>2. QED
    BY <1>0, <2>1 DEF ReturnOK, BackOrBarred
<1>6. CASE EndOfRestores
  <2>1. /\ stage = "restore" /\ stage' = "caches" /\ queue = << >>
        /\ UNCHANGED <<planned_keys, entry, blocked, snapshot>>
    BY <1>6 DEF EndOfRestores, GoTo
  <2>2. \A k \in ToSet(planned_keys) : BackOrBarred(k)
    BY <2>1, EmptyQueue DEF ReturnOK
  <2>3. \A k \in ToSet(planned_keys) : BackOrBarred(k)'
    BY <2>1, <2>2, StaysBack
  <2>4. QED
    BY <2>1, <2>3 DEF ReturnOK
<1>7. CASE RestoreCaches
  <2>1. CASE stage' = "idle"
    BY <1>1, <2>1
  <2>2. CASE /\ stage = "caches" /\ stage' = "caches"
             /\ UNCHANGED <<planned_keys, entry, blocked, snapshot>>
    <3>1. \A k \in ToSet(planned_keys) : BackOrBarred(k)'
      BY <2>2, StaysBack DEF ReturnOK
    <3>2. QED
      BY <2>2, <3>1 DEF ReturnOK
  <2>3. QED
    BY <1>7, <2>1, <2>2 DEF RestoreCaches, Finished, GoTo
<1>8. CASE WriteProviderFails
  BY <1>8 DEF WriteProviderFails, GoTo, ReturnOK
<1>9. CASE ApplyLock \/ WriteProvider \/ Rollback \/ InterruptWrite \/ UndoOwnProviderWrites
           \/ EndOfWrites \/ Neutralize \/ Scrub \/ OcDie
           \/ (\E S \in Seq(OcKey), adopt \in BOOLEAN : LockKeys(S, adopt))
           \/ (\E S \in Seq(OcKey) : UnlockKeys(S))
  <2>1. stage' \notin {"rollback", "restore", "unroll", "caches"}
    BY <1>9 DEF ApplyLock, WriteProvider, Rollback, InterruptWrite, UndoOwnProviderWrites,
       EndOfWrites, Neutralize, Scrub, OcDie, LockKeys, UnlockKeys, Finished, GoTo
  <2>2. QED
    BY <2>1, <1>1
<1>10. ASSUME NEW p \in Provider, NEW e \in OthersEntry(p), WriteEntry(p, e) PROVE ReturnOK'
  <2>1. UNCHANGED <<stage, queue, planned_keys, erred, blocked, snapshot>> /\ layout' = layout
    BY <1>10 DEF WriteEntry
  <2>2. \A k \in ToSet(planned_keys) : entry'[ProviderOf[k]] = entry[ProviderOf[k]]
    BY <1>0, <1>10, OthersElsewhere
  <2>3. \A k \in ToSet(planned_keys) : BackOrBarred(k) => BackOrBarred(k)'
    BY <2>1, <2>2, StaysBack
  <2>4. QED
    BY <2>1, <2>3 DEF ReturnOK
<1>11. ASSUME NEW p \in Provider, CacheKey(p) PROVE ReturnOK'
  BY <1>1, <1>11 DEF CacheKey, oc_command
<1>12. CASE UNCHANGED ocVars
  BY <1>12 DEF ocVars, oc_command, ReturnOK, BackOrBarred, Routed
<1>13. QED
  BY OcSteps, <1>2, <1>3, <1>4, <1>5, <1>6, <1>7, <1>8, <1>9, <1>10, <1>11, <1>12

(* A lock that reports success has been through every provider. *)
LEMMA SuccessMeansRouted ==
    ASSUME FollowInv, [OcNext]_ocVars, stage = "scrub", oc_status' = "ok", stage' = "idle"
    PROVE  \A p \in PlannedProviders(planned_keys) : Routed(entry[p])
<1>1. Scrub \/ OcDie
  BY OcSteps DEF LockKeys, UnlockKeys, ApplyLock, WriteProvider, WriteProviderFails, Rollback,
     InterruptWrite, UndoOwnProviderWrites, EndOfWrites, Neutralize, ApplyUnlock,
     RestoreProvider, RestoreProviderFails, Unroll, EndOfRestores, RestoreCaches, CacheKey,
     WriteEntry, ocVars, oc_command
<1>2. ~erred
  BY <1>1 DEF Scrub, OcDie, Finished, GoTo
<1>3. QED
  BY <1>2 DEF FollowInv, RouteOK

(* A cache gets its key back beside the provider's own entry only. *)
LEMMA CachesFollow ==
    ASSUME FollowInv, [OcNext]_ocVars, NEW p \in Provider,
           stage = "caches", cache'[p] # cache[p], Routed(entry[p])
    PROVE  snapshot.records[Head(queue)] = Bare
<1>1. RestoreCaches
  BY OcSteps DEF LockKeys, UnlockKeys, ApplyLock, WriteProvider, WriteProviderFails, Rollback,
     InterruptWrite, UndoOwnProviderWrites, EndOfWrites, Neutralize, Scrub, ApplyUnlock,
     RestoreProvider, RestoreProviderFails, Unroll, EndOfRestores, CacheKey,
     WriteEntry, OcDie, ocVars
<1>2. queue # << >> /\ p = ProviderOf[Head(queue)] /\ p \notin blocked
  BY <1>1 DEF RestoreCaches, FollowInv, ShapesOK
<1>3. BackOrBarred(Head(queue))
  BY <1>2, AtHead DEF FollowInv, ReturnOK
<1>4. QED
  BY <1>2, <1>3 DEF BackOrBarred

(* What lock and unlock of OpenClaw report and do, for any providers and keys and
   whoever else writes openclaw.json meanwhile: a lock that says "ok" has left each
   of its providers routed to a proxy; an agent's cache gets its real key back only
   beside an entry that calls the provider itself, or for a key without a record. *)
THEOREM RoutesAndCachesFollow == OcSpec => OpenClawFollows
<1>1. OcInit => FollowInv
  BY OpenClawAssumption, NothingAssumption
     DEF OcInit, FollowInv, ShapesOK, PlanOK, GoneBackTo, ReadFromRows, RouteOK, ReturnOK, OcRecord
<1>2. FollowInv /\ [OcNext]_ocVars => FollowInv'
  BY ShapesStep, PlanOKStep, GoneBackToStep, ReadFromRowsStep, RouteStep, ReturnStep DEF FollowInv
<1> DEFINE Told == stage = "scrub" /\ oc_status' = "ok" /\ stage' = "idle"
                     => \A p \in PlannedProviders(planned_keys) : Routed(entry[p])
           Beside == \A p \in Provider :
                       (stage = "caches" /\ cache'[p] # cache[p] /\ Routed(entry[p]))
                         => snapshot.records[Head(queue)] = Bare
<1>3. FollowInv /\ [OcNext]_ocVars => [Told]_ocVars /\ [Beside]_ocVars
  BY SuccessMeansRouted, CachesFollow
<1>4. QED
  BY <1>1, <1>2, <1>3, PTL DEF OcSpec, OpenClawFollows, OkMeansRouted, CacheFollowsEntry
=============================================================================
