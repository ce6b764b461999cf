------------------------------ MODULE Migrations ------------------------------
(***************************************************************************)
(* Bringing an older database up to date (storage/schema.py, and _init_db  *)
(* in cli/bootstrap.py, with which every command starts).                  *)
(*                                                                         *)
(* Nothing locks it: after an upgrade the service, a command and a wrapped *)
(* run may all do it at once, and each may be killed between any two       *)
(* statements.  SQLite commits every CREATE and ALTER by itself; what a    *)
(* table lacks is read once, before its columns are added.                 *)
(*                                                                         *)
(* Which release added which column is not in the repository: a table of   *)
(* an older database has any of them.  One column stands for those that    *)
(* are added in the same way.                                              *)
(***************************************************************************)
EXTENDS Naturals, Sequences, FiniteSets

CONSTANTS
    Starter,        \* processes that start up
    MaxRuns,        \* bound: starts
    MaxSeconds      \* bound: the clock, in seconds

ASSUME MigrationsAssumption == MaxRuns \in Nat /\ MaxSeconds \in Nat

\* base_url for every column of shards; original_mode for it and the
\* base_url_restore columns; ceiling_override for the budgets too.
ColumnsOf ==
    [shards |-> {"base_url"},
     enrollments |-> {"decoy_hash", "original_mode"},
     pending_charges |-> {"provider"},
     enrollment_config |-> {"ceiling_override"}]
Table == DOMAIN ColumnsOf
DeadColumn == "oc_original_base_url"
Column == (UNION {ColumnsOf[t] : t \in Table}) \cup {DeadColumn}
TableOf(c) == IF c = DeadColumn THEN "shards" ELSE CHOOSE t \in Table : c \in ColumnsOf[t]

VARIABLES
    tables,         \* that exist
    columns,        \* that exist
    decoy_index,    \* does idx_enrollments_decoy_hash exist?
    backups,        \* seconds a backup is named after
    second,
    was_old,        \* was there a shards table without base_url (history)
    statement,      \* of each process the next statement
    saw,            \* the columns it last read of a table
    outcome,        \* "never", "running", "done", "failed", "killed"
    alone,          \* has nobody else run a statement in its run (history)
    runs

database == <<tables, columns, decoy_index, backups>>
migrationVars == <<database, second, was_old, statement, saw, outcome, alone, runs>>
-----------------------------------------------------------------------------
(***************************************************************************)
(* The statements of a start, in order: _init_db, whose SCHEMA creates     *)
(* what is missing and indexes decoy_hash, then migrate_db.  "hard": a     *)
(* duplicate column is not tolerated.                                      *)
(***************************************************************************)
Do(op, what) == [op |-> op, what |-> what]

PreStep == <<Do("read", "enrollments"), Do("add", "decoy_hash")>>

SchemaScript ==
    <<Do("create", "shards"), Do("create", "enrollment_config"), Do("create", "enrollments"),
      Do("create", "pending_charges"), Do("index", "decoy_hash")>>

MigrateDb ==
    <<Do("create", "pending_charges"), Do("read", "pending_charges"), Do("hard", "provider"),
      Do("read", "enrollments"), Do("add", "decoy_hash"), Do("index", "decoy_hash"),
      Do("add", "original_mode"),
      Do("read", "shards"), Do("drop", DeadColumn),
      Do("backup", "base_url"), Do("add", "base_url"),
      Do("read", "enrollment_config"), Do("add", "ceiling_override")>>

ProgramSchemaFirst == SchemaScript \o MigrateDb
Program == PreStep \o SchemaScript \o MigrateDb
-----------------------------------------------------------------------------
NextStatement(p) == Program[statement[p]]
Running(p) == outcome[p] = "running"

GoesOn(p) ==
    /\ statement' = [statement EXCEPT ![p] = @ + 1]
    /\ outcome' = [outcome EXCEPT ![p] = IF statement[p] = Len(Program) THEN "done" ELSE @]

Fails(p) == statement' = statement /\ outcome' = [outcome EXCEPT ![p] = "failed"]

Noticed(p) == alone' = [q \in Starter |-> alone[q] /\ (q = p \/ ~Running(q))]

\* PRAGMA table_info; of a table that does not exist it says nothing.
ReadColumns(p) ==
    /\ NextStatement(p).op = "read"
    /\ saw' = [saw EXCEPT ![p] = {c \in columns : TableOf(c) = NextStatement(p).what}]
    /\ GoesOn(p) /\ UNCHANGED database

\* CREATE TABLE IF NOT EXISTS.
CreateTable(p) ==
    /\ NextStatement(p).op = "create"
    /\ tables' = tables \cup {NextStatement(p).what}
    /\ columns' = IF NextStatement(p).what \in tables THEN columns ELSE columns \cup ColumnsOf[NextStatement(p).what]
    /\ GoesOn(p) /\ UNCHANGED <<decoy_index, backups, saw>>

\* CREATE INDEX IF NOT EXISTS: an error where the column is missing.
CreateIndex(p) ==
    /\ NextStatement(p).op = "index"
    /\ IF decoy_index \/ "decoy_hash" \in columns
       THEN decoy_index' = TRUE /\ GoesOn(p)
       ELSE decoy_index' = decoy_index /\ Fails(p)
    /\ UNCHANGED <<tables, columns, backups, saw>>

(***************************************************************************)
(* ALTER TABLE ADD COLUMN, for a column it did not see in a table that     *)
(* exists.  If another process was faster the error is swallowed.          *)
(***************************************************************************)
Wanted(p, c) == c \notin saw[p] /\ TableOf(c) \in tables

AddColumn(p) ==
    /\ NextStatement(p).op = "add"
    /\ columns' = IF Wanted(p, NextStatement(p).what) THEN columns \cup {NextStatement(p).what} ELSE columns
    /\ GoesOn(p) /\ UNCHANGED <<tables, decoy_index, backups, saw>>

\* _migrate_pending_charges swallows nothing.
AddColumnHard(p) ==
    /\ NextStatement(p).op = "hard"
    /\ IF Wanted(p, NextStatement(p).what) /\ NextStatement(p).what \in columns
       THEN columns' = columns /\ Fails(p)
       ELSE columns' = columns \cup {NextStatement(p).what} /\ GoesOn(p)
    /\ UNCHANGED <<tables, decoy_index, backups, saw>>

\* ALTER TABLE DROP COLUMN; an older SQLite cannot, and keeps it.
DropDeadColumn(p) ==
    /\ NextStatement(p).op = "drop"
    /\ \E dropped \in IF DeadColumn \in saw[p] THEN BOOLEAN ELSE {FALSE} :
          columns' = IF dropped THEN columns \ {DeadColumn} ELSE columns
    /\ GoesOn(p) /\ UNCHANGED <<tables, decoy_index, backups, saw>>

\* VACUUM INTO a file named after the second: an error if it exists.
BackUp(p) ==
    /\ NextStatement(p).op = "backup"
    /\ IF "base_url" \in saw[p] THEN backups' = backups /\ GoesOn(p)
       ELSE IF second \in backups THEN backups' = backups /\ Fails(p)
       ELSE backups' = backups \cup {second} /\ GoesOn(p)
    /\ UNCHANGED <<tables, columns, decoy_index, saw>>

Statement(p) ==
    /\ Running(p)
    /\ \/ ReadColumns(p) \/ CreateTable(p) \/ CreateIndex(p) \/ AddColumn(p)
       \/ AddColumnHard(p) \/ DropDeadColumn(p) \/ BackUp(p)
    /\ Noticed(p)
    /\ UNCHANGED <<second, was_old, runs>>

(***************************************************************************)
(* A start that nobody else runs beside comes in a later second than the   *)
(* last backup (one that is retried within the same second does fail).     *)
(***************************************************************************)
StartUp(p) ==
    /\ ~Running(p) /\ runs < MaxRuns
    /\ second \notin backups \/ \E q \in Starter : Running(q)
    /\ statement' = [statement EXCEPT ![p] = 1]
    /\ saw' = [saw EXCEPT ![p] = {}]
    /\ outcome' = [outcome EXCEPT ![p] = "running"]
    /\ alone' = [alone EXCEPT ![p] = \A q \in Starter \ {p} : ~Running(q)]
    /\ runs' = runs + 1
    /\ UNCHANGED <<database, second, was_old>>

Killed(p) ==
    /\ Running(p)
    /\ outcome' = [outcome EXCEPT ![p] = "killed"]
    /\ UNCHANGED <<database, second, was_old, statement, saw, alone, runs>>

NextSecond ==
    /\ second < MaxSeconds /\ second \in backups
    /\ second' = second + 1
    /\ UNCHANGED <<database, was_old, statement, saw, outcome, alone, runs>>
-----------------------------------------------------------------------------
MigrationsInit ==
    /\ tables \in {{}, Table, Table \ {"pending_charges", "enrollment_config"}}
    /\ columns \in SUBSET {c \in Column : TableOf(c) \in tables}
    /\ decoy_index = ("decoy_hash" \in columns)
    /\ backups = {} /\ second = 0
    /\ was_old = ("shards" \in tables /\ "base_url" \notin columns)
    /\ statement = [p \in Starter |-> 1]
    /\ saw = [p \in Starter |-> {}]
    /\ outcome = [p \in Starter |-> "never"]
    /\ alone = [p \in Starter |-> TRUE]
    /\ runs = 0

MigrationsNext ==
    \/ \E p \in Starter : Statement(p) \/ StartUp(p) \/ Killed(p)
    \/ NextSecond

MigrationsSpec == MigrationsInit /\ [][MigrationsNext]_migrationVars
-----------------------------------------------------------------------------
MigrationsTypeOK ==
    /\ tables \subseteq Table
    /\ \A c \in columns : TableOf(c) \in tables
    /\ decoy_index => "decoy_hash" \in columns
    /\ backups \subseteq 0..second
    /\ \A p \in Starter : statement[p] \in 1..(Len(Program) + 1) /\ saw[p] \subseteq Column

(***************************************************************************)
(* Who has started up finds every table, column and index its statements   *)
(* name, whoever raced it or was killed half way.                          *)
(***************************************************************************)
DoneMeansWhole ==
    \A p \in Starter : outcome[p] = "done" =>
        /\ tables = Table /\ decoy_index
        /\ \A t \in Table : ColumnsOf[t] \subseteq columns

(***************************************************************************)
(* No database an older version or a killed start can leave makes a start  *)
(* fail for good: one that nobody interferes with succeeds.                *)
(***************************************************************************)
OnlyARaceFails == \A p \in Starter : outcome[p] = "failed" => ~alone[p]

\* "Defensive snapshot": a shards table gets base_url only with a copy beside it.
BackedUpFirst == was_old /\ "base_url" \in columns => backups # {}

(***************************************************************************)
(* A start that ends well has a whole database, one that fails owes it to  *)
(* a race, and whatever happens the old keys were copied first.            *)
(***************************************************************************)
StartsSafely == DoneMeansWhole /\ OnlyARaceFails /\ BackedUpFirst

=============================================================================
