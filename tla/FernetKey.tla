------------------------------- MODULE FernetKey -------------------------------
(***************************************************************************)
(* The master key that seals the shards of a home: found, minted, copied   *)
(* for the service and removed (cli/keystore.py, cli/bootstrap.py,         *)
(* uninstall's wipe), and moved out of iCloud by doctor                    *)
(* (commands/doctor/__init__.py over cli/keystore_macos.py).               *)
(*                                                                         *)
(* Commands exclude one another by acquire_lock (see ExclusiveLock), but   *)
(* ensure_home runs before it is taken and the end of uninstall after it   *)
(* was dropped.  A command may be killed at any step, a read of the        *)
(* keychain may raise, a write may fail.                                   *)
(*                                                                         *)
(* The keychain has a slot of this Mac only, one iCloud syncs and the      *)
(* staging slot of a migration.  Keys are numbered as they are minted; key *)
(* 1 is the one an older version left.  What lock, unlock and doctor do    *)
(* with the shards themselves is in KeyStores: here lock seals, and a      *)
(* restore opens, under the key that is found.                             *)
(***************************************************************************)
EXTENDS Naturals, FiniteSets

CONSTANTS
    Cli,            \* concurrent commands
    NoKey,
    NoCli,
    Blank,          \* what a write that was cut short leaves
    Overlaps,       \* may an uninstall, or a keychain that raises on the first
                    \* run, meet another command, or that a key which an
                    \* uninstall left in iCloud?
    MaxKeys,        \* bound: keys
    MaxTrouble      \* bound: kills, raising reads and failed writes

ASSUME FernetAssumption ==
    /\ NoKey \notin 1..MaxKeys
    /\ Blank \notin 1..MaxKeys
    /\ NoKey # Blank
    /\ NoCli \notin Cli
    /\ Overlaps \in BOOLEAN
    /\ MaxKeys \in Nat \ {0}
    /\ MaxTrouble \in Nat

FernetKeys == 1..MaxKeys
Places == {"local", "synced", "staging", "file", "recovery"}

VARIABLES
    place,          \* what is in each place
    keyring,        \* keyring_available
    marker,         \* .bootstrapped
    sealed,         \* keys the rows of the database are sealed under
    locked,         \* keys the .env files in use depend on
    minted,
    lock_holder,    \* acquire_lock
    now,            \* what each command does
    key,            \* _cached_fernet_key of each, or the value being moved
    trouble

home == <<place, marker, sealed, locked, minted>>
fernetVars == <<home, keyring, lock_holder, now, key, trouble>>

Now == {"out", "guard", "unmarked", "keyless", "first", "adopt", "mint", "touch", "seed", "ready", "lock", "sync",
        "import", "recover", "stage", "unsync", "canonical", "unstage", "healed",
        "restore", "forget", "unmark", "wipe"}

FernetTypeOK ==
    /\ place \in [Places -> FernetKeys \cup {NoKey, Blank}]
    /\ keyring \in BOOLEAN
    /\ marker \in BOOLEAN
    /\ sealed \subseteq FernetKeys \cup {Blank}
    /\ locked \subseteq FernetKeys \cup {Blank}
    /\ minted \in 0..MaxKeys
    /\ lock_holder \in Cli \cup {NoCli}
    /\ now \in [Cli -> Now]
    /\ key \in [Cli -> FernetKeys \cup {NoKey, Blank}]
    /\ trouble \in 0..MaxTrouble

Only(where) == [p \in Places |-> IF p = where THEN 1 ELSE NoKey]

\* No home; one of an older version, its key synced or in the file; or what
\* was copied to another Mac with the recovery file the docs tell to copy.
FernetInit ==
    /\ keyring \in BOOLEAN
    /\ \/ /\ place = [p \in Places |-> NoKey]
          /\ marker = FALSE
          /\ sealed = {}
          /\ minted = 0
       \/ /\ place \in {Only("file")} \cup
                (IF keyring THEN {Only("local"), Only("synced"), Only("recovery")} ELSE {})
          /\ marker = TRUE
          /\ sealed = {1}
          /\ minted = 1
    /\ locked = sealed
    /\ lock_holder = NoCli
    /\ now = [c \in Cli |-> "out"]
    /\ key = [c \in Cli |-> NoKey]
    /\ trouble = 0

Go(c, from, to) == now[c] = from /\ now' = [now EXCEPT ![c] = to]
Cached(c, k) == key' = [key EXCEPT ![c] = k]
Put(where, k) == place' = [place EXCEPT ![where] = k]
Trouble == trouble < MaxTrouble /\ trouble' = trouble + 1

Acquire(c) == lock_holder = NoCli /\ lock_holder' = c
Release(c) == lock_holder = c /\ lock_holder' = NoCli

\* The command ends, its lock dropped by acquire_lock's finally.
Ends(c) ==
    /\ now' = [now EXCEPT ![c] = "out"]
    /\ Cached(c, NoKey)
    /\ lock_holder' = IF lock_holder = c THEN NoCli ELSE lock_holder

-----------------------------------------------------------------------------
(* read_fernet_key: the keychain, then the file.                           *)

\* keyring.get_password finds the slot of this Mac first.
InKeyring == IF place["local"] # NoKey THEN place["local"] ELSE place["synced"]

Read == IF keyring /\ InKeyring # NoKey THEN InKeyring ELSE place["file"]

\* The keychain raised: the file is refused, and without one the key counts
\* as absent.
ReadRaises == keyring /\ place["file"] = NoKey

RefuseHome(c) ==
    /\ Ends(c)
    /\ UNCHANGED <<home, keyring, trouble>>

-----------------------------------------------------------------------------
(* ensure_home.                                                            *)

ShardRowsPresent == sealed # {}
ProvablyKeyless == place["file"] = NoKey /\ ~keyring

Uninstalling == {"restore", "forget", "unmark", "wipe"}

Begin(c) ==
    /\ Go(c, "out", "guard")
    /\ Overlaps \/ \A d \in Cli : now[d] \notin Uninstalling
    /\ UNCHANGED <<home, keyring, lock_holder, key, trouble>>

\* _guard_and_provision_keystore looks before it takes the lock.
Guard(c) ==
    /\ Go(c, "guard", CASE ~marker -> "unmarked"
                        [] marker /\ ProvablyKeyless /\ ~ShardRowsPresent -> "keyless"
                        [] OTHER -> "seed")
    /\ UNCHANGED <<home, keyring, lock_holder, key, trouble>>

LockHome(c) ==
    /\ Go(c, "unmarked", "first") \/ Go(c, "keyless", "adopt")
    /\ Acquire(c)
    /\ UNCHANGED <<home, keyring, key, trouble>>

\* LOCK_IN_PROGRESS.
HomeBusy(c) ==
    /\ now[c] \in {"unmarked", "keyless"}
    /\ lock_holder # NoCli
    /\ RefuseHome(c)

\* Mutant: the rows are not looked at again under the lock.
FirstRunAnyway(c) ==
    /\ Go(c, "first", "mint")
    /\ UNCHANGED <<home, keyring, lock_holder, key, trouble>>

\* Rows without a marker are an install cut in half, not a first run.
FirstRun(c) ==
    /\ ~ShardRowsPresent
    /\ Go(c, "first", "mint")
    /\ UNCHANGED <<home, keyring, lock_holder, key, trouble>>

\* ORPHANED_SHARD_DATA.
Orphaned(c) ==
    /\ now[c] = "first"
    /\ ShardRowsPresent
    /\ RefuseHome(c)

\* The marker of an interrupted uninstall, looked at again under the lock.
Adopt(c) ==
    /\ Go(c, "adopt", "mint")
    /\ ~ShardRowsPresent /\ ProvablyKeyless
    /\ marker' = FALSE
    /\ UNCHANGED <<place, sealed, locked, minted, keyring, lock_holder, key, trouble>>

AdoptNot(c) ==
    /\ Go(c, "adopt", "ready")
    /\ ShardRowsPresent \/ ~ProvablyKeyless
    /\ Release(c)
    /\ UNCHANGED <<home, keyring, key, trouble>>

\* _first_run_keystore with a key that is there: migrate_file_to_keyring.
KeepKey(c) ==
    /\ Go(c, "mint", "touch")
    /\ Read # NoKey
    /\ Cached(c, Read)
    /\ \/ keyring /\ InKeyring = NoKey
          /\ place' = [place EXCEPT !["local"] = place["file"], !["file"] = NoKey]
       \/ (~keyring \/ InKeyring # NoKey) /\ UNCHANGED place
    /\ Release(c)
    /\ UNCHANGED <<marker, sealed, locked, minted, keyring, trouble>>

\* store_fernet_key of a new one, in the keychain or else in the file.
Mint(c) ==
    /\ Go(c, "mint", "touch")
    /\ minted < MaxKeys
    /\ minted' = minted + 1
    /\ Cached(c, minted')
    /\ \/ /\ Read = NoKey
          /\ keyring
          /\ place' = [place EXCEPT !["local"] = minted', !["file"] = NoKey]
          /\ UNCHANGED trouble
       \/ /\ Read = NoKey
          /\ ~keyring
          /\ Put("file", minted')
          /\ UNCHANGED trouble
       \/ /\ Read = NoKey                       \* the keychain's write fails
          /\ keyring
          /\ Put("file", minted')
          /\ Trouble
       \/ /\ Read # NoKey                       \* its read raised
          /\ ReadRaises
          /\ Overlaps \/ (place["synced"] = NoKey /\ \A d \in Cli \ {c} : now[d] = "out")
          /\ Put("local", minted')
          /\ Trouble
    /\ Release(c)
    /\ UNCHANGED <<marker, sealed, locked, keyring>>

\* Killed while the key file was written.
MintTorn(c) ==
    /\ now[c] = "mint"
    /\ Read = NoKey /\ ~keyring
    /\ Trouble
    /\ Put("file", Blank)
    /\ Ends(c)
    /\ UNCHANGED <<marker, sealed, locked, minted, keyring>>

\* The marker is written after the database, and outside the lock.
Touch(c) ==
    /\ Go(c, "touch", "ready")
    /\ marker' = TRUE
    /\ UNCHANGED <<place, sealed, locked, minted, keyring, lock_holder, key, trouble>>

\* _seed_cache_from_advisory_source: the file's key, unless the keychain's
\* differs.
Seed(c) ==
    /\ Go(c, "seed", "ready")
    /\ Cached(c, IF place["file"] = NoKey THEN NoKey ELSE Read)
    /\ UNCHANGED <<home, keyring, lock_holder, trouble>>

\* The keychain raised: the file's key is cached.
SeedFromFile(c) ==
    /\ Go(c, "seed", "ready")
    /\ place["file"] # NoKey
    /\ keyring
    /\ Trouble
    /\ Cached(c, place["file"])
    /\ UNCHANGED <<home, keyring, lock_holder>>

-----------------------------------------------------------------------------
(* The commands.                                                           *)

\* home.fernet_key: read once, and cached.
FernetKey(c) == IF key[c] # NoKey THEN key[c] ELSE Read

\* refuse_a_key_that_opens_no_locked_key.
OpensSome(k) == k \notin {NoKey, Blank} /\ (sealed = {} \/ k \in sealed)

\* lock and enroll.
BeginLock(c) ==
    /\ Go(c, "ready", "lock")
    /\ OpensSome(FernetKey(c))
    /\ Acquire(c)
    /\ Cached(c, FernetKey(c))
    /\ UNCHANGED <<home, keyring, trouble>>

Seal(c) ==
    /\ Go(c, "lock", "sync")
    /\ sealed' = sealed \cup {key[c]}
    /\ locked' = locked \cup {key[c]}
    /\ UNCHANGED <<place, marker, minted, keyring, lock_holder, key, trouble>>

\* sync_fernet_for_launchd: the file the service reads, unless it has the key.
SyncForLaunchd(k) == place' = [place EXCEPT !["file"] = k]

\* _sync_fernet_after_lock: not over another key.
SyncFernet(c) ==
    /\ now[c] = "sync"
    /\ IF place["file"] = NoKey THEN SyncForLaunchd(key[c]) ELSE UNCHANGED place
    /\ Ends(c)
    /\ UNCHANGED <<marker, sealed, locked, minted, keyring, trouble>>

\* unlock: what the key opens is given back, its rows deleted.
Unlock(c) ==
    /\ now[c] = "ready"
    /\ lock_holder = NoCli
    /\ FernetKey(c) \in sealed
    /\ sealed' = sealed \ {FernetKey(c)}
    /\ locked' = locked \ {FernetKey(c)}
    /\ Ends(c)
    /\ UNCHANGED <<place, marker, minted, keyring, trouble>>

NoKeyFound(c) ==
    /\ now[c] = "ready"
    /\ RefuseHome(c)

-----------------------------------------------------------------------------
(* doctor --fix.                                                           *)

\* get_home and home.fernet_key come first: an install whose key cannot be
\* read is reported as broken, and nothing else is looked at.
StartDoctor(c) ==
    /\ Go(c, "ready", "import")
    /\ FernetKey(c) # NoKey
    /\ Acquire(c)
    /\ UNCHANGED <<home, keyring, key, trouble>>

ReportUnopenable(c) ==
    /\ Go(c, "ready", "healed")
    /\ keyring
    /\ FernetKey(c) = NoKey
    /\ UNCHANGED <<home, keyring, lock_holder, key, trouble>>

\* _import_recovery_files: a key this Mac has makes the file a stale one.
Import(c) ==
    /\ Go(c, "import", IF place["synced"] = NoKey THEN "healed" ELSE "recover")
    /\ place' = IF place["recovery"] = NoKey \/ ~keyring THEN place
                ELSE [place EXCEPT !["recovery"] = NoKey,
                                   !["local"] = IF @ = NoKey THEN place["recovery"] ELSE @]
    /\ UNCHANGED <<marker, sealed, locked, minted, keyring, lock_holder, key, trouble>>

\* _migrate_one reads the value in any scope: either slot may answer.
Recover(c) ==
    /\ Go(c, "recover", "stage")
    /\ \E slot \in {"local", "synced"} :
            /\ place[slot] # NoKey
            /\ Cached(c, place[slot])
            /\ IF place["recovery"] = NoKey THEN Put("recovery", place[slot]) ELSE UNCHANGED place
    /\ UNCHANGED <<marker, sealed, locked, minted, keyring, lock_holder, trouble>>

Stage(c) ==
    /\ Go(c, "stage", "unsync")
    /\ Put("staging", key[c])
    /\ UNCHANGED <<marker, sealed, locked, minted, keyring, lock_holder, key, trouble>>

\* The synced original goes once staging was read back.
Unsync(c) ==
    /\ Go(c, "unsync", "canonical")
    /\ Put("synced", NoKey)
    /\ UNCHANGED <<marker, sealed, locked, minted, keyring, lock_holder, key, trouble>>

\* set_password_local deletes the slot before it adds to it.
CanonicalAdd(c) ==
    /\ Go(c, "canonical", "unstage")
    /\ Put("local", key[c])
    /\ UNCHANGED <<marker, sealed, locked, minted, keyring, lock_holder, key, trouble>>

\* Add failed after the delete, or was cut off.
CanonicalFails(c) ==
    /\ now[c] = "canonical"
    /\ Trouble
    /\ Put("local", NoKey)
    /\ Ends(c)
    /\ UNCHANGED <<marker, sealed, locked, minted, keyring>>

Unstage(c) ==
    /\ Go(c, "unstage", "healed")
    /\ Put("staging", NoKey)
    /\ UNCHANGED <<marker, sealed, locked, minted, keyring, lock_holder, key, trouble>>

Healed(c) ==
    /\ now[c] = "healed"
    /\ RefuseHome(c)

-----------------------------------------------------------------------------
(* uninstall.                                                              *)

\* It does not bootstrap; a key that cannot be read stops it (or, with
\* --force, gives up what it sealed).
BeginUninstall(c) ==
    /\ Go(c, "out", "restore")
    /\ Overlaps \/ \A d \in Cli : now[d] = "out"
    /\ Acquire(c)
    /\ Cached(c, Read)
    /\ UNCHANGED <<home, keyring, trouble>>

\* Every file is restored and its row deleted, or the wipe does not happen.
RestoreAll(c) ==
    /\ Go(c, "restore", "forget")
    /\ sealed \subseteq {key[c]}
    /\ sealed' = {}
    /\ locked' = {}
    /\ UNCHANGED <<place, marker, minted, keyring, lock_holder, key, trouble>>

RestoreFails(c) ==
    /\ now[c] = "restore"
    /\ ~(sealed \subseteq {key[c]})
    /\ sealed' = sealed \ {key[c]}
    /\ locked' = locked \ {key[c]}
    /\ Ends(c)
    /\ UNCHANGED <<place, marker, minted, keyring, trouble>>

DeleteFernetKey(c) ==
    /\ Go(c, "forget", "unmark")
    /\ place' = [place EXCEPT !["local"] = IF keyring THEN NoKey ELSE @,
                              !["synced"] = IF keyring /\ place["local"] = NoKey THEN NoKey ELSE @,
                              !["file"] = NoKey]
    /\ UNCHANGED <<marker, sealed, locked, minted, keyring, lock_holder, key, trouble>>

Unmark(c) ==
    /\ Go(c, "unmark", "wipe")
    /\ marker' = FALSE
    /\ Release(c)
    /\ UNCHANGED <<place, sealed, locked, minted, keyring, key, trouble>>

\* _finalize_wipe removes the home with what is in it by now.
FinalizeWipe(c) ==
    /\ now[c] = "wipe"
    /\ sealed' = {}
    /\ marker' = FALSE
    /\ place' = [place EXCEPT !["file"] = NoKey, !["recovery"] = NoKey]
    /\ Ends(c)
    /\ UNCHANGED <<locked, minted, keyring, trouble>>

KillCli(c) ==
    /\ now[c] # "out"
    /\ Trouble
    /\ Ends(c)
    /\ UNCHANGED <<home, keyring>>

FernetNext ==
    \E c \in Cli :
        \/ Begin(c) \/ Guard(c) \/ LockHome(c) \/ HomeBusy(c) \/ FirstRun(c)
        \/ Orphaned(c) \/ Adopt(c) \/ AdoptNot(c) \/ KeepKey(c) \/ Mint(c) \/ MintTorn(c)
        \/ Touch(c) \/ Seed(c) \/ SeedFromFile(c)
        \/ BeginLock(c) \/ Seal(c) \/ SyncFernet(c) \/ Unlock(c) \/ NoKeyFound(c)
        \/ StartDoctor(c) \/ ReportUnopenable(c) \/ Import(c) \/ Recover(c)
        \/ Stage(c) \/ Unsync(c) \/ CanonicalAdd(c)
        \/ CanonicalFails(c) \/ Unstage(c) \/ Healed(c)
        \/ BeginUninstall(c) \/ RestoreAll(c) \/ RestoreFails(c) \/ DeleteFernetKey(c)
        \/ Unmark(c) \/ FinalizeWipe(c) \/ KillCli(c)

FernetSpec == FernetInit /\ [][FernetNext]_fernetVars

-----------------------------------------------------------------------------
(* Properties.                                                             *)

\* Whatever raced, failed or was killed, the rows of a locked file are there,
\* and the key that opens them is somewhere.
KeyKept ==
    \A k \in locked : k \in sealed /\ \E p \in Places : place[p] = k

\* One database, one key: no two commands seal under different ones.
OneKey == Cardinality(sealed) =< 1

\* The wipe of uninstall takes nothing a locked file still needs.
WipeAfterRestore == [][\A c \in Cli : FinalizeWipe(c) => locked = {}]_fernetVars

\* What is sealed can be opened: there is one key, and it is never lost.
OneKeyKept == OneKey /\ KeyKept

=============================================================================
