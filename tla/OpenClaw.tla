------------------------------ MODULE OpenClaw ------------------------------
(***************************************************************************)
(* What lock and unlock do to the user's OpenClaw (openclaw/integration.py *)
(* over openclaw/config.py): the provider entries of openclaw.json, the    *)
(* credentials its agents cache, and the record of each original entry     *)
(* that lock keeps in the shards row of the alias.                         *)
(*                                                                         *)
(* The key stores are KeyStores' business: here a key is locked by one     *)
(* step and unlocked by one step, and the OpenClaw stage follows.  A step  *)
(* of a stage is one change of a file under its flock, so OpenClaw and the *)
(* user may change other entries in between; a write may fail, a signal    *)
(* may arrive, the process may be killed.                                  *)
(***************************************************************************)
EXTENDS Naturals, Sequences, FiniteSets, SequencesExt

CONSTANTS
    OcKey,          \* API keys of the .env, each standing for its alias
    Provider,       \* providers, as openclaw.json names them
    ProviderOf,     \* the provider of a key
    Stranger,       \* an alias this machine has no record of
    OtherKey,       \* a key the user keeps in OpenClaw alone
    Ref,            \* the user's pointer to a key kept elsewhere
    Nothing,        \* no entry, no row, no record
    Layouts,        \* what openclaw.json may be when the model starts
    RollbackRaces,  \* may others write the file before it is rolled back?
    OcMortal,       \* stages that may fail or be killed
    MaxRevisions,   \* bound: changes to openclaw.json by others
    MaxOcFaults     \* bound: failures

Stages == {"idle", "captured", "write", "rollback", "undo", "neutralize",
           "scrub", "unlocked", "restore", "unroll", "caches"}

ASSUME OpenClawAssumption ==
    /\ ProviderOf \in [OcKey -> Provider]
    /\ Layouts \subseteq {"absent", "missing", "present", "corrupt", "denied",
                          "foreign", "link"}
    /\ OcMortal \subseteq Stages
    /\ IsFiniteSet(OcKey)
    /\ {Stranger, OtherKey, Ref, Nothing, "own"} \cap OcKey = {}
    /\ RollbackRaces \in BOOLEAN
    /\ MaxRevisions \in Nat
    /\ MaxOcFaults \in Nat

Half == [half : OcKey]              \* a shard-A
Masked == [var : OcKey]             \* ${VAR}, the SecretRef of an .env key
Secrets == OcKey \cup {OtherKey}

\* The fields of an entry that lock leaves alone are its revision.
OcEntry == [to : {"own", Stranger} \cup OcKey,
            key : Secrets \cup Half \cup {Ref},
            revision : 0..MaxRevisions]

OcRecord == [kind : {"plaintext", "secretref"}, revision : 0..MaxRevisions]
Bare == [kind |-> "none", revision |-> 0]       \* a row without a record

\* Nothing is no entry and no record.
ASSUME NothingAssumption == Nothing \notin OcEntry \cup OcRecord \cup {Bare}

VARIABLES
    layout,         \* openclaw.json, the file
    entry,          \* its provider entries
    cache,          \* the credential agents cache for a provider
    oc_row,         \* shards: Nothing, or whether the row has a record
    stage,          \* of the running command
    queue,          \* what is left of the stage
    planned_keys,   \* the keys the command is about
    takes_over,     \* aliases whose proxy entries lock may overwrite
    snapshot,       \* original_config
    providers_set,  \* providers_set, providers_restored
    blocked,        \* agent_cache_blocked
    erred,          \* result.has_failure
    oc_status,      \* the sentinel the last command wrote
    changed,        \* somebody else wrote the file since the snapshot
    owner,          \* each entry as its owner last wrote it (history)
    unrestored,     \* providers an unlock did not get to restore (history)
    revisions, oc_faults

oc_command == <<stage, queue, planned_keys, takes_over, snapshot, providers_set,
                blocked, erred, oc_status, changed>>
ocUser == <<owner, unrestored, revisions>>
ocVars == <<layout, entry, cache, oc_row, oc_command, ocUser, oc_faults>>

OcTypeOK ==
    /\ layout \in Layouts \cup {"present"}
    /\ entry \in [Provider -> OcEntry \cup {Nothing}]
    /\ cache \in [Provider -> Secrets \cup Half \cup Masked \cup {Nothing}]
    /\ oc_row \in [OcKey -> {Nothing, Bare} \cup OcRecord]
    /\ stage \in Stages
    /\ queue \in Seq(OcKey)
    /\ planned_keys \in Seq(OcKey)
    /\ takes_over \subseteq OcKey \cup {Stranger}
    /\ providers_set \subseteq Provider
    /\ blocked \subseteq Provider
    /\ erred \in BOOLEAN
    /\ oc_status \in {"none", "ok", "absent", "failed"}
    /\ owner \in [Provider -> OcEntry \cup {Nothing}]
    /\ unrestored \subseteq Provider

OcInit ==
    /\ layout \in Layouts
    /\ entry = [p \in Provider |-> Nothing]
    /\ cache = [p \in Provider |-> Nothing]
    /\ oc_row = [k \in OcKey |-> Nothing]
    /\ stage = "idle"
    /\ queue = << >>
    /\ planned_keys = << >>
    /\ takes_over = {}
    /\ snapshot = Nothing
    /\ providers_set = {}
    /\ blocked = {}
    /\ erred = FALSE
    /\ oc_status = "none"
    /\ changed = FALSE
    /\ owner = [p \in Provider |-> Nothing]
    /\ unrestored = {}
    /\ revisions = 0
    /\ oc_faults = 0

Routed(e) == e # Nothing /\ e.to # "own"

KeysOf(p) == {k \in OcKey : ProviderOf[k] = p}

PlannedProviders(S) == {ProviderOf[S[i]] : i \in DOMAIN S}

\* A stage ends, and with it the command.
Finished(status) ==
    /\ stage' = "idle"
    /\ oc_status' = status
    /\ queue' = << >>
    /\ planned_keys' = << >>
    /\ takes_over' = {}
    /\ snapshot' = Nothing
    /\ providers_set' = {}
    /\ blocked' = {}
    /\ erred' = FALSE
    /\ changed' = FALSE

OcFault ==
    /\ stage \in OcMortal
    /\ oc_faults < MaxOcFaults
    /\ oc_faults' = oc_faults + 1

GoTo(s, q) == stage' = s /\ queue' = q /\ UNCHANGED <<planned_keys, takes_over, oc_status>>

-----------------------------------------------------------------------------
(* lock.                                                                   *)

\* build_oc_rollback_entry_record: the entry without its key.
RecordOf(e) ==
    [kind |-> IF e.key = Ref THEN "secretref" ELSE "plaintext",
     revision |-> e.revision]

\* Mutant: a proxy entry passes for an original.
CapturedFromProxy(k) ==
    LET e == IF layout \in {"present", "foreign"} THEN entry[ProviderOf[k]] ELSE Nothing
        prior == IF oc_row[k] \in OcRecord THEN oc_row[k] ELSE Bare
    IN  IF e = Nothing THEN prior ELSE RecordOf(e)

\* classify_oc_entry_for_capture, on what lock could read of openclaw.json.
Captured(k) ==
    LET e == IF layout \in {"present", "foreign"} THEN entry[ProviderOf[k]] ELSE Nothing
        prior == IF oc_row[k] \in OcRecord THEN oc_row[k] ELSE Bare
    IN  IF e = Nothing \/ Routed(e) THEN prior ELSE RecordOf(e)

\* The keys are locked, each row with the record of its provider's entry.  Proxy
\* entries of aliases without a row are the user's to give up: adopt is that
\* answer, --adopt, or a shell that cannot be asked.
LockKeys(S, adopt) ==
    /\ stage = "idle"
    /\ takes_over' = IF adopt THEN OcKey \cup {Stranger}
                     ELSE {k \in OcKey : oc_row[k] # Nothing}
    /\ oc_row' = [k \in OcKey |-> IF k \in ToSet(S) THEN Captured(k) ELSE oc_row[k]]
    /\ stage' = "captured"
    /\ queue' = S
    /\ planned_keys' = S
    /\ UNCHANGED <<layout, entry, cache, snapshot, providers_set, blocked, erred,
                   oc_status, changed, ocUser, oc_faults>>

\* apply_lock up to stage A: what stops it, or the snapshot it takes.
ApplyLock ==
    /\ stage = "captured"
    /\ \/ /\ layout = "absent"
          /\ Finished("absent")
       \/ /\ layout \in {"foreign", "denied", "link"}
          /\ Finished("failed")
       \/ /\ layout \in {"missing", "present", "corrupt"}
          /\ GoTo("write", queue)
          /\ snapshot' = [was |-> layout, file |-> entry]
          /\ changed' = FALSE
          /\ UNCHANGED <<providers_set, blocked, erred>>
    /\ UNCHANGED <<layout, entry, cache, oc_row, ocUser, oc_faults>>

\* _classify_adoption.
Unrecognized(p) == Routed(entry[p]) /\ entry[p].to \notin takes_over

\* set_provider: baseUrl and apiKey of the entry, whatever else it holds.
Wired(p, k) ==
    [to |-> k, key |-> [half |-> k],
     revision |-> IF entry[p] = Nothing THEN 0 ELSE entry[p].revision]

\* _apply_lock_write_providers, one planned key.
WriteProvider ==
    LET k == Head(queue)
        p == ProviderOf[k]
    IN  /\ stage = "write"
        /\ queue # << >>
        /\ \/ /\ layout = "corrupt"
              /\ erred' = TRUE
              /\ UNCHANGED <<layout, entry, providers_set>>
           \/ /\ layout # "corrupt"
              /\ Unrecognized(p)
              /\ UNCHANGED <<layout, entry, providers_set, erred>>
           \/ /\ layout # "corrupt"
              /\ ~Unrecognized(p)
              /\ entry' = [entry EXCEPT ![p] = Wired(p, k)]
              /\ layout' = "present"
              /\ providers_set' = providers_set \cup {p}
              /\ UNCHANGED erred
        /\ GoTo("write", Tail(queue))
        /\ UNCHANGED <<cache, oc_row, snapshot, blocked, changed, ocUser, oc_faults>>

\* An OSError: the whole file goes back to the snapshot.
WriteProviderFails ==
    /\ stage = "write"
    /\ queue # << >>
    /\ layout # "corrupt"
    /\ changed => RollbackRaces
    /\ OcFault
    /\ erred' = TRUE
    /\ GoTo("rollback", << >>)
    /\ UNCHANGED <<layout, entry, cache, oc_row, snapshot, providers_set, blocked,
                   changed, ocUser>>

\* rollback_config.
RolledBack ==
    \/ /\ snapshot.was = "missing"
       /\ layout' = "missing"
       /\ entry' = [p \in Provider |-> Nothing]
    \/ /\ snapshot.was = "present"
       /\ entry' = snapshot.file
       /\ UNCHANGED layout

\* _apply_lock_rollback, which may fail in its turn.
Rollback ==
    /\ stage = "rollback"
    /\ \/ RolledBack /\ UNCHANGED oc_faults
       \/ OcFault /\ UNCHANGED <<layout, entry>>
    /\ providers_set' = {}
    /\ GoTo("neutralize", << >>)
    /\ UNCHANGED <<cache, oc_row, snapshot, blocked, erred, changed, ocUser>>

\* Ctrl-C in stage A: what this lock wrote is taken back, key by key.
InterruptWrite ==
    /\ stage = "write"
    /\ OcFault
    /\ erred' = TRUE
    /\ GoTo("undo", planned_keys)
    /\ UNCHANGED <<layout, entry, cache, oc_row, snapshot, providers_set, blocked,
                   changed, ocUser>>

\* _undo_own_provider_writes with revert_provider_if_ours.
Reverts(k) ==
    LET p == ProviderOf[k] IN
    /\ ~(Routed(snapshot.file[p]) /\ snapshot.file[p].to = k)
    /\ Routed(entry[p])
    /\ entry[p].to = k

UndoOwnProviderWrites ==
    /\ stage = "undo"
    /\ \/ /\ queue # << >>
          /\ snapshot.was # "corrupt"
          /\ entry' = IF Reverts(Head(queue))
                      THEN [entry EXCEPT ![ProviderOf[Head(queue)]] =
                                snapshot.file[ProviderOf[Head(queue)]]]
                      ELSE entry
          /\ GoTo("undo", Tail(queue))
          /\ UNCHANGED <<snapshot, providers_set, blocked, erred, changed>>
       \/ /\ queue = << >> \/ snapshot.was = "corrupt"
          /\ Finished("failed")
          /\ UNCHANGED entry
    /\ UNCHANGED <<layout, cache, oc_row, ocUser, oc_faults>>

EndOfWrites ==
    /\ stage = "write"
    /\ queue = << >>
    /\ GoTo("neutralize", << >>)
    /\ UNCHANGED <<layout, entry, cache, oc_row, snapshot, providers_set, blocked,
                   erred, changed, ocUser, oc_faults>>

\* _apply_lock_neutralize_models_json: projections of the old key half go.
Neutralize ==
    /\ stage = "neutralize"
    /\ cache' = [p \in Provider |->
                    IF p \in providers_set /\ cache[p] \in Half THEN Nothing ELSE cache[p]]
    /\ GoTo("scrub", SelectSeq(planned_keys, LAMBDA k : ProviderOf[k] \in providers_set))
    /\ UNCHANGED <<layout, entry, oc_row, snapshot, providers_set, blocked, erred,
                   changed, ocUser, oc_faults>>

\* scrub_agent_auth_stores: real keys become SecretRefs; then the skill, whose
\* installation may fail.
Scrub ==
    /\ stage = "scrub"
    /\ \/ /\ queue # << >>
          /\ LET p == ProviderOf[Head(queue)] IN
                cache' = [cache EXCEPT ![p] =
                            IF @ \in Secrets THEN [var |-> Head(queue)] ELSE @]
          /\ GoTo("scrub", Tail(queue))
          /\ UNCHANGED <<snapshot, providers_set, blocked, erred, changed, oc_faults>>
       \/ /\ queue = << >>
          /\ \/ Finished(IF erred THEN "failed" ELSE "ok") /\ UNCHANGED oc_faults
             \/ Finished("failed") /\ OcFault
          /\ UNCHANGED cache
    /\ UNCHANGED <<layout, entry, oc_row, ocUser>>

-----------------------------------------------------------------------------
(* unlock.                                                                 *)

\* The keys are unlocked: their lines and rows are gone before the stage runs,
\* which works from the records it read (_PlannedRestore).
UnlockKeys(S) ==
    /\ stage = "idle"
    /\ \A i \in DOMAIN S : oc_row[S[i]] # Nothing
    /\ planned_keys' = S
    /\ queue' = S
    /\ snapshot' = [k \in ToSet(S) |-> oc_row[k]]
    /\ oc_row' = [k \in OcKey |-> IF k \in ToSet(S) THEN Nothing ELSE oc_row[k]]
    /\ stage' = "unlocked"
    /\ unrestored' = unrestored \cup {ProviderOf[k] : k \in {j \in ToSet(S) : oc_row[j] # Bare}}
    /\ UNCHANGED <<layout, entry, cache, takes_over, providers_set, blocked, erred,
                   oc_status, changed, owner, revisions, oc_faults>>

\* apply_unlock up to stage A.  A file that is missing, or not readable for the
\* user, skips the stage; the caches are restored all the same.
ApplyUnlock ==
    /\ stage = "unlocked"
    /\ \/ /\ layout = "absent"
          /\ Finished("absent")
       \/ /\ layout = "link"
          /\ Finished("failed")
       \/ /\ layout \in {"missing", "foreign", "denied"}
          /\ erred' = (layout # "missing")
          /\ GoTo("caches", queue)
          /\ UNCHANGED <<snapshot, providers_set, blocked, changed>>
       \/ /\ layout \in {"present", "corrupt"}
          /\ GoTo("restore", queue)
          /\ snapshot' = [file |-> entry, records |-> snapshot]
          /\ changed' = FALSE
          /\ UNCHANGED <<providers_set, blocked, erred>>
    /\ UNCHANGED <<layout, entry, cache, oc_row, ocUser, oc_faults>>

\* The original, its key from the .env or its SecretRef as it was.
Original(r, k) ==
    [to |-> "own", key |-> IF r.kind = "secretref" THEN Ref ELSE k,
     revision |-> r.revision]

\* _apply_unlock_stage_a, one restore: a key without a record is skipped.
RestoreProvider ==
    LET k == Head(queue)
        p == ProviderOf[k]
        r == snapshot.records[k]
    IN  /\ stage = "restore"
        /\ queue # << >>
        /\ \/ /\ r = Bare
              /\ UNCHANGED <<entry, providers_set, blocked, erred>>
           \/ /\ r # Bare
              /\ layout = "corrupt"
              /\ erred' = TRUE
              /\ blocked' = blocked \cup {p}
              /\ UNCHANGED <<entry, providers_set>>
           \/ /\ r # Bare
              /\ layout # "corrupt"
              /\ entry' = [entry EXCEPT ![p] = Original(r, k)]
              /\ providers_set' = providers_set \cup {p}
              /\ UNCHANGED <<blocked, erred>>
        /\ GoTo("restore", Tail(queue))
        /\ UNCHANGED <<layout, cache, oc_row, snapshot, changed, ocUser, oc_faults>>

\* Mutant: a failed restore leaves the agents' caches eligible.
RestoreProviderFailsUnblocked ==
    /\ stage = "restore"
    /\ queue # << >>
    /\ snapshot.records[Head(queue)] # Bare
    /\ layout # "corrupt"
    /\ changed => RollbackRaces
    /\ OcFault
    /\ erred' = TRUE
    /\ GoTo("unroll", << >>)
    /\ UNCHANGED <<layout, entry, cache, oc_row, snapshot, providers_set, blocked,
                   changed, ocUser>>

RestoreProviderFails ==
    /\ stage = "restore"
    /\ queue # << >>
    /\ snapshot.records[Head(queue)] # Bare
    /\ layout # "corrupt"
    /\ changed => RollbackRaces
    /\ OcFault
    /\ erred' = TRUE
    /\ blocked' = Provider          \* nobody's cache is eligible
    /\ GoTo("unroll", << >>)
    /\ UNCHANGED <<layout, entry, cache, oc_row, snapshot, providers_set, changed,
                   ocUser>>

Unroll ==
    /\ stage = "unroll"
    /\ \/ entry' = snapshot.file /\ UNCHANGED oc_faults
       \/ OcFault /\ UNCHANGED entry
    /\ providers_set' = {}
    /\ GoTo("caches", planned_keys)
    /\ UNCHANGED <<layout, cache, oc_row, snapshot, blocked, erred, changed, ocUser>>

EndOfRestores ==
    /\ stage = "restore"
    /\ queue = << >>
    /\ GoTo("caches", planned_keys)
    /\ UNCHANGED <<layout, entry, cache, oc_row, snapshot, providers_set, blocked,
                   erred, changed, ocUser, oc_faults>>

\* _restore_agent_auth_stores_after_unlock: the SecretRefs of eligible
\* providers are keys again; then the skill goes, or fails to.
RestoreCaches ==
    /\ stage = "caches"
    /\ \/ /\ queue # << >>
          /\ LET p == ProviderOf[Head(queue)] IN
                cache' = [cache EXCEPT ![p] =
                            IF p \notin blocked /\ @ = [var |-> Head(queue)]
                            THEN Head(queue) ELSE @]
          /\ GoTo("caches", Tail(queue))
          /\ UNCHANGED <<snapshot, providers_set, blocked, erred, changed,
                         unrestored, oc_faults>>
       \/ /\ queue = << >>
          /\ \/ Finished(IF erred THEN "failed" ELSE "ok") /\ UNCHANGED oc_faults
             \/ Finished("failed") /\ OcFault
          /\ unrestored' = unrestored \ providers_set
          /\ UNCHANGED cache
    /\ UNCHANGED <<layout, entry, oc_row, owner, revisions>>

-----------------------------------------------------------------------------
(* The user, the gateway and kills.                                        *)

\* The user writes an entry while no key of the provider has a row, and, while
\* a command runs, one that the command is not about.
WriteEntry(p, e) ==
    /\ revisions < MaxRevisions
    /\ layout = "present"
    /\ \A k \in KeysOf(p) : oc_row[k] = Nothing
    /\ p \notin PlannedProviders(planned_keys)
    /\ stage \in {"rollback", "unroll"} => RollbackRaces
    /\ revisions' = revisions + 1
    /\ entry' = [entry EXCEPT ![p] = e]
    /\ owner' = [owner EXCEPT ![p] = e]
    /\ unrestored' = unrestored \ {p}
    /\ changed' = TRUE
    /\ UNCHANGED <<layout, cache, oc_row, stage, queue, planned_keys, takes_over,
                   snapshot, providers_set, blocked, erred, oc_status, oc_faults>>

\* An agent of the gateway caches the credential of an entry.
CacheKey(p) ==
    /\ stage = "idle"
    /\ layout = "present"
    /\ entry[p] # Nothing
    /\ entry[p].key # Ref
    /\ cache' = [cache EXCEPT ![p] = entry[p].key]
    /\ UNCHANGED <<layout, entry, oc_row, oc_command, ocUser, oc_faults>>

OcDie ==
    /\ stage # "idle"
    /\ OcFault
    /\ Finished("none")
    /\ UNCHANGED <<layout, entry, cache, oc_row, ocUser>>

\* What others put into an entry: their own key or pointer, or a proxy entry
\* that came with a synced configuration.
OthersEntry(p) ==
    {[to |-> "own", key |-> x, revision |-> revisions + 1] :
        x \in KeysOf(p) \cup {OtherKey, Ref}}
    \cup {[to |-> Stranger, key |-> Ref, revision |-> revisions + 1]}

OcNext ==
    \/ \E S \in SetToAllKPermutations(OcKey) \ {<< >>} :
            (\E adopt \in BOOLEAN : LockKeys(S, adopt)) \/ UnlockKeys(S)
    \/ ApplyLock
    \/ WriteProvider
    \/ WriteProviderFails
    \/ Rollback
    \/ InterruptWrite
    \/ UndoOwnProviderWrites
    \/ EndOfWrites
    \/ Neutralize
    \/ Scrub
    \/ ApplyUnlock
    \/ RestoreProvider
    \/ RestoreProviderFails
    \/ Unroll
    \/ EndOfRestores
    \/ RestoreCaches
    \/ \E p \in Provider : \E e \in OthersEntry(p) : WriteEntry(p, e)
    \/ \E p \in Provider : CacheKey(p)
    \/ OcDie

OcSpec == OcInit /\ [][OcNext]_ocVars

-----------------------------------------------------------------------------
(* Properties.                                                             *)

Restorable(p) ==
    \/ entry[p] # Nothing /\ ~Routed(entry[p]) /\ RecordOf(entry[p]) = RecordOf(owner[p])
    \/ \E k \in KeysOf(p) : oc_row[k] = RecordOf(owner[p])

Owned(p) == owner[p] # Nothing /\ ~Routed(owner[p])

\* Whatever lock wrote, undid, rolled back or left half done, an entry of the
\* user's is in openclaw.json or in a row unlock restores it from, all of it
\* but the key; the entries of other providers are as their owner wrote them
\* last, during the command too.
OriginalKept == \A p \in Provider \ unrestored : Owned(p) => Restorable(p)

\* A lock that reports success has left no planned provider with an entry that
\* calls the provider directly with the real key.
OkMeansRouted ==
    [][stage = "scrub" /\ oc_status' = "ok" /\ stage' = "idle"
        => \A p \in PlannedProviders(planned_keys) : Routed(entry[p])]_ocVars

\* An agent gets its real key back only beside an entry that is the user's
\* again, or for a key that had no entry to restore.
CacheFollowsEntry ==
    [][\A p \in Provider :
        (stage = "caches" /\ cache'[p] # cache[p] /\ Routed(entry[p]))
            => snapshot.records[Head(queue)] = Bare]_ocVars

\* lock and unlock of OpenClaw say and do the same: routed when it said so, and the
\* agents' caches real again only beside a real entry.
OpenClawFollows == OkMeansRouted /\ CacheFollowsEntry

=============================================================================
