----------------------------- MODULE SafeRewrite -----------------------------
(***************************************************************************)
(* How a .env file is replaced (cli/safe_rewrite.py, called through        *)
(* cli/dotenv_rewriter.py by lock, unlock, restore and the OpenClaw        *)
(* stages): read, edit, check under a lock on the inode, write and sync a  *)
(* temporary file, check again, rename, sync the directory.                *)
(*                                                                         *)
(* Two commands with homes of their own may work on one file, an editor    *)
(* writes it in place or replaces it, a command may fail or be killed at   *)
(* any step, and the machine may lose power: then of what was not synced   *)
(* anything may be left.                                                   *)
(*                                                                         *)
(* The content of a file is the set of the changes it has.  The gates that *)
(* judge names, sizes and types are a refusal before the file is opened.   *)
(***************************************************************************)
EXTENDS Naturals, FiniteSets

CONSTANTS
    Writer,         \* commands that rewrite the file, each with its change
    Edits,          \* changes the user makes with an editor
    Torn,           \* what a file has that was not written completely
    NoInode,
    LateEdits,      \* does the user edit between a check and the rename?
    MaxInode,       \* bound: files created
    MaxLosses       \* bound: kills and power losses

ASSUME RewriteAssumption ==
    /\ Writer \cap Edits = {}
    /\ Torn \notin Writer \cup Edits
    /\ LateEdits \in BOOLEAN
    /\ MaxInode \in Nat \ {0}
    /\ MaxLosses \in Nat
    /\ NoInode \notin 1..MaxInode \cup Writer

Inode == 1..MaxInode
Content == SUBSET (Writer \cup Edits \cup {Torn})

VARIABLES
    target,         \* the inode the .env is
    data,           \* what a reader of each inode sees
    target_disk,    \* the same as they are on the disk
    data_disk,
    inodes,         \* how many were created
    flocked,        \* which command holds flock on an inode
    at_step,        \* of each command
    existing,       \* what it read, and derived its content from
    target_fd,      \* the inode it opened
    tmp,            \* its temporary file
    landed,         \* changes that were made to the .env (history)
    firm,           \* those of them that are on the disk (history)
    losses

disk == <<target_disk, data_disk>>
mine == <<at_step, existing, target_fd, tmp>>
rewriteVars == <<target, data, disk, inodes, flocked, mine, landed, firm, losses>>

RewriteSteps == {"ready", "read", "opened", "locked", "verified", "created", "written",
                 "synced", "listed", "staged", "replaced", "done", "refused", "dead"}

RewriteTypeOK ==
    /\ target \in Inode
    /\ data \in [Inode -> Content]
    /\ target_disk \in Inode
    /\ data_disk \in [Inode -> Content]
    /\ inodes \in Inode
    /\ flocked \in [Inode -> Writer \cup {NoInode}]
    /\ at_step \in [Writer -> RewriteSteps]
    /\ existing \in [Writer -> Content]
    /\ target_fd \in [Writer -> Inode \cup {NoInode}]
    /\ tmp \in [Writer -> Inode \cup {NoInode}]
    /\ landed \subseteq Writer \cup Edits
    /\ firm \subseteq landed

RewriteInit ==
    /\ target = 1
    /\ data = [i \in Inode |-> {}]
    /\ target_disk = 1
    /\ data_disk = [i \in Inode |-> {}]
    /\ inodes = 1
    /\ flocked = [i \in Inode |-> NoInode]
    /\ at_step = [w \in Writer |-> "ready"]
    /\ existing = [w \in Writer |-> {}]
    /\ target_fd = [w \in Writer |-> NoInode]
    /\ tmp = [w \in Writer |-> NoInode]
    /\ landed = {}
    /\ firm = {}
    /\ losses = 0

To(w, from, step) == at_step[w] = from /\ at_step' = [at_step EXCEPT ![w] = step]

\* _safe_read_existing_bytes, and the new content made from it.
ReadExisting(w) ==
    /\ To(w, "ready", "read")
    /\ existing' = [existing EXCEPT ![w] = data[target]]
    /\ UNCHANGED <<target, data, disk, inodes, flocked, target_fd, tmp, landed,
                   firm, losses>>

\* _open_target_fd, of the file the gates have passed.
OpenTarget(w) ==
    /\ To(w, "read", "opened")
    /\ target_fd' = [target_fd EXCEPT ![w] = target]
    /\ UNCHANGED <<target, data, disk, inodes, flocked, existing, tmp, landed,
                   firm, losses>>

\* _flock_exclusive_nonblocking.
FlockTarget(w) ==
    /\ To(w, "opened", "locked")
    /\ flocked[target_fd[w]] = NoInode
    /\ flocked' = [flocked EXCEPT ![target_fd[w]] = w]
    /\ UNCHANGED <<target, data, disk, inodes, existing, target_fd, tmp, landed,
                   firm, losses>>

\* _check_size_sniff_delta: the file is the one that was read.
VerifyBaseline(w) ==
    /\ To(w, "locked", "verified")
    /\ data[target_fd[w]] = existing[w]
    /\ UNCHANGED <<target, data, disk, inodes, flocked, existing, target_fd, tmp,
                   landed, firm, losses>>

CreateTmp(w) ==
    /\ inodes < MaxInode
    /\ To(w, "verified", "created")
    /\ inodes' = inodes + 1
    /\ tmp' = [tmp EXCEPT ![w] = inodes']
    /\ data' = [data EXCEPT ![inodes'] = {Torn}]
    /\ data_disk' = [data_disk EXCEPT ![inodes'] = {Torn}]
    /\ UNCHANGED <<target, target_disk, flocked, existing, target_fd, landed, firm,
                   losses>>

WriteTmp(w) ==
    /\ To(w, "created", "written")
    /\ data' = [data EXCEPT ![tmp[w]] = existing[w] \cup {w}]
    /\ UNCHANGED <<target, disk, inodes, flocked, existing, target_fd, tmp, landed,
                   firm, losses>>

FsyncTmp(w) ==
    /\ To(w, "written", "synced")
    /\ data_disk' = [data_disk EXCEPT ![tmp[w]] = data[tmp[w]]]
    /\ UNCHANGED <<target, data, target_disk, inodes, flocked, existing, target_fd,
                   tmp, landed, firm, losses>>

\* Every name in the directory is on the disk, .env included.
ListDir ==
    /\ target_disk' = target
    /\ firm' = IF data_disk[target] = data[target] THEN landed ELSE firm
    /\ UNCHANGED data_disk

FsyncDir(w) ==
    /\ To(w, "synced", "listed")
    /\ ListDir
    /\ UNCHANGED <<target, data, inodes, flocked, existing, target_fd, tmp, landed,
                   losses>>

\* Mutant: the .env is not looked at again before the rename.
RecheckNothing(w) ==
    /\ To(w, "listed", "staged")
    /\ UNCHANGED <<target, data, disk, inodes, flocked, existing, target_fd, tmp,
                   landed, firm, losses>>

\* _recheck_target, then _stage_tmp.
RecheckTarget(w) ==
    /\ To(w, "listed", "staged")
    /\ target = target_fd[w]
    /\ UNCHANGED <<target, data, disk, inodes, flocked, existing, target_fd, tmp,
                   landed, firm, losses>>

\* _atomic_replace_with_fallback.
ReplaceTarget(w) ==
    /\ To(w, "staged", "replaced")
    /\ target' = tmp[w]
    /\ landed' = landed \cup {w}
    /\ UNCHANGED <<data, disk, inodes, flocked, existing, target_fd, tmp, firm, losses>>

Released(w) == [i \in Inode |-> IF flocked[i] = w THEN NoInode ELSE flocked[i]]

\* The last sync may fail: that is logged, the rewrite is done.
SyncAndClose(w) ==
    /\ To(w, "replaced", "done")
    /\ ListDir \/ UNCHANGED <<disk, firm>>
    /\ flocked' = Released(w)
    /\ UNCHANGED <<target, data, inodes, existing, target_fd, tmp, landed, losses>>

\* A gate or a check refuses, an operation fails, a signal arrives: the
\* temporary file goes, the .env is as it was.
RefuseRewrite(w) ==
    /\ at_step[w] \in RewriteSteps \ {"ready", "replaced", "done", "refused", "dead"}
    /\ at_step' = [at_step EXCEPT ![w] = "refused"]
    /\ flocked' = Released(w)
    /\ UNCHANGED <<target, data, disk, inodes, existing, target_fd, tmp, landed,
                   firm, losses>>

Lose == losses < MaxLosses /\ losses' = losses + 1

KillWriter(w) ==
    /\ at_step[w] \notin {"ready", "done", "refused", "dead"}
    /\ Lose
    /\ at_step' = [at_step EXCEPT ![w] = "dead"]
    /\ flocked' = Released(w)
    /\ UNCHANGED <<target, data, disk, inodes, existing, target_fd, tmp, landed, firm>>

\* The directory, and each file, is what the disk has or what it would have had.
PowerLoss ==
    /\ Lose
    /\ target' \in {target, target_disk}
    /\ \E lost \in SUBSET {i \in Inode : data[i] # data_disk[i]} :
            data' = [i \in Inode |-> IF i \in lost THEN data_disk[i] ELSE data[i]]
    /\ target_disk' = target'
    /\ data_disk' = data'
    /\ landed' = firm
    /\ flocked' = [i \in Inode |-> NoInode]
    /\ at_step' = [w \in Writer |-> IF at_step[w] \in {"ready", "done", "refused"}
                                    THEN at_step[w] ELSE "dead"]
    /\ UNCHANGED <<inodes, existing, target_fd, tmp, firm>>

\* Some command has checked the .env and goes on as if it stayed like that.
Relied(steps) == \E w \in Writer : at_step[w] \in steps /\ target_fd[w] = target

\* The editor truncates and writes, and syncs.
EditInPlace(e) ==
    /\ e \notin landed
    /\ LateEdits \/ ~Relied({"verified", "created", "written", "synced", "listed", "staged"})
    /\ data' = [data EXCEPT ![target] = @ \cup {e}]
    /\ data_disk' = [data_disk EXCEPT ![target] = data'[target]]
    /\ landed' = landed \cup {e}
    /\ firm' = IF target = target_disk THEN firm \cup {e} ELSE firm
    /\ UNCHANGED <<target, target_disk, inodes, flocked, mine, losses>>

\* The editor writes another file, syncs and renames it.
EditByRename(e) ==
    /\ e \notin landed
    /\ inodes < MaxInode
    /\ LateEdits \/ ~Relied({"staged"})
    /\ inodes' = inodes + 1
    /\ data' = [data EXCEPT ![inodes'] = data[target] \cup {e}]
    /\ data_disk' = [data_disk EXCEPT ![inodes'] = data'[inodes']]
    /\ target' = inodes'
    /\ target_disk' = inodes'
    /\ landed' = landed \cup {e}
    /\ firm' = landed'
    /\ UNCHANGED <<flocked, mine, losses>>

RewriteNext ==
    \/ \E w \in Writer :
        \/ ReadExisting(w)
        \/ OpenTarget(w)
        \/ FlockTarget(w)
        \/ VerifyBaseline(w)
        \/ CreateTmp(w)
        \/ WriteTmp(w)
        \/ FsyncTmp(w)
        \/ FsyncDir(w)
        \/ RecheckTarget(w)
        \/ ReplaceTarget(w)
        \/ SyncAndClose(w)
        \/ RefuseRewrite(w)
        \/ KillWriter(w)
    \/ PowerLoss
    \/ \E e \in Edits : EditInPlace(e) \/ EditByRename(e)

RewriteSpec == RewriteInit /\ [][RewriteNext]_rewriteVars

-----------------------------------------------------------------------------
(* Properties.                                                             *)

\* Killed or without power at any step, the .env is a whole file: the old one
\* or the new one.
EnvWhole == Torn \notin data[target]

\* No command undoes what another, or the editor, did to the file meanwhile,
\* and no power loss undoes what was synced.
NoChangeLost == landed \subseteq data[target]

\* What safe_rewrite owes the user's .env: whole, and with every change made to it.
EnvKept == EnvWhole /\ NoChangeLost

=============================================================================
