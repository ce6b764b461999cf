----------------------------- MODULE ExclusiveLock -----------------------------
(***************************************************************************)
(* The lock file of a home (cli/bootstrap.py, acquire_lock): created with  *)
(* O_EXCL, held under flock, named "<hostname> <pid>", unlinked when the   *)
(* command ends.  A command that finds the file judges by the flock, by    *)
(* the name in it and by its age whether the holder is gone, and then      *)
(* removes it.                                                             *)
(*                                                                         *)
(* The home may be on a mount shared by two hosts, where flock is local to *)
(* each of them.  A command may be killed at any step; the kernel then     *)
(* drops its flock and closes its files.  An inode lives while a name or a *)
(* descriptor refers to it, so a new file never has the number of one that *)
(* is still open.                                                          *)
(***************************************************************************)
EXTENDS Naturals, FiniteSets

CONSTANTS
    Command,        \* processes that take the lock
    Host,
    NoFile,
    NoFlock,
    MaxFile,        \* bound: lock files
    MaxKills        \* bound: commands killed

ASSUME LockFileAssumption ==
    /\ NoFile \notin 1..MaxFile
    /\ NoFlock \notin Command \cup Host
    /\ MaxFile \in Nat
    /\ MaxKills \in Nat

LockFile == 1..MaxFile

VARIABLES
    lock_file,      \* what the name refers to
    made,           \* how many lock files were created
    flock,          \* holder of the flock of each, as each host sees it
    writer,         \* the host named in each, NoFlock when it is empty
    stale,          \* lock files over _STALE_LOCK_SECONDS old
    doing,          \* what each command does
    fd,             \* the lock file it has open
    on,             \* the host it runs on
    kills

exclusiveVars == <<lock_file, made, flock, writer, stale, doing, fd, on, kills>>

Doing == {"out", "opened", "judged", "age", "dead", "absent", "created", "held",
          "body", "unlinked"}

ExclusiveTypeOK ==
    /\ lock_file \in LockFile \cup {NoFile}
    /\ made \in 0..MaxFile
    /\ flock \in [LockFile \X Host -> Command \cup {NoFlock}]
    /\ writer \in [LockFile -> Host \cup {NoFlock}]
    /\ stale \subseteq 1..made
    /\ doing \in [Command -> Doing]
    /\ fd \in [Command -> LockFile \cup {NoFile}]
    /\ on \in [Command -> Host]

ExclusiveInit ==
    /\ lock_file = NoFile
    /\ made = 0
    /\ flock = [f \in LockFile \X Host |-> NoFlock]
    /\ writer = [f \in LockFile |-> NoFlock]
    /\ stale = {}
    /\ doing = [c \in Command |-> "out"]
    /\ fd = [c \in Command |-> NoFile]
    /\ on \in [Command -> Host]
    /\ kills = 0

Step(c, from, to) == doing[c] = from /\ doing' = [doing EXCEPT ![c] = to]

Flock(c) == flock[<<fd[c], on[c]>>]
TakeFlock(c) == flock' = [flock EXCEPT ![<<fd[c], on[c]>>] = c]
DropFlock(c) == flock' = [f \in LockFile \X Host |-> IF flock[f] = c THEN NoFlock ELSE flock[f]]
Close(c) == fd' = [fd EXCEPT ![c] = NoFile] /\ DropFlock(c)

\* check_stale_lock: the file is opened, or there is none.
Open(c) ==
    /\ IF lock_file = NoFile
       THEN Step(c, "out", "absent") /\ UNCHANGED fd
       ELSE Step(c, "out", "opened") /\ fd' = [fd EXCEPT ![c] = lock_file]
    /\ UNCHANGED <<lock_file, made, flock, writer, stale, on, kills>>

\* The holder is alive: LOCK_IN_PROGRESS.
Busy(c) ==
    /\ Step(c, "opened", "out")
    /\ Flock(c) # NoFlock
    /\ Close(c)
    /\ UNCHANGED <<lock_file, made, writer, stale, on, kills>>

\* _holder_is_dead takes the flock, and keeps it until the file is closed.
Probe(c) ==
    /\ Step(c, "opened", "judged")
    /\ Flock(c) = NoFlock
    /\ TakeFlock(c)
    /\ UNCHANGED <<lock_file, made, writer, stale, fd, on, kills>>

HolderIsDead(c) == writer[fd[c]] = on[c]

Judge(c) ==
    /\ Step(c, "judged", IF HolderIsDead(c) THEN "dead" ELSE "age")
    /\ UNCHANGED <<lock_file, made, flock, writer, stale, fd, on, kills>>

\* Fresh: it clears by itself, later.
NotYet(c) ==
    /\ Step(c, "age", "out")
    /\ fd[c] \notin stale
    /\ Close(c)
    /\ UNCHANGED <<lock_file, made, writer, stale, on, kills>>

Old(c) ==
    /\ Step(c, "age", "dead")
    /\ fd[c] \in stale
    /\ UNCHANGED <<lock_file, made, flock, writer, stale, fd, on, kills>>

\* Mutant: what another reclaimer has put there meanwhile goes too.
SameFileUnchecked(c) == TRUE

\* _unlink_if_same_file.
SameFile(c) == lock_file = fd[c]

Reclaim(c) ==
    /\ Step(c, "dead", "absent")
    /\ lock_file' = IF SameFile(c) THEN NoFile ELSE lock_file
    /\ Close(c)
    /\ UNCHANGED <<made, writer, stale, on, kills>>

\* O_CREAT | O_EXCL: somebody else was faster, LOCK_IN_PROGRESS.
Late(c) ==
    /\ Step(c, "absent", "out")
    /\ lock_file # NoFile
    /\ UNCHANGED <<lock_file, made, flock, writer, stale, fd, on, kills>>

Create(c) ==
    /\ Step(c, "absent", "created")
    /\ lock_file = NoFile
    /\ made < MaxFile
    /\ made' = made + 1
    /\ lock_file' = made'
    /\ fd' = [fd EXCEPT ![c] = made']
    /\ UNCHANGED <<flock, writer, stale, on, kills>>

\* _take_own_flock, which a reclaimer's probe may hold for an instant.
TakeOwnFlock(c) ==
    /\ Step(c, "created", "held")
    /\ Flock(c) = NoFlock
    /\ TakeFlock(c)
    /\ UNCHANGED <<lock_file, made, writer, stale, fd, on, kills>>

\* It gives up after 2 seconds and leaves the file empty.
OwnFlockFails(c) ==
    /\ Step(c, "created", "body")
    /\ Flock(c) # NoFlock
    /\ UNCHANGED <<lock_file, made, flock, writer, stale, fd, on, kills>>

WriteName(c) ==
    /\ Step(c, "held", "body")
    /\ writer' = [writer EXCEPT ![fd[c]] = on[c]]
    /\ UNCHANGED <<lock_file, made, flock, stale, fd, on, kills>>

\* The name goes before the flock does.
Unlink(c) ==
    /\ Step(c, "body", "unlinked")
    /\ lock_file' = NoFile
    /\ UNCHANGED <<made, flock, writer, stale, fd, on, kills>>

End(c) ==
    /\ Step(c, "unlinked", "out")
    /\ Close(c)
    /\ UNCHANGED <<lock_file, made, writer, stale, on, kills>>

Kill(c) ==
    /\ doing[c] # "out"
    /\ kills < MaxKills
    /\ kills' = kills + 1
    /\ doing' = [doing EXCEPT ![c] = "out"]
    /\ Close(c)
    /\ UNCHANGED <<lock_file, made, writer, stale, on>>

\* Assumed: no command is five minutes in without a flock every other command
\* can see, since only its age speaks for such a file.
Exposed(f) ==
    \E c \in Command :
        /\ fd[c] = f
        /\ doing[c] \in {"created", "held", "body"}
        /\ Flock(c) # c \/ \E d \in Command : on[d] # on[c]

GetOld(f) ==
    /\ f \in (1..made) \ stale
    /\ ~Exposed(f)
    /\ stale' = stale \cup {f}
    /\ UNCHANGED <<lock_file, made, flock, writer, doing, fd, on, kills>>

ExclusiveNext ==
    \/ \E c \in Command :
        \/ Open(c) \/ Busy(c) \/ Probe(c) \/ Judge(c)
        \/ NotYet(c) \/ Old(c) \/ Reclaim(c) \/ Late(c) \/ Create(c)
        \/ TakeOwnFlock(c) \/ OwnFlockFails(c) \/ WriteName(c)
        \/ Unlink(c) \/ End(c) \/ Kill(c)
    \/ \E f \in LockFile : GetOld(f)

ExclusiveSpec == ExclusiveInit /\ [][ExclusiveNext]_exclusiveVars

-----------------------------------------------------------------------------
(* Properties.                                                             *)

\* However commands, reclaimers and kills interleave, one command at a time
\* does its work, and its name stands while it does.
OneCommand ==
    \A c \in Command :
        doing[c] \in {"created", "held", "body"} => lock_file = fd[c]
=============================================================================
