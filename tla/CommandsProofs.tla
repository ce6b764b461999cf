---------------------------- MODULE CommandsProofs ----------------------------
(***************************************************************************)
(* Proofs about seven of the command line's components: the lock file,     *)
(* lock's answer to signals, the bind probe, the rewrite of .env, the      *)
(* master key, the migrations of the database and the split of a key.      *)
(***************************************************************************)
EXTENDS ExclusiveLock, LockInterrupts, BindProbe, SafeRewrite, FernetKey, Migrations, KeySplit,
        TLAPS, FiniteSetTheorems

-----------------------------------------------------------------------------
(* The lock file.  A command that made the file holds it until it ends: it  *)
(* owns the file's flock from the moment a reclaimer could tell it apart    *)
(* from a dead holder, so no reclaimer judges its file dead.                *)

\* c made the lock file and has not ended.
Works(c) == doing[c] \in {"created", "held", "body"}

\* c holds the flock of the file it has open.
Owns(c) == fd[c] \in LockFile /\ Flock(c) = c

\* A file not yet made has no writer.
FilesMade ==
    /\ lock_file # NoFile => lock_file \in 1..made
    /\ \A f \in LockFile : f > made => writer[f] = NoFlock

\* What c has found out about the file it opened.
Prober(c) ==
    /\ doing[c] \in {"out", "absent"} <=> fd[c] = NoFile
    /\ fd[c] # NoFile => fd[c] \in 1..made
    /\ doing[c] \in {"judged", "age", "dead", "held"} => Owns(c)
    /\ doing[c] = "dead" => fd[c] \in stale \/ writer[fd[c]] = on[c]

\* c works: the file is in place, and names it only under its flock.
Worker(c) ==
    /\ lock_file = fd[c]
    /\ \A d \in Command : Works(d) => d = c
    /\ writer[fd[c]] # NoFlock => doing[c] = "body" /\ writer[fd[c]] = on[c] /\ Owns(c)
    /\ fd[c] \in stale => Owns(c) /\ \A d \in Command : on[d] = on[c]

\* The inductive invariant.
ExclusiveInv ==
    /\ ExclusiveTypeOK
    /\ FilesMade
    /\ \A c \in Command : Prober(c)
    /\ \A c \in Command : Works(c) => Worker(c)

USE LockFileAssumption

(* No command has the file at first. *)
LEMMA ExclusiveInvInit == ExclusiveInit => ExclusiveInv
BY DEF ExclusiveInit, ExclusiveInv, ExclusiveTypeOK, LockFile, Doing, Works, Owns, FilesMade, Prober, Worker

(* Closing a descriptor drops at most the closing command's flock. *)
LEMMA CloseStep ==
    ASSUME ExclusiveInv, NEW c \in Command, Close(c)
    PROVE  /\ fd' = [fd EXCEPT ![c] = NoFile]
           /\ flock' \in [LockFile \X Host -> Command \cup {NoFlock}]
           /\ \A x \in LockFile \X Host, d \in Command : d # c /\ flock[x] = d => flock'[x] = d
BY DEF Close, DropFlock, ExclusiveInv, ExclusiveTypeOK

(* Taking a free flock takes it from nobody. *)
LEMMA TakeStep ==
    ASSUME ExclusiveInv, NEW c \in Command, fd[c] # NoFile, Flock(c) = NoFlock, TakeFlock(c)
    PROVE  /\ flock' \in [LockFile \X Host -> Command \cup {NoFlock}]
           /\ flock'[<<fd[c], on[c]>>] = c
           /\ \A x \in LockFile \X Host, d \in Command : flock[x] = d => flock'[x] = d
<1> DEFINE here == <<fd[c], on[c]>>
<1>1. here \in LockFile \X Host
  BY DEF ExclusiveInv, ExclusiveTypeOK, LockFile
<1>2. flock' = [flock EXCEPT ![here] = c] /\ flock[here] = NoFlock
  BY DEF TakeFlock, Flock
<1>3. flock \in [LockFile \X Host -> Command \cup {NoFlock}] /\ NoFlock \notin Command
  BY DEF ExclusiveInv, ExclusiveTypeOK
<1> HIDE DEF here
<1>4. /\ flock' \in [LockFile \X Host -> Command \cup {NoFlock}]
      /\ flock'[here] = c
      /\ \A x \in LockFile \X Host, d \in Command : flock[x] = d => flock'[x] = d
  BY <1>1, <1>2, <1>3
<1>5. QED
  BY <1>4 DEF here

(* Of a file that a reclaimer found dead no worker is alive. *)
LEMMA DeadHasNoWorker ==
    ASSUME ExclusiveInv, NEW c \in Command, doing[c] = "dead", NEW d \in Command, Works(d)
    PROVE  fd[d] # fd[c]
<1>1. SUFFICES ASSUME fd[d] = fd[c] PROVE FALSE
  OBVIOUS
<1>2. Prober(c) /\ Worker(d) /\ c # d
  BY DEF ExclusiveInv, Works
<1>3. CASE fd[c] \in stale
  BY <1>1, <1>2, <1>3 DEF Prober, Worker, Owns, Flock
<1>4. CASE writer[fd[c]] = on[c]
  <2>1. writer[fd[d]] # NoFlock
    BY <1>1, <1>4 DEF ExclusiveInv, ExclusiveTypeOK
  <2>2. QED
    BY <2>1, <1>1, <1>2, <1>4 DEF Prober, Worker, Owns, Flock
<1>5. QED
  BY <1>2, <1>3, <1>4 DEF Prober

(* Every step of every command keeps the invariant. *)
LEMMA ExclusiveInvStep == ExclusiveInv /\ [ExclusiveNext]_exclusiveVars => ExclusiveInv'
<1> SUFFICES ASSUME ExclusiveInv, [ExclusiveNext]_exclusiveVars PROVE ExclusiveInv'
  OBVIOUS
<1>1. ASSUME NEW c \in Command, Open(c) PROVE ExclusiveInv'
  <2>1. ExclusiveTypeOK' /\ FilesMade'
    <3>1. ExclusiveTypeOK'
      BY <1>1 DEF Open, ExclusiveInv, ExclusiveTypeOK, Step, Doing
    <3>2. FilesMade'
      BY <1>1 DEF Open, FilesMade, Prober, LockFile, ExclusiveInv, ExclusiveTypeOK, Step, Doing
    <3>3. QED
      BY <3>1, <3>2
  <2>2. ASSUME NEW d \in Command PROVE Prober(d)'
    BY <1>1 DEF Open, FilesMade, Prober, Owns, Flock, LockFile, ExclusiveInv, ExclusiveTypeOK, Step, Doing
  <2>3. ASSUME NEW d \in Command, Works(d)' PROVE Worker(d)'
    BY <1>1, <2>3 DEF Open, Works, Worker, FilesMade, Prober, Owns, Flock, LockFile, ExclusiveInv, ExclusiveTypeOK, Step, Doing
  <2>4. QED
    BY <2>1, <2>2, <2>3 DEF ExclusiveInv
<1>2. ASSUME NEW c \in Command, Busy(c) PROVE ExclusiveInv'
  <2>1. ExclusiveTypeOK' /\ FilesMade'
    <3>1. ExclusiveTypeOK'
      BY <1>2, CloseStep DEF Busy, ExclusiveInv, ExclusiveTypeOK, Step, Doing
    <3>2. FilesMade'
      BY <1>2 DEF Busy, FilesMade, Prober, LockFile, ExclusiveInv, ExclusiveTypeOK, Step, Doing
    <3>3. QED
      BY <3>1, <3>2
  <2>2. ASSUME NEW d \in Command PROVE Prober(d)'
    <3>1. /\ fd' = [fd EXCEPT ![c] = NoFile] /\ doing' = [doing EXCEPT ![c] = "out"]
          /\ UNCHANGED <<writer, stale, on, made>>
          /\ \A x \in LockFile \X Host, e \in Command : e # c /\ flock[x] = e => flock'[x] = e
      BY <1>2, CloseStep DEF Busy, Step
    <3>2. fd \in [Command -> LockFile \cup {NoFile}] /\ on \in [Command -> Host] /\ Prober(d)
          /\ doing \in [Command -> Doing]
      BY DEF ExclusiveInv, ExclusiveTypeOK
    <3>3. CASE d = c
      BY <3>1, <3>2, <3>3 DEF Prober
    <3>4. CASE d # c
      <4>1. fd'[d] = fd[d] /\ doing'[d] = doing[d]
        BY <3>1, <3>2, <3>4
      <4>2. Owns(d) => Owns(d)'
        BY <3>1, <3>2, <3>4, <4>1 DEF Owns, Flock
      <4>3. QED
        BY <3>1, <3>2, <4>1, <4>2 DEF Prober
    <3>5. QED
      BY <3>3, <3>4
  <2>3. ASSUME NEW d \in Command, Works(d)' PROVE Worker(d)'
    BY <1>2, <2>3, CloseStep DEF Busy, Works, Worker, FilesMade, Prober, Owns, Flock, LockFile, ExclusiveInv, ExclusiveTypeOK, Step, Doing
  <2>4. QED
    BY <2>1, <2>2, <2>3 DEF ExclusiveInv
<1>3. ASSUME NEW c \in Command, Probe(c) PROVE ExclusiveInv'
  <2>1. fd[c] # NoFile
    BY <1>3 DEF Probe, Step, ExclusiveInv, Prober
  <2>2. /\ flock' \in [LockFile \X Host -> Command \cup {NoFlock}]
        /\ flock'[<<fd[c], on[c]>>] = c
        /\ \A x \in LockFile \X Host, d \in Command : flock[x] = d => flock'[x] = d
    BY <1>3, <2>1, TakeStep DEF Probe
  <2>3. ExclusiveTypeOK' /\ FilesMade'
    BY <1>3, <2>2 DEF Probe, Step, Doing, ExclusiveInv, ExclusiveTypeOK, FilesMade
  <2>4. ASSUME NEW d \in Command PROVE Owns(d) \/ d = c => Owns(d)'
    BY <1>3, <2>1, <2>2 DEF Probe, Owns, Flock, ExclusiveInv, ExclusiveTypeOK
  <2>5. ASSUME NEW d \in Command PROVE Prober(d)'
    BY <1>3, <2>4 DEF Probe, Step, Doing, Prober, ExclusiveInv, ExclusiveTypeOK
  <2>6. ASSUME NEW d \in Command, Works(d)' PROVE Worker(d)'
    BY <1>3, <2>4, <2>6 DEF Probe, Step, Doing, Works, Worker, ExclusiveInv, ExclusiveTypeOK
  <2>7. QED
    BY <2>3, <2>5, <2>6 DEF ExclusiveInv
<1>4. ASSUME NEW c \in Command, Judge(c) PROVE ExclusiveInv'
  <2>1. ExclusiveTypeOK' /\ FilesMade'
    <3>1. ExclusiveTypeOK'
      BY <1>4 DEF Judge, ExclusiveInv, ExclusiveTypeOK, Step, Doing, HolderIsDead
    <3>2. FilesMade'
      BY <1>4 DEF Judge, FilesMade, Prober, LockFile, ExclusiveInv, ExclusiveTypeOK, Step, Doing, HolderIsDead
    <3>3. QED
      BY <3>1, <3>2
  <2>2. ASSUME NEW d \in Command PROVE Prober(d)'
    BY <1>4 DEF Judge, FilesMade, Prober, Owns, Flock, LockFile, ExclusiveInv, ExclusiveTypeOK, Step, Doing, HolderIsDead
  <2>3. ASSUME NEW d \in Command, Works(d)' PROVE Worker(d)'
    BY <1>4, <2>3 DEF Judge, Works, Worker, FilesMade, Prober, Owns, Flock, LockFile, ExclusiveInv, ExclusiveTypeOK, Step, Doing, HolderIsDead
  <2>4. QED
    BY <2>1, <2>2, <2>3 DEF ExclusiveInv
<1>5. ASSUME NEW c \in Command, NotYet(c) PROVE ExclusiveInv'
  <2>1. ExclusiveTypeOK' /\ FilesMade'
    <3>1. ExclusiveTypeOK'
      BY <1>5, CloseStep DEF NotYet, ExclusiveInv, ExclusiveTypeOK, Step, Doing
    <3>2. FilesMade'
      BY <1>5 DEF NotYet, FilesMade, Prober, LockFile, ExclusiveInv, ExclusiveTypeOK, Step, Doing
    <3>3. QED
      BY <3>1, <3>2
  <2>2. ASSUME NEW d \in Command PROVE Prober(d)'
    BY <1>5, CloseStep DEF NotYet, FilesMade, Prober, Owns, Flock, LockFile, ExclusiveInv, ExclusiveTypeOK, Step, Doing
  <2>3. ASSUME NEW d \in Command, Works(d)' PROVE Worker(d)'
    BY <1>5, <2>3, CloseStep DEF NotYet, Works, Worker, FilesMade, Prober, Owns, Flock, LockFile, ExclusiveInv, ExclusiveTypeOK, Step, Doing
  <2>4. QED
    BY <2>1, <2>2, <2>3 DEF ExclusiveInv
<1>6. ASSUME NEW c \in Command, Old(c) PROVE ExclusiveInv'
  <2>1. ExclusiveTypeOK' /\ FilesMade'
    <3>1. ExclusiveTypeOK'
      BY <1>6 DEF Old, ExclusiveInv, ExclusiveTypeOK, Step, Doing
    <3>2. FilesMade'
      BY <1>6 DEF Old, FilesMade, Prober, LockFile, ExclusiveInv, ExclusiveTypeOK, Step, Doing
    <3>3. QED
      BY <3>1, <3>2
  <2>2. ASSUME NEW d \in Command PROVE Prober(d)'
    BY <1>6 DEF Old, FilesMade, Prober, Owns, Flock, LockFile, ExclusiveInv, ExclusiveTypeOK, Step, Doing
  <2>3. ASSUME NEW d \in Command, Works(d)' PROVE Worker(d)'
    BY <1>6, <2>3 DEF Old, Works, Worker, FilesMade, Prober, Owns, Flock, LockFile, ExclusiveInv, ExclusiveTypeOK, Step, Doing
  <2>4. QED
    BY <2>1, <2>2, <2>3 DEF ExclusiveInv
<1>7. ASSUME NEW c \in Command, Reclaim(c) PROVE ExclusiveInv'
  <2>1. ExclusiveTypeOK' /\ FilesMade'
    <3>1. ExclusiveTypeOK'
      BY <1>7, CloseStep, DeadHasNoWorker DEF Reclaim, ExclusiveInv, ExclusiveTypeOK, Step, Doing, SameFile
    <3>2. FilesMade'
      BY <1>7 DEF Reclaim, FilesMade, Prober, LockFile, ExclusiveInv, ExclusiveTypeOK, Step, Doing, SameFile
    <3>3. QED
      BY <3>1, <3>2
  <2>2. ASSUME NEW d \in Command PROVE Prober(d)'
    BY <1>7, CloseStep, DeadHasNoWorker DEF Reclaim, FilesMade, Prober, Owns, Flock, LockFile, ExclusiveInv, ExclusiveTypeOK, Step, Doing, SameFile
  <2>3. ASSUME NEW d \in Command, Works(d)' PROVE Worker(d)'
    BY <1>7, <2>3, CloseStep, DeadHasNoWorker DEF Reclaim, Works, Worker, FilesMade, Prober, Owns, Flock, LockFile, ExclusiveInv, ExclusiveTypeOK, Step, Doing, SameFile
  <2>4. QED
    BY <2>1, <2>2, <2>3 DEF ExclusiveInv
<1>8. ASSUME NEW c \in Command, Late(c) PROVE ExclusiveInv'
  <2>1. ExclusiveTypeOK' /\ FilesMade'
    <3>1. ExclusiveTypeOK'
      BY <1>8 DEF Late, ExclusiveInv, ExclusiveTypeOK, Step, Doing
    <3>2. FilesMade'
      BY <1>8 DEF Late, FilesMade, Prober, LockFile, ExclusiveInv, ExclusiveTypeOK, Step, Doing
    <3>3. QED
      BY <3>1, <3>2
  <2>2. ASSUME NEW d \in Command PROVE Prober(d)'
    BY <1>8 DEF Late, FilesMade, Prober, Owns, Flock, LockFile, ExclusiveInv, ExclusiveTypeOK, Step, Doing
  <2>3. ASSUME NEW d \in Command, Works(d)' PROVE Worker(d)'
    BY <1>8, <2>3 DEF Late, Works, Worker, FilesMade, Prober, Owns, Flock, LockFile, ExclusiveInv, ExclusiveTypeOK, Step, Doing
  <2>4. QED
    BY <2>1, <2>2, <2>3 DEF ExclusiveInv
<1>9. ASSUME NEW c \in Command, Create(c) PROVE ExclusiveInv'
  <2>1. made + 1 \in LockFile /\ fd' = [fd EXCEPT ![c] = made + 1] /\ made + 1 \notin stale
    BY <1>9 DEF Create, LockFile, ExclusiveInv, ExclusiveTypeOK
  <2>2. \A d \in Command : ~Works(d) /\ fd[d] # made + 1
    BY <1>9 DEF Create, ExclusiveInv, ExclusiveTypeOK, FilesMade, Prober, Works, Worker
  <2>3. ExclusiveTypeOK' /\ FilesMade'
    BY <1>9, <2>1 DEF Create, Step, Doing, LockFile, FilesMade, ExclusiveInv, ExclusiveTypeOK
  <2>4. ASSUME NEW d \in Command PROVE Prober(d)'
    BY <1>9 DEF Create, FilesMade, Prober, Owns, Flock, LockFile, Step, Doing, ExclusiveInv, ExclusiveTypeOK
  <2>5. ASSUME NEW d \in Command, Works(d)' PROVE d = c
    BY <1>9, <2>2, <2>5 DEF Create, Step, Works, ExclusiveInv, ExclusiveTypeOK
  <2>6. writer[made + 1] = NoFlock
    BY <2>1 DEF FilesMade, ExclusiveInv, ExclusiveTypeOK
  <2>7. Worker(c)'
    BY <1>9, <2>1, <2>5, <2>6 DEF Create, Worker, ExclusiveInv, ExclusiveTypeOK
  <2>8. QED
    BY <2>3, <2>4, <2>5, <2>7 DEF ExclusiveInv
<1>10. ASSUME NEW c \in Command, TakeOwnFlock(c) PROVE ExclusiveInv'
  <2>1. fd[c] # NoFile
    BY <1>10 DEF TakeOwnFlock, Step, ExclusiveInv, Prober
  <2>2. /\ flock' \in [LockFile \X Host -> Command \cup {NoFlock}]
        /\ flock'[<<fd[c], on[c]>>] = c
        /\ \A x \in LockFile \X Host, d \in Command : flock[x] = d => flock'[x] = d
    BY <1>10, <2>1, TakeStep DEF TakeOwnFlock
  <2>3. ExclusiveTypeOK' /\ FilesMade'
    BY <1>10, <2>2 DEF TakeOwnFlock, Step, Doing, ExclusiveInv, ExclusiveTypeOK, FilesMade
  <2>4. ASSUME NEW d \in Command PROVE Owns(d) \/ d = c => Owns(d)'
    BY <1>10, <2>1, <2>2 DEF TakeOwnFlock, Owns, Flock, ExclusiveInv, ExclusiveTypeOK
  <2>5. ASSUME NEW d \in Command PROVE Prober(d)'
    BY <1>10, <2>4 DEF TakeOwnFlock, Step, Doing, Prober, ExclusiveInv, ExclusiveTypeOK
  <2>6. ASSUME NEW d \in Command, Works(d)' PROVE Worker(d)'
    BY <1>10, <2>4, <2>6 DEF TakeOwnFlock, Step, Doing, Works, Worker, ExclusiveInv, ExclusiveTypeOK
  <2>7. QED
    BY <2>3, <2>5, <2>6 DEF ExclusiveInv
<1>11. ASSUME NEW c \in Command, OwnFlockFails(c) PROVE ExclusiveInv'
  <2>1. ExclusiveTypeOK' /\ FilesMade'
    <3>1. ExclusiveTypeOK'
      BY <1>11 DEF OwnFlockFails, ExclusiveInv, ExclusiveTypeOK, Step, Doing
    <3>2. FilesMade'
      BY <1>11 DEF OwnFlockFails, FilesMade, Prober, LockFile, ExclusiveInv, ExclusiveTypeOK, Step, Doing
    <3>3. QED
      BY <3>1, <3>2
  <2>2. ASSUME NEW d \in Command PROVE Prober(d)'
    BY <1>11 DEF OwnFlockFails, FilesMade, Prober, Owns, Flock, LockFile, ExclusiveInv, ExclusiveTypeOK, Step, Doing
  <2>3. ASSUME NEW d \in Command, Works(d)' PROVE Worker(d)'
    BY <1>11, <2>3 DEF OwnFlockFails, Works, Worker, FilesMade, Prober, Owns, Flock, LockFile, ExclusiveInv, ExclusiveTypeOK, Step, Doing
  <2>4. QED
    BY <2>1, <2>2, <2>3 DEF ExclusiveInv
<1>12. ASSUME NEW c \in Command, WriteName(c) PROVE ExclusiveInv'
  <2>1. /\ Works(c) /\ Owns(c) /\ Worker(c)
        /\ writer' = [writer EXCEPT ![fd[c]] = on[c]]
        /\ \A d \in Command : Owns(d) => Owns(d)'
    BY <1>12 DEF WriteName, Step, Works, Owns, Flock, Prober, ExclusiveInv
  <2>2. ExclusiveTypeOK' /\ FilesMade'
    BY <1>12, <2>1 DEF WriteName, Step, Doing, FilesMade, Prober, Owns, ExclusiveInv, ExclusiveTypeOK
  <2>3. ASSUME NEW d \in Command PROVE Prober(d)'
    <3>1. doing[d] = "dead" => writer'[fd[d]] = writer[fd[d]] \/ fd[d] \in stale
      BY <2>1, DeadHasNoWorker DEF ExclusiveInv, ExclusiveTypeOK
    <3>2. QED
      BY <1>12, <2>1, <3>1 DEF WriteName, Step, Doing, Prober, ExclusiveInv, ExclusiveTypeOK
  <2>4. ASSUME NEW d \in Command, Works(d)' PROVE Worker(d)'
    BY <1>12, <2>1, <2>4 DEF WriteName, Step, Doing, Works, Worker, Owns, ExclusiveInv, ExclusiveTypeOK
  <2>5. QED
    BY <2>2, <2>3, <2>4 DEF ExclusiveInv
<1>13. ASSUME NEW c \in Command, Unlink(c) PROVE ExclusiveInv'
  <2>1. ExclusiveTypeOK' /\ FilesMade'
    <3>1. ExclusiveTypeOK'
      BY <1>13 DEF Unlink, ExclusiveInv, ExclusiveTypeOK, Step, Doing
    <3>2. FilesMade'
      BY <1>13 DEF Unlink, FilesMade, Prober, LockFile, ExclusiveInv, ExclusiveTypeOK, Step, Doing
    <3>3. QED
      BY <3>1, <3>2
  <2>2. ASSUME NEW d \in Command PROVE Prober(d)'
    BY <1>13 DEF Unlink, FilesMade, Prober, Owns, Flock, LockFile, ExclusiveInv, ExclusiveTypeOK, Step, Doing
  <2>3. ASSUME NEW d \in Command, Works(d)' PROVE Worker(d)'
    BY <1>13, <2>3 DEF Unlink, Works, Worker, FilesMade, Prober, Owns, Flock, LockFile, ExclusiveInv, ExclusiveTypeOK, Step, Doing
  <2>4. QED
    BY <2>1, <2>2, <2>3 DEF ExclusiveInv
<1>14. ASSUME NEW c \in Command, End(c) PROVE ExclusiveInv'
  <2>1. ExclusiveTypeOK' /\ FilesMade'
    <3>1. ExclusiveTypeOK'
      BY <1>14, CloseStep DEF End, ExclusiveInv, ExclusiveTypeOK, Step, Doing
    <3>2. FilesMade'
      BY <1>14 DEF End, FilesMade, Prober, LockFile, ExclusiveInv, ExclusiveTypeOK, Step, Doing
    <3>3. QED
      BY <3>1, <3>2
  <2>2. ASSUME NEW d \in Command PROVE Prober(d)'
    BY <1>14, CloseStep DEF End, FilesMade, Prober, Owns, Flock, LockFile, ExclusiveInv, ExclusiveTypeOK, Step, Doing
  <2>3. ASSUME NEW d \in Command, Works(d)' PROVE Worker(d)'
    BY <1>14, <2>3, CloseStep DEF End, Works, Worker, FilesMade, Prober, Owns, Flock, LockFile, ExclusiveInv, ExclusiveTypeOK, Step, Doing
  <2>4. QED
    BY <2>1, <2>2, <2>3 DEF ExclusiveInv
<1>15. ASSUME NEW c \in Command, Kill(c) PROVE ExclusiveInv'
  <2>1. ExclusiveTypeOK' /\ FilesMade'
    <3>1. ExclusiveTypeOK'
      BY <1>15, CloseStep DEF Kill, ExclusiveInv, ExclusiveTypeOK, Step, Doing
    <3>2. FilesMade'
      BY <1>15 DEF Kill, FilesMade, Prober, LockFile, ExclusiveInv, ExclusiveTypeOK, Step, Doing
    <3>3. QED
      BY <3>1, <3>2
  <2>2. ASSUME NEW d \in Command PROVE Prober(d)'
    BY <1>15, CloseStep DEF Kill, FilesMade, Prober, Owns, Flock, LockFile, ExclusiveInv, ExclusiveTypeOK, Step, Doing
  <2>3. ASSUME NEW d \in Command, Works(d)' PROVE Worker(d)'
    BY <1>15, <2>3, CloseStep DEF Kill, Works, Worker, FilesMade, Prober, Owns, Flock, LockFile, ExclusiveInv, ExclusiveTypeOK, Step, Doing
  <2>4. QED
    BY <2>1, <2>2, <2>3 DEF ExclusiveInv
<1>16. ASSUME NEW f \in LockFile, GetOld(f) PROVE ExclusiveInv'
  <2>1. ExclusiveTypeOK' /\ FilesMade'
    BY <1>16 DEF GetOld, FilesMade, ExclusiveInv, ExclusiveTypeOK
  <2>2. ASSUME NEW d \in Command PROVE Prober(d)'
    BY <1>16 DEF GetOld, Prober, Owns, Flock, ExclusiveInv, ExclusiveTypeOK
  <2>3. ASSUME NEW d \in Command, Works(d)' PROVE Worker(d)'
    BY ZenonT(60), <1>16, <2>3 DEF GetOld, Exposed, Prober, Works, Worker, Owns, Flock, ExclusiveInv, ExclusiveTypeOK
  <2>4. QED
    BY <2>1, <2>2, <2>3 DEF ExclusiveInv
<1>17. CASE UNCHANGED exclusiveVars
  BY <1>17 DEF exclusiveVars, ExclusiveInv, ExclusiveTypeOK, FilesMade, Prober, Worker, Works, Owns, Flock
<1>18. QED
  BY <1>1, <1>2, <1>3, <1>4, <1>5, <1>6, <1>7, <1>8, <1>9, <1>10, <1>11, <1>12, <1>13, <1>14, <1>15, <1>16, <1>17 DEF ExclusiveNext

(* acquire_lock(): of the commands on this machine at most one is past the  *)
(* creation of the lock file, so at most one runs its body; a reclaimer     *)
(* unlinks only a file whose maker is dead.                                 *)
THEOREM OneCommandAtATime ==
    ExclusiveSpec => [](OneCommand /\ \A c, d \in Command : Works(c) /\ Works(d) => c = d)
<1>1. ExclusiveInv => OneCommand /\ \A c, d \in Command : Works(c) /\ Works(d) => c = d
  BY DEF ExclusiveInv, OneCommand, Works, Worker
<1>2. QED
  BY <1>1, ExclusiveInvInit, ExclusiveInvStep, PTL DEF ExclusiveSpec

HIDE LockFileAssumption

-----------------------------------------------------------------------------
(* lock's signals.  The invariant pairs every place of the command with the *)
(* handler phase installed there, with the press that was heard and with    *)
(* what the rows, the .env and the exit code then are.                      *)

\* Places before the .env is rewritten.
Early == {"preflight", "pass1", "stretch"}

\* Which handler answers a press at each place.
PhaseFits ==
    /\ at \in {"idle", "done"} <=> phase = "off"
    /\ at \in {"preflight", "postflight", "refused", "apply", "confirm"} => phase = "raise"
    /\ at \in {"pass1", "stretch", "unwind"} => phase = "cancel"
    /\ at \in {"rewrite", "committed"} => phase = "defer"
    /\ \/ at \in {"record", "tail"}
       \/ at \in {"except", "wipe"} /\ committed
       =>
           phase = "defer" \/ (phase = "raise" /\ answered)

\* Which press was heard, and whether it was answered.
SignalFits ==
    /\ signum = 0 <=> heard = "idle"
    /\ callbacks > 0 => signum # 0
    /\ at \in {"idle", "preflight", "postflight", "refused", "apply", "confirm"} =>
           signum = 0 /\ ~answered
    /\ cancelling => at = "pass1" /\ signum # 0
    /\ at = "pass1" => (answered <=> cancelling)
    /\ at \in {"stretch", "rewrite", "committed"} => ~answered
    /\ at = "unwind" => answered
    /\ at = "rewrite" \/ committed => heard \notin Early

\* Which rows are written.
RowsFit ==
    /\ at \in {"preflight", "pass1", "stretch", "rewrite", "unwind"} => ~committed
    /\ at \in {"committed", "postflight", "refused", "apply", "confirm", "record", "tail"} =>
           committed
    /\ committed => written = Key
    /\ ~committed /\ ~unclean => written \subseteq planned
    /\ at \in {"pass1", "stretch", "rewrite"} => planned \subseteq written
    /\ at \in {"stretch", "rewrite"} => planned = Key
    /\ \/ at \in {"idle", "preflight"}
       \/ at \in {"wipe", "done"} /\ ~committed
       => planned = {}

\* When the exit code is set.
CodeFits ==
    /\ at \in {"except", "unwind"} => code # 0
    /\ at \in {"tail", "wipe", "done"} /\ code = 0 => heard \in {"idle", "tail", "wipe"}

\* What the sentinel says of an unfinished wiring.
StatusFits ==
    /\ at = "except" /\ committed => unclean
    /\ at \in {"tail", "wipe", "done", "idle"} /\ committed /\ present /\ ~wired /\ ~unclean =>
           \/ sentinel = "failed"
           \/ sentinel = "unfinished" /\ (at # "idle" => code # 0)

\* The inductive invariant.
LockInv == LockTypeOK /\ PhaseFits /\ SignalFits /\ RowsFit /\ CodeFits /\ StatusFits

USE InterruptsAssumption

(* It holds before the command starts. *)
LEMMA LockInvInit == LockInit => LockInv
<1> SUFFICES ASSUME LockInit PROVE LockInv
  OBVIOUS
<1> USE DEF LockInit
<1>1. LockTypeOK
  BY DEF LockTypeOK, Place, Synchronous, Codes, Signum
<1>2. PhaseFits /\ SignalFits /\ CodeFits /\ StatusFits
  BY DEF PhaseFits, SignalFits, CodeFits, StatusFits, Early, Signum
<1>3. RowsFit
  BY DEF RowsFit
<1>4. QED
  BY <1>1, <1>2, <1>3 DEF LockInv

(* Every step of the command and every press keeps it. *)
LEMMA LockInvStep == LockInv /\ [LockNext]_lockVars => LockInv'
<1> SUFFICES ASSUME LockInv, [LockNext]_lockVars PROVE LockInv'
  OBVIOUS
<1> USE DEF LockInv, LockTypeOK, PhaseFits, SignalFits, RowsFit, CodeFits, StatusFits,
       Place, Synchronous, Codes, Early, Signum, machine, loop, outside, limits,
       Raise, Leave, ExitCode, Pending, Failure, Unfinished
<1>1. CASE Start
  <2>1. LockTypeOK'
    BY <1>1 DEF Start
  <2>2. PhaseFits'
    BY <1>1 DEF Start
  <2>3. SignalFits'
    BY <1>1 DEF Start
  <2>4. RowsFit'
    BY <1>1 DEF Start
  <2>5. CodeFits'
    BY <1>1 DEF Start
  <2>6. StatusFits'
    BY <1>1 DEF Start
  <2>7. QED
    BY <2>1, <2>2, <2>3, <2>4, <2>5, <2>6 DEF LockInv
<1>2. CASE Relock
  <2>1. LockTypeOK'
    BY <1>2 DEF Relock
  <2>2. PhaseFits'
    BY <1>2 DEF Relock
  <2>3. SignalFits'
    BY <1>2 DEF Relock
  <2>4. RowsFit'
    BY <1>2 DEF Relock
  <2>5. CodeFits'
    BY <1>2 DEF Relock
  <2>6. StatusFits'
    BY <1>2 DEF Relock
  <2>7. QED
    BY <2>1, <2>2, <2>3, <2>4, <2>5, <2>6 DEF LockInv
<1>3. CASE Preflight
  <2>1. LockTypeOK'
    BY <1>3 DEF Preflight
  <2>2. PhaseFits'
    BY <1>3 DEF Preflight
  <2>3. SignalFits'
    BY <1>3 DEF Preflight
  <2>4. RowsFit'
    BY <1>3 DEF Preflight
  <2>5. CodeFits'
    BY <1>3 DEF Preflight
  <2>6. StatusFits'
    BY <1>3 DEF Preflight
  <2>7. QED
    BY <2>1, <2>2, <2>3, <2>4, <2>5, <2>6 DEF LockInv
<1>4. CASE PreflightRefuses
  <2>1. LockTypeOK'
    BY <1>4 DEF PreflightRefuses
  <2>2. PhaseFits'
    BY <1>4 DEF PreflightRefuses
  <2>3. SignalFits'
    BY <1>4 DEF PreflightRefuses
  <2>4. RowsFit'
    BY <1>4 DEF PreflightRefuses
  <2>5. CodeFits'
    BY <1>4 DEF PreflightRefuses
  <2>6. StatusFits'
    BY <1>4 DEF PreflightRefuses
  <2>7. QED
    BY <2>1, <2>2, <2>3, <2>4, <2>5, <2>6 DEF LockInv
<1>5. ASSUME NEW k \in Key, WriteRow(k) PROVE LockInv'
  <2>1. LockTypeOK'
    BY <1>5 DEF WriteRow
  <2>2. PhaseFits'
    BY <1>5 DEF WriteRow
  <2>3. SignalFits'
    BY <1>5 DEF WriteRow
  <2>4. RowsFit'
    BY <1>5 DEF WriteRow
  <2>5. CodeFits'
    BY <1>5 DEF WriteRow
  <2>6. StatusFits'
    BY <1>5 DEF WriteRow
  <2>7. QED
    BY <2>1, <2>2, <2>3, <2>4, <2>5, <2>6 DEF LockInv
<1>6. ASSUME NEW k \in Key, WriteRowFails(k) PROVE LockInv'
  <2>1. LockTypeOK'
    BY <1>6 DEF WriteRowFails
  <2>2. PhaseFits'
    BY <1>6 DEF WriteRowFails
  <2>3. SignalFits'
    BY <1>6 DEF WriteRowFails
  <2>4. RowsFit'
    BY <1>6 DEF WriteRowFails
  <2>5. CodeFits'
    BY <1>6 DEF WriteRowFails
  <2>6. StatusFits'
    BY <1>6 DEF WriteRowFails
  <2>7. QED
    BY <2>1, <2>2, <2>3, <2>4, <2>5, <2>6 DEF LockInv
<1>7. ASSUME NEW k \in Key, UnwindRow(k) PROVE LockInv'
  <2>1. LockTypeOK'
    BY <1>7 DEF UnwindRow
  <2>2. PhaseFits'
    BY <1>7 DEF UnwindRow
  <2>3. SignalFits'
    BY <1>7 DEF UnwindRow
  <2>4. RowsFit'
    BY <1>7 DEF UnwindRow
  <2>5. CodeFits'
    BY <1>7 DEF UnwindRow
  <2>6. StatusFits'
    BY <1>7 DEF UnwindRow
  <2>7. QED
    BY <2>1, <2>2, <2>3, <2>4, <2>5, <2>6 DEF LockInv
<1>8. ASSUME NEW k \in Key, UnwindRowFails(k) PROVE LockInv'
  <2>1. LockTypeOK'
    BY <1>8 DEF UnwindRowFails
  <2>2. PhaseFits'
    BY <1>8 DEF UnwindRowFails
  <2>3. SignalFits'
    BY <1>8 DEF UnwindRowFails
  <2>4. RowsFit'
    BY <1>8 DEF UnwindRowFails
  <2>5. CodeFits'
    BY <1>8 DEF UnwindRowFails
  <2>6. StatusFits'
    BY <1>8 DEF UnwindRowFails
  <2>7. QED
    BY <2>1, <2>2, <2>3, <2>4, <2>5, <2>6 DEF LockInv
<1>9. CASE LastAwait
  <2>1. LockTypeOK'
    BY <1>9 DEF LastAwait
  <2>2. PhaseFits'
    BY <1>9 DEF LastAwait
  <2>3. SignalFits'
    BY <1>9 DEF LastAwait
  <2>4. RowsFit'
    BY <1>9 DEF LastAwait
  <2>5. CodeFits'
    BY <1>9 DEF LastAwait
  <2>6. StatusFits'
    BY <1>9 DEF LastAwait
  <2>7. QED
    BY <2>1, <2>2, <2>3, <2>4, <2>5, <2>6 DEF LockInv
<1>10. CASE EnterDefer
  <2>1. LockTypeOK'
    <3>1. answered' \in BOOLEAN /\ cancelling' \in BOOLEAN
      BY <1>10 DEF EnterDefer
    <3>2. callbacks' \in Nat /\ presses' \in Nat /\ signum' \in Signum \cup {0} /\ heard' \in Place
      BY <1>10 DEF EnterDefer
    <3>3. at' \in Place /\ code' \in Codes /\ phase' \in {"off", "raise", "cancel", "defer"}
      BY <1>10 DEF EnterDefer
    <3>4. wired' \in BOOLEAN /\ sentinel' \in {"none", "ok", "absent", "unfinished", "failed"}
      BY <1>10 DEF EnterDefer
    <3>5. QED
      BY <1>10, <3>1, <3>2, <3>3, <3>4 DEF EnterDefer
  <2>2. PhaseFits'
    BY <1>10 DEF EnterDefer
  <2>3. SignalFits'
    BY <1>10 DEF EnterDefer
  <2>4. RowsFit'
    BY <1>10 DEF EnterDefer
  <2>5. CodeFits'
    BY <1>10 DEF EnterDefer
  <2>6. StatusFits'
    BY <1>10 DEF EnterDefer
  <2>7. QED
    BY <2>1, <2>2, <2>3, <2>4, <2>5, <2>6 DEF LockInv
<1>11. CASE Commit
  <2>1. LockTypeOK'
    BY <1>11 DEF Commit
  <2>2. PhaseFits'
    BY <1>11 DEF Commit
  <2>3. SignalFits'
    BY <1>11 DEF Commit
  <2>4. RowsFit'
    BY <1>11 DEF Commit
  <2>5. CodeFits'
    BY <1>11 DEF Commit
  <2>6. StatusFits'
    BY <1>11 DEF Commit
  <2>7. QED
    BY <2>1, <2>2, <2>3, <2>4, <2>5, <2>6 DEF LockInv
<1>12. CASE CommitFails
  <2>1. LockTypeOK'
    BY <1>12 DEF CommitFails
  <2>2. PhaseFits'
    BY <1>12 DEF CommitFails
  <2>3. SignalFits'
    BY <1>12 DEF CommitFails
  <2>4. RowsFit'
    BY <1>12 DEF CommitFails
  <2>5. CodeFits'
    BY <1>12 DEF CommitFails
  <2>6. StatusFits'
    BY <1>12 DEF CommitFails
  <2>7. QED
    BY <2>1, <2>2, <2>3, <2>4, <2>5, <2>6 DEF LockInv
<1>13. CASE Except
  <2>1. LockTypeOK'
    <3>1. answered' \in BOOLEAN /\ cancelling' \in BOOLEAN
      BY <1>13 DEF Except
    <3>2. callbacks' \in Nat /\ presses' \in Nat /\ signum' \in Signum \cup {0} /\ heard' \in Place
      BY <1>13 DEF Except
    <3>3. at' \in Place /\ code' \in Codes /\ phase' \in {"off", "raise", "cancel", "defer"}
      BY <1>13 DEF Except
    <3>4. wired' \in BOOLEAN /\ sentinel' \in {"none", "ok", "absent", "unfinished", "failed"}
      BY <1>13 DEF Except
    <3>5. QED
      BY <1>13, <3>1, <3>2, <3>3, <3>4 DEF Except
  <2>2. PhaseFits'
    BY <1>13 DEF Except
  <2>3. SignalFits'
    BY <1>13 DEF Except
  <2>4. RowsFit'
    BY <1>13 DEF Except
  <2>5. CodeFits'
    BY <1>13 DEF Except
  <2>6. StatusFits'
    BY <1>13 DEF Except
  <2>7. QED
    BY <2>1, <2>2, <2>3, <2>4, <2>5, <2>6 DEF LockInv
<1>14. CASE Unwound
  <2>1. LockTypeOK'
    BY <1>14 DEF Unwound
  <2>2. PhaseFits'
    BY <1>14 DEF Unwound
  <2>3. SignalFits'
    BY <1>14 DEF Unwound
  <2>4. RowsFit'
    BY <1>14 DEF Unwound
  <2>5. CodeFits'
    BY <1>14 DEF Unwound
  <2>6. StatusFits'
    BY <1>14 DEF Unwound
  <2>7. QED
    BY <2>1, <2>2, <2>3, <2>4, <2>5, <2>6 DEF LockInv
<1>15. CASE ZeroPlanned
  <2>1. LockTypeOK'
    BY <1>15 DEF ZeroPlanned
  <2>2. PhaseFits'
    BY <1>15 DEF ZeroPlanned
  <2>3. SignalFits'
    BY <1>15 DEF ZeroPlanned
  <2>4. RowsFit'
    BY <1>15 DEF ZeroPlanned
  <2>5. CodeFits'
    BY <1>15 DEF ZeroPlanned
  <2>6. StatusFits'
    BY <1>15 DEF ZeroPlanned
  <2>7. QED
    BY <2>1, <2>2, <2>3, <2>4, <2>5, <2>6 DEF LockInv
<1>16. CASE NoteFails
  <2>1. LockTypeOK'
    BY <1>16 DEF NoteFails
  <2>2. PhaseFits'
    BY <1>16 DEF NoteFails
  <2>3. SignalFits'
    BY <1>16 DEF NoteFails
  <2>4. RowsFit'
    BY <1>16 DEF NoteFails
  <2>5. CodeFits'
    BY <1>16 DEF NoteFails
  <2>6. StatusFits'
    BY <1>16 DEF NoteFails
  <2>7. QED
    BY <2>1, <2>2, <2>3, <2>4, <2>5, <2>6 DEF LockInv
<1>17. CASE EnterRaise
  <2>1. LockTypeOK'
    <3>1. answered' \in BOOLEAN /\ cancelling' \in BOOLEAN
      BY <1>17 DEF EnterRaise
    <3>2. callbacks' \in Nat /\ presses' \in Nat /\ signum' \in Signum \cup {0} /\ heard' \in Place
      BY <1>17 DEF EnterRaise
    <3>3. at' \in Place /\ code' \in Codes /\ phase' \in {"off", "raise", "cancel", "defer"}
      BY <1>17 DEF EnterRaise
    <3>4. wired' \in BOOLEAN /\ sentinel' \in {"none", "ok", "absent", "unfinished", "failed"}
      BY <1>17 DEF EnterRaise
    <3>5. QED
      BY <1>17, <3>1, <3>2, <3>3, <3>4 DEF EnterRaise
  <2>2. PhaseFits'
    BY <1>17 DEF EnterRaise
  <2>3. SignalFits'
    BY <1>17 DEF EnterRaise
  <2>4. RowsFit'
    BY <1>17 DEF EnterRaise
  <2>5. CodeFits'
    BY <1>17 DEF EnterRaise
  <2>6. StatusFits'
    BY <1>17 DEF EnterRaise
  <2>7. QED
    BY <2>1, <2>2, <2>3, <2>4, <2>5, <2>6 DEF LockInv
<1>18. CASE Postflight
  <2>1. LockTypeOK'
    BY <1>18 DEF Postflight
  <2>2. PhaseFits'
    BY <1>18 DEF Postflight
  <2>3. SignalFits'
    BY <1>18 DEF Postflight
  <2>4. RowsFit'
    BY <1>18 DEF Postflight
  <2>5. CodeFits'
    BY <1>18 DEF Postflight
  <2>6. StatusFits'
    BY <1>18 DEF Postflight
  <2>7. QED
    BY <2>1, <2>2, <2>3, <2>4, <2>5, <2>6 DEF LockInv
<1>19. CASE Refused
  <2>1. LockTypeOK'
    BY <1>19 DEF Refused
  <2>2. PhaseFits'
    BY <1>19 DEF Refused
  <2>3. SignalFits'
    BY <1>19 DEF Refused
  <2>4. RowsFit'
    BY <1>19 DEF Refused
  <2>5. CodeFits'
    BY <1>19 DEF Refused
  <2>6. StatusFits'
    BY <1>19 DEF Refused
  <2>7. QED
    BY <2>1, <2>2, <2>3, <2>4, <2>5, <2>6 DEF LockInv
<1>20. CASE Apply
  <2>1. LockTypeOK'
    <3>1. answered' \in BOOLEAN /\ cancelling' \in BOOLEAN
      BY <1>20 DEF Apply
    <3>2. callbacks' \in Nat /\ presses' \in Nat /\ signum' \in Signum \cup {0} /\ heard' \in Place
      BY <1>20 DEF Apply
    <3>3. at' \in Place /\ code' \in Codes /\ phase' \in {"off", "raise", "cancel", "defer"}
      BY <1>20 DEF Apply
    <3>4. wired' \in BOOLEAN /\ sentinel' \in {"none", "ok", "absent", "unfinished", "failed"}
      BY <1>20 DEF Apply
    <3>5. QED
      BY <1>20, <3>1, <3>2, <3>3, <3>4 DEF Apply
  <2>2. PhaseFits'
    BY <1>20 DEF Apply
  <2>3. SignalFits'
    BY <1>20 DEF Apply
  <2>4. RowsFit'
    BY <1>20 DEF Apply
  <2>5. CodeFits'
    BY <1>20 DEF Apply
  <2>6. StatusFits'
    BY <1>20 DEF Apply
  <2>7. QED
    BY <2>1, <2>2, <2>3, <2>4, <2>5, <2>6 DEF LockInv
<1>21. CASE Confirm
  <2>1. LockTypeOK'
    BY <1>21 DEF Confirm
  <2>2. PhaseFits'
    BY <1>21 DEF Confirm
  <2>3. SignalFits'
    BY <1>21 DEF Confirm
  <2>4. RowsFit'
    BY <1>21 DEF Confirm
  <2>5. CodeFits'
    BY <1>21 DEF Confirm
  <2>6. StatusFits'
    BY <1>21 DEF Confirm
  <2>7. QED
    BY <2>1, <2>2, <2>3, <2>4, <2>5, <2>6 DEF LockInv
<1>22. CASE RecordUnfinished
  <2>1. LockTypeOK'
    BY <1>22 DEF RecordUnfinished
  <2>2. PhaseFits'
    BY <1>22 DEF RecordUnfinished
  <2>3. SignalFits'
    BY <1>22 DEF RecordUnfinished
  <2>4. RowsFit'
    BY <1>22 DEF RecordUnfinished
  <2>5. CodeFits'
    BY <1>22 DEF RecordUnfinished
  <2>6. StatusFits'
    BY <1>22 DEF RecordUnfinished
  <2>7. QED
    BY <2>1, <2>2, <2>3, <2>4, <2>5, <2>6 DEF LockInv
<1>23. CASE Epilogue
  <2>1. LockTypeOK'
    BY <1>23 DEF Epilogue
  <2>2. PhaseFits'
    BY <1>23 DEF Epilogue
  <2>3. SignalFits'
    BY <1>23 DEF Epilogue
  <2>4. RowsFit'
    BY <1>23 DEF Epilogue
  <2>5. CodeFits'
    BY <1>23 DEF Epilogue
  <2>6. StatusFits'
    BY <1>23 DEF Epilogue
  <2>7. QED
    BY <2>1, <2>2, <2>3, <2>4, <2>5, <2>6 DEF LockInv
<1>24. CASE Dispatch
  <2>1. LockTypeOK'
    <3>1. answered' \in BOOLEAN /\ cancelling' \in BOOLEAN
      BY <1>24 DEF Dispatch
    <3>2. callbacks' \in Nat /\ presses' \in Nat /\ signum' \in Signum \cup {0} /\ heard' \in Place
      BY <1>24 DEF Dispatch
    <3>3. at' \in Place /\ code' \in Codes /\ phase' \in {"off", "raise", "cancel", "defer"}
      BY <1>24 DEF Dispatch
    <3>4. wired' \in BOOLEAN /\ sentinel' \in {"none", "ok", "absent", "unfinished", "failed"}
      BY <1>24 DEF Dispatch
    <3>5. QED
      BY <1>24, <3>1, <3>2, <3>3, <3>4 DEF Dispatch
  <2>2. PhaseFits'
    BY <1>24 DEF Dispatch
  <2>3. SignalFits'
    BY <1>24 DEF Dispatch
  <2>4. RowsFit'
    BY <1>24 DEF Dispatch
  <2>5. CodeFits'
    BY <1>24 DEF Dispatch
  <2>6. StatusFits'
    BY <1>24 DEF Dispatch
  <2>7. QED
    BY <2>1, <2>2, <2>3, <2>4, <2>5, <2>6 DEF LockInv
<1>25. CASE Cancelled
  <2>1. LockTypeOK'
    <3>1. answered' \in BOOLEAN /\ cancelling' \in BOOLEAN
      BY <1>25 DEF Cancelled
    <3>2. callbacks' \in Nat /\ presses' \in Nat /\ signum' \in Signum \cup {0} /\ heard' \in Place
      BY <1>25 DEF Cancelled
    <3>3. at' \in Place /\ code' \in Codes /\ phase' \in {"off", "raise", "cancel", "defer"}
      BY <1>25 DEF Cancelled
    <3>4. wired' \in BOOLEAN /\ sentinel' \in {"none", "ok", "absent", "unfinished", "failed"}
      BY <1>25 DEF Cancelled
    <3>5. QED
      BY <1>25, <3>1, <3>2, <3>3, <3>4 DEF Cancelled
  <2>2. PhaseFits'
    BY <1>25 DEF Cancelled
  <2>3. SignalFits'
    BY <1>25 DEF Cancelled
  <2>4. RowsFit'
    BY <1>25 DEF Cancelled
  <2>5. CodeFits'
    BY <1>25 DEF Cancelled
  <2>6. StatusFits'
    BY <1>25 DEF Cancelled
  <2>7. QED
    BY <2>1, <2>2, <2>3, <2>4, <2>5, <2>6 DEF LockInv
<1>26. CASE Again
  <2>1. LockTypeOK'
    BY <1>26 DEF Again
  <2>2. PhaseFits'
    BY <1>26 DEF Again
  <2>3. SignalFits'
    BY <1>26 DEF Again
  <2>4. RowsFit'
    BY <1>26 DEF Again
  <2>5. CodeFits'
    BY <1>26 DEF Again
  <2>6. StatusFits'
    BY <1>26 DEF Again
  <2>7. QED
    BY <2>1, <2>2, <2>3, <2>4, <2>5, <2>6 DEF LockInv
<1>27. ASSUME NEW s \in Signum, Signal(s) PROVE LockInv'
  <2>1. LockTypeOK'
    <3>1. answered' \in BOOLEAN /\ cancelling' \in BOOLEAN
      BY <1>27 DEF Signal, Interrupted
    <3>2. callbacks' \in Nat /\ presses' \in Nat /\ signum' \in Signum \cup {0} /\ heard' \in Place
      BY <1>27 DEF Signal, Interrupted
    <3>3. at' \in Place /\ code' \in Codes /\ phase' \in {"off", "raise", "cancel", "defer"}
      BY <1>27 DEF Signal, Interrupted
    <3>4. wired' \in BOOLEAN /\ sentinel' \in {"none", "ok", "absent", "unfinished", "failed"}
      BY <1>27 DEF Signal, Interrupted
    <3>5. QED
      BY <1>27, <3>1, <3>2, <3>3, <3>4 DEF Signal, Interrupted
  <2>2. PhaseFits'
    BY <1>27 DEF Signal, Interrupted
  <2>3. SignalFits'
    BY <1>27 DEF Signal, Interrupted
  <2>4. RowsFit'
    BY <1>27 DEF Signal, Interrupted
  <2>5. CodeFits'
    BY <1>27 DEF Signal, Interrupted
  <2>6. StatusFits'
    BY <1>27 DEF Signal, Interrupted
  <2>7. QED
    BY <2>1, <2>2, <2>3, <2>4, <2>5, <2>6 DEF LockInv
<1>28. CASE UNCHANGED lockVars
  BY <1>28 DEF lockVars
<1>29. QED
  BY <1>1, <1>2, <1>3, <1>4, <1>5, <1>6, <1>7, <1>8, <1>9, <1>10, <1>11, <1>12, <1>13, <1>14, <1>15, <1>16, <1>17, <1>18, <1>19, <1>20, <1>21, <1>22, <1>23, <1>24, <1>25, <1>26, <1>27, <1>28 DEF LockNext

(* _lock_keys() and its handlers: whatever the moments of the presses, the  *)
(* rows follow the .env (all of them when it was rewritten, none of those   *)
(* this command planned when it was not, unless an unwind failed and said   *)
(* so), and the exit code tells the press that was heeded.                  *)
THEOREM InterruptedLockIsHonest == LockSpec => [](AllOrNothing /\ ExitCodeHonest)
<1>1. LockInv => AllOrNothing /\ ExitCodeHonest
  BY DEF LockInv, LockTypeOK, PhaseFits, SignalFits, RowsFit, CodeFits, StatusFits, Early, Place, Synchronous,
     AllOrNothing, RowsFollowTheFile, EarlyPressLocksNothing, ExitCodeHonest, PressHeeded, StatusHonest
<1>2. QED
  BY <1>1, LockInvInit, LockInvStep, PTL DEF LockSpec

(* ExitCodeHonest: a press that lock heeds ends the command with the code of *)
(* the signal, and no other end has that code; 0 means that nothing is left  *)
(* to do.                                                                    *)
THEOREM ExitTellsTheTruth == LockSpec => []ExitCodeHonest
BY InterruptedLockIsHonest, PTL

HIDE InterruptsAssumption

-----------------------------------------------------------------------------
(* The bind probe.  Since the reading before, a per-alias counter rises     *)
(* with the probes that the proxy acknowledged and with nothing else.       *)

\* A reading of the counters.
Reading == [total : Nat, of : [ProbeAlias -> Nat], by_alias : BOOLEAN]

\* What the counters tell of the probes acknowledged since that reading.
SinceReading ==
    /\ \A a \in ProbeAlias : counters.of[a] > before.of[a] => a \in acked
    /\ ~bounced => \A a \in ProbeAlias :
           /\ counters.of[a] >= before.of[a]
           /\ a \in acked => counters.of[a] > before.of[a]

\* The inductive invariant.
ProbeInv ==
    /\ counters \in Reading
    /\ before \in Reading
    /\ acked \subseteq ProbeAlias
    /\ judge = "before" => acked = {} /\ ~bounced
    /\ judge # "judged" => verdict = "none"
    /\ judge \in {"probing", "after"} \/ verdict \in {"pass", "fail"} => SinceReading
    /\ verdict = "pass" /\ before.by_alias /\ counters.by_alias => Silent = {}
    /\ verdict = "fail" /\ before.by_alias /\ counters.by_alias => Silent # {}

(* One request raises at most the counter of its own alias. *)
LEMMA TickStep ==
    ASSUME ProbeInv, NEW a \in ProbeAlias, Tick(a)
    PROVE  /\ counters' \in Reading
           /\ counters'.by_alias = counters.by_alias
           /\ \A b \in ProbeAlias : b # a => counters'.of[b] = counters.of[b]
           /\ \/ counters'.of[a] = counters.of[a] /\ acked' = acked
              \/ /\ counters'.of[a] = counters.of[a] + 1
                 /\ acked' = IF judge # "before" THEN acked \cup {a} ELSE acked
<1> DEFINE new == IF Recorded(a) THEN counters.of[a] + 1 ELSE counters.of[a]
           of2 == [counters.of EXCEPT ![a] = new]
<1>1. counters \in Reading
  BY DEF ProbeInv
<1>2. new \in Nat /\ of2 \in [ProbeAlias -> Nat]
  BY <1>1 DEF Reading
<1>3. counters' = [total |-> counters.total + 1, of |-> of2, by_alias |-> counters.by_alias]
  BY <1>1 DEF Tick, Reading
<1>4. counters'.of = of2 /\ counters'.by_alias = counters.by_alias /\ counters' \in Reading
  BY <1>1, <1>2, <1>3 DEF Reading
<1>5. of2[a] = new /\ \A b \in ProbeAlias : b # a => of2[b] = counters.of[b]
  BY <1>1 DEF Reading
<1>6. QED
  BY <1>4, <1>5 DEF Tick

(* No probe has been fired at first. *)
LEMMA ProbeInvInit == ProbeInit => ProbeInv
BY DEF ProbeInit, ProbeInv, Reading, SinceReading, Zero, ProbeAlias

(* Requests, restarts of the listener and the probe's steps keep it. *)
LEMMA ProbeInvStep == ProbeInv /\ [ProbeNext]_probeVars => ProbeInv'
<1> SUFFICES ASSUME ProbeInv, [ProbeNext]_probeVars PROVE ProbeInv'
  OBVIOUS
<1>1. ASSUME NEW a \in ProbeAlias, OtherProbes(a) PROVE ProbeInv'
  BY <1>1, TickStep DEF OtherProbes, ProbeInv, SinceReading, Reading, Silent
<1>2. CASE Bounce
  <2>1. counters' = [total |-> 0, of |-> [a \in ProbeAlias |-> 0], by_alias |-> listener' = "proxy"]
    BY <1>2 DEF Bounce, Zero
  <2>2. counters' \in Reading /\ \A a \in ProbeAlias : counters'.of[a] = 0
    BY <2>1 DEF Reading
  <2>3. \A a \in ProbeAlias : before.of[a] \in Nat
    BY DEF ProbeInv, Reading
  <2>4. judge # "before" => bounced'
    BY <1>2 DEF Bounce
  <2>5. judge = "before" => ~bounced'
    BY <1>2 DEF Bounce, ProbeInv
  <2>6. acked' = {} /\ verdict = "none" /\ judge # "judged"
        /\ UNCHANGED <<judge, before, verdict>>
    BY <1>2 DEF Bounce, ProbeInv
  <2>7. judge # "before" => SinceReading'
    BY <2>2, <2>3, <2>4, <2>6 DEF SinceReading
  <2>8. QED
    BY <2>2, <2>5, <2>6, <2>7 DEF ProbeInv
<1>3. CASE ReadBefore
  BY <1>3 DEF ReadBefore, Judged, ProbeInv, SinceReading, Reading, Silent
<1>4. ASSUME NEW a \in Probed, Fire(a) PROVE ProbeInv'
  <2>1. a \in ProbeAlias
    BY DEF ProbeAlias
  <2>2. CASE Tick(a)
    BY <1>4, <2>1, <2>2, TickStep DEF Fire, ProbeInv, SinceReading, Reading, Silent
  <2>3. CASE UNCHANGED <<counters, acked>>
    BY <1>4, <2>3 DEF Fire, ProbeInv, SinceReading, Reading, Silent
  <2>4. QED
    BY <1>4, <2>2, <2>3 DEF Fire
<1>5. CASE FiredAll
  BY <1>5 DEF FiredAll, ProbeInv, SinceReading, Reading, Silent
<1>6. CASE JudgeBind
  BY <1>6 DEF JudgeBind, Judged, PerAliasVerdict, ProbeInv, SinceReading, Reading, Silent, OurProxy, GlobalVerdict
<1>7. CASE UNCHANGED probeVars
  BY <1>7 DEF probeVars, ProbeInv, SinceReading, Reading, Silent
<1>8. QED
  BY <1>1, <1>2, <1>3, <1>4, <1>5, <1>6, <1>7 DEF ProbeNext

(* verify_bind_probe(): between two readings of per-alias counters, "pass"  *)
(* means that every alias was heard by the proxy, and "fail" that one was   *)
(* silent, whatever else was served or restarted meanwhile.                 *)
THEOREM VerdictsAreTrue == ProbeSpec => []VerdictsTrue
<1>1. ProbeInv => VerdictsTrue
  BY DEF ProbeInv, SinceReading, Reading, Silent, VerdictsTrue, PassIsPerAlias, FailIsASilence, ByAlias, ProbeAlias
<1>2. QED
  BY <1>1, ProbeInvInit, ProbeInvStep, PTL DEF ProbeSpec

-----------------------------------------------------------------------------
(* The rewrite of .env.  A writer that verified its baseline holds the      *)
(* target's flock, so what it stages contains what the target holds; and no *)
(* name ever leads to a file whose content is not yet on the disk.          *)

\* How far writer w has come.
Staging(w) == at_step[w] \in {"created", "written", "synced", "listed", "staged"}
Verified(w) == at_step[w] = "verified" \/ Staging(w)
LocksTarget(w) == at_step[w] \in {"locked", "replaced"} \/ Verified(w)
HasTarget(w) == at_step[w] = "opened" \/ LocksTarget(w)

\* Descriptors lead to files that exist, and a verified target is flocked.
NamesOK ==
    /\ target <= inodes
    /\ target_disk <= inodes
    /\ \A w \in Writer : HasTarget(w) => target_fd[w] \in 1..inodes
    /\ \A w \in Writer : LocksTarget(w) => flocked[target_fd[w]] = w
    /\ \A w \in Writer : at_step[w] = "staged" => target = target_fd[w]

\* Not torn, and with every change that was promised.
Whole(content) == Torn \notin content /\ firm \subseteq content

\* What the names lead to, now and after a power loss, is whole.
TargetOK ==
    /\ landed \subseteq data[target]
    /\ Whole(data[target])
    /\ Whole(data_disk[target])
    /\ Whole(data[target_disk])
    /\ Whole(data_disk[target_disk])

\* A temporary file is nobody else's.
TmpOK ==
    \A w \in Writer : Staging(w) =>
        /\ tmp[w] \in 1..inodes
        /\ tmp[w] # target
        /\ tmp[w] # target_disk
        /\ \A v \in Writer : HasTarget(v) => tmp[w] # target_fd[v]
        /\ \A v \in Writer \ {w} : Staging(v) => tmp[w] # tmp[v]

\* What is staged is what was verified, with the change.
ContentOK ==
    \A w \in Writer :
        /\ Torn \notin existing[w]
        /\ Verified(w) => existing[w] = data[target_fd[w]]
        /\ at_step[w] \in {"written", "synced", "listed", "staged"} =>
               data[tmp[w]] = existing[w] \cup {w}
        /\ at_step[w] \in {"synced", "listed", "staged"} => data_disk[tmp[w]] = data[tmp[w]]

\* The inductive invariant.
RewriteInv == RewriteTypeOK /\ NamesOK /\ TargetOK /\ TmpOK /\ ContentOK

USE RewriteAssumption

(* One whole .env exists at first. *)
LEMMA RewriteInvInit == RewriteInit => RewriteInv
BY DEF RewriteInit, RewriteInv, RewriteTypeOK, NamesOK, TargetOK, TmpOK, ContentOK, Whole,
       Staging, Verified, LocksTarget, HasTarget, Inode, Content, RewriteSteps

(* Every step of the writers, the editors and the crashes keeps it. *)
LEMMA RewriteInvStep == ~LateEdits /\ RewriteInv /\ [RewriteNext]_rewriteVars => RewriteInv'
<1> SUFFICES ASSUME ~LateEdits, RewriteInv, [RewriteNext]_rewriteVars PROVE RewriteInv'
  OBVIOUS
<1> USE DEF RewriteInv, RewriteTypeOK, NamesOK, TargetOK, TmpOK, ContentOK, Whole,
       Staging, Verified, LocksTarget, HasTarget, Inode, Content, RewriteSteps, disk, mine, To
<1>1. ASSUME NEW w \in Writer, ReadExisting(w) PROVE RewriteInv'
  <2>1. RewriteTypeOK'
    BY <1>1 DEF ReadExisting
  <2>2. NamesOK'
    BY <1>1 DEF ReadExisting
  <2>3. TargetOK'
    BY <1>1 DEF ReadExisting
  <2>4. TmpOK'
    BY <1>1 DEF ReadExisting
  <2>5. ContentOK'
    BY <1>1 DEF ReadExisting
  <2>6. QED
    BY <2>1, <2>2, <2>3, <2>4, <2>5 DEF RewriteInv
<1>2. ASSUME NEW w \in Writer, OpenTarget(w) PROVE RewriteInv'
  <2>1. RewriteTypeOK'
    BY <1>2 DEF OpenTarget
  <2>2. NamesOK'
    BY <1>2 DEF OpenTarget
  <2>3. TargetOK'
    BY <1>2 DEF OpenTarget
  <2>4. TmpOK'
    BY <1>2 DEF OpenTarget
  <2>5. ContentOK'
    BY <1>2 DEF OpenTarget
  <2>6. QED
    BY <2>1, <2>2, <2>3, <2>4, <2>5 DEF RewriteInv
<1>3. ASSUME NEW w \in Writer, FlockTarget(w) PROVE RewriteInv'
  <2>1. RewriteTypeOK'
    BY <1>3 DEF FlockTarget
  <2>2. NamesOK'
    BY <1>3 DEF FlockTarget
  <2>3. TargetOK'
    BY <1>3 DEF FlockTarget
  <2>4. TmpOK'
    BY <1>3 DEF FlockTarget
  <2>5. ContentOK'
    BY <1>3 DEF FlockTarget
  <2>6. QED
    BY <2>1, <2>2, <2>3, <2>4, <2>5 DEF RewriteInv
<1>4. ASSUME NEW w \in Writer, VerifyBaseline(w) PROVE RewriteInv'
  <2>1. RewriteTypeOK'
    BY <1>4 DEF VerifyBaseline
  <2>2. NamesOK'
    BY <1>4 DEF VerifyBaseline
  <2>3. TargetOK'
    BY <1>4 DEF VerifyBaseline
  <2>4. TmpOK'
    BY <1>4 DEF VerifyBaseline
  <2>5. ContentOK'
    BY <1>4 DEF VerifyBaseline
  <2>6. QED
    BY <2>1, <2>2, <2>3, <2>4, <2>5 DEF RewriteInv
<1>5. ASSUME NEW w \in Writer, CreateTmp(w) PROVE RewriteInv'
  <2>1. RewriteTypeOK'
    BY <1>5 DEF CreateTmp
  <2>2. NamesOK'
    BY <1>5 DEF CreateTmp
  <2>3. TargetOK'
    BY <1>5 DEF CreateTmp
  <2>4. TmpOK'
    BY <1>5 DEF CreateTmp
  <2>5. ContentOK'
    BY <1>5 DEF CreateTmp
  <2>6. QED
    BY <2>1, <2>2, <2>3, <2>4, <2>5 DEF RewriteInv
<1>6. ASSUME NEW w \in Writer, WriteTmp(w) PROVE RewriteInv'
  <2>1. RewriteTypeOK'
    BY <1>6 DEF WriteTmp
  <2>2. NamesOK'
    BY <1>6 DEF WriteTmp
  <2>3. TargetOK'
    BY <1>6 DEF WriteTmp
  <2>4. TmpOK'
    BY <1>6 DEF WriteTmp
  <2>5. ContentOK'
    BY <1>6 DEF WriteTmp
  <2>6. QED
    BY <2>1, <2>2, <2>3, <2>4, <2>5 DEF RewriteInv
<1>7. ASSUME NEW w \in Writer, FsyncTmp(w) PROVE RewriteInv'
  <2>1. RewriteTypeOK'
    BY <1>7 DEF FsyncTmp
  <2>2. NamesOK'
    BY <1>7 DEF FsyncTmp
  <2>3. TargetOK'
    BY <1>7 DEF FsyncTmp
  <2>4. TmpOK'
    BY <1>7 DEF FsyncTmp
  <2>5. ContentOK'
    BY <1>7 DEF FsyncTmp
  <2>6. QED
    BY <2>1, <2>2, <2>3, <2>4, <2>5 DEF RewriteInv
<1>8. ASSUME NEW w \in Writer, FsyncDir(w) PROVE RewriteInv'
  <2>1. RewriteTypeOK'
    BY <1>8 DEF FsyncDir, ListDir
  <2>2. NamesOK'
    BY <1>8 DEF FsyncDir, ListDir
  <2>3. TargetOK'
    BY <1>8 DEF FsyncDir, ListDir
  <2>4. TmpOK'
    BY <1>8 DEF FsyncDir, ListDir
  <2>5. ContentOK'
    BY <1>8 DEF FsyncDir, ListDir
  <2>6. QED
    BY <2>1, <2>2, <2>3, <2>4, <2>5 DEF RewriteInv
<1>9. ASSUME NEW w \in Writer, RecheckTarget(w) PROVE RewriteInv'
  <2>1. RewriteTypeOK'
    BY <1>9 DEF RecheckTarget
  <2>2. NamesOK'
    BY <1>9 DEF RecheckTarget
  <2>3. TargetOK'
    BY <1>9 DEF RecheckTarget
  <2>4. TmpOK'
    BY <1>9 DEF RecheckTarget
  <2>5. ContentOK'
    BY <1>9 DEF RecheckTarget
  <2>6. QED
    BY <2>1, <2>2, <2>3, <2>4, <2>5 DEF RewriteInv
<1>10. ASSUME NEW w \in Writer, ReplaceTarget(w) PROVE RewriteInv'
  <2>1. RewriteTypeOK'
    BY <1>10 DEF ReplaceTarget
  <2>2. NamesOK'
    BY <1>10 DEF ReplaceTarget
  <2>3. TargetOK'
    BY <1>10 DEF ReplaceTarget
  <2>4. TmpOK'
    BY <1>10 DEF ReplaceTarget
  <2>5. ContentOK'
    BY <1>10 DEF ReplaceTarget
  <2>6. QED
    BY <2>1, <2>2, <2>3, <2>4, <2>5 DEF RewriteInv
<1>11. ASSUME NEW w \in Writer, SyncAndClose(w) PROVE RewriteInv'
  <2>1. RewriteTypeOK'
    BY <1>11 DEF SyncAndClose, ListDir, Released
  <2>2. NamesOK'
    BY <1>11 DEF SyncAndClose, ListDir, Released
  <2>3. TargetOK'
    BY <1>11 DEF SyncAndClose, ListDir, Released
  <2>4. TmpOK'
    BY <1>11 DEF SyncAndClose, ListDir, Released
  <2>5. ContentOK'
    BY <1>11 DEF SyncAndClose, ListDir, Released
  <2>6. QED
    BY <2>1, <2>2, <2>3, <2>4, <2>5 DEF RewriteInv
<1>12. ASSUME NEW w \in Writer, RefuseRewrite(w) PROVE RewriteInv'
  <2>1. RewriteTypeOK'
    BY <1>12 DEF RefuseRewrite, Released
  <2>2. NamesOK'
    BY <1>12 DEF RefuseRewrite, Released
  <2>3. TargetOK'
    BY <1>12 DEF RefuseRewrite, Released
  <2>4. TmpOK'
    BY <1>12 DEF RefuseRewrite, Released
  <2>5. ContentOK'
    BY <1>12 DEF RefuseRewrite, Released
  <2>6. QED
    BY <2>1, <2>2, <2>3, <2>4, <2>5 DEF RewriteInv
<1>13. ASSUME NEW w \in Writer, KillWriter(w) PROVE RewriteInv'
  <2>1. RewriteTypeOK'
    BY <1>13 DEF KillWriter, Released, Lose
  <2>2. NamesOK'
    BY <1>13 DEF KillWriter, Released, Lose
  <2>3. TargetOK'
    BY <1>13 DEF KillWriter, Released, Lose
  <2>4. TmpOK'
    BY <1>13 DEF KillWriter, Released, Lose
  <2>5. ContentOK'
    BY <1>13 DEF KillWriter, Released, Lose
  <2>6. QED
    BY <2>1, <2>2, <2>3, <2>4, <2>5 DEF RewriteInv
<1>14. CASE PowerLoss
  <2>1. RewriteTypeOK'
    BY <1>14 DEF PowerLoss, Lose
  <2>2. NamesOK'
    BY <1>14 DEF PowerLoss, Lose
  <2>3. TargetOK'
    BY <1>14 DEF PowerLoss, Lose
  <2>4. TmpOK'
    BY <1>14 DEF PowerLoss, Lose
  <2>5. ContentOK'
    BY <1>14 DEF PowerLoss, Lose
  <2>6. QED
    BY <2>1, <2>2, <2>3, <2>4, <2>5 DEF RewriteInv
<1>15. ASSUME NEW e \in Edits, EditInPlace(e) PROVE RewriteInv'
  <2>1. RewriteTypeOK'
    BY <1>15 DEF EditInPlace, Relied
  <2>2. NamesOK'
    BY <1>15 DEF EditInPlace, Relied
  <2>3. TargetOK'
    BY <1>15 DEF EditInPlace, Relied
  <2>4. TmpOK'
    BY <1>15 DEF EditInPlace, Relied
  <2>5. ContentOK'
    BY <1>15 DEF EditInPlace, Relied
  <2>6. QED
    BY <2>1, <2>2, <2>3, <2>4, <2>5 DEF RewriteInv
<1>16. ASSUME NEW e \in Edits, EditByRename(e) PROVE RewriteInv'
  <2>1. RewriteTypeOK'
    BY <1>16 DEF EditByRename, Relied
  <2>2. NamesOK'
    BY <1>16 DEF EditByRename, Relied
  <2>3. TargetOK'
    BY <1>16 DEF EditByRename, Relied
  <2>4. TmpOK'
    BY <1>16 DEF EditByRename, Relied
  <2>5. ContentOK'
    BY <1>16 DEF EditByRename, Relied
  <2>6. QED
    BY <2>1, <2>2, <2>3, <2>4, <2>5 DEF RewriteInv
<1>17. CASE UNCHANGED rewriteVars
  BY <1>17 DEF rewriteVars
<1>18. QED
  BY <1>1, <1>2, <1>3, <1>4, <1>5, <1>6, <1>7, <1>8, <1>9, <1>10, <1>11, <1>12, <1>13, <1>14, <1>15, <1>16, <1>17 DEF RewriteNext

(* safe_rewrite(): as long as no editor changes the file between the check  *)
(* of the baseline and the rename (the window the code documents), .env is  *)
(* whole before and after every kill and power loss, and no change that was *)
(* reported as written is lost, for any number of writers and crashes.      *)
THEOREM EnvKeptByRewrites == ~LateEdits => (RewriteSpec => []EnvKept)
<1> SUFFICES ASSUME ~LateEdits PROVE RewriteSpec => []EnvKept
  OBVIOUS
<1>1. RewriteInv /\ [RewriteNext]_rewriteVars => RewriteInv'
  BY RewriteInvStep
<1>2. RewriteInv => EnvKept
  BY DEF RewriteInv, TargetOK, Whole, EnvKept, EnvWhole, NoChangeLost
<1>3. QED
  BY <1>1, <1>2, RewriteInvInit, PTL DEF RewriteSpec

HIDE RewriteAssumption

-----------------------------------------------------------------------------
(* The master key.  Nothing but a first run or an uninstall destroys a key  *)
(* that a row is sealed under, and both find no row first; a migration      *)
(* copies a key before it removes it, and there is no second key meanwhile. *)

\* Steps under acquire_lock.
Locking == {"first", "adopt", "mint", "lock", "sync", "import", "recover", "stage", "unsync",
            "canonical", "unstage", "restore", "forget", "unmark"}

\* Each has the lock.
LockHeld == \A c \in Cli : now[c] \in Locking => lock_holder = c

\* An uninstall meets nobody.
UninstallAlone ==
    \A c \in Cli : now[c] \in Uninstalling => \A d \in Cli \ {c} : now[d] = "out"

\* Between Stage and Unstage doctor has the key in several places.
Moving(c) == now[c] \in {"stage", "unsync", "canonical", "unstage"}

\* The synced key of an older version is not yet, or just being, moved.
OldKey == place["synced"] # NoKey \/ \E c \in Cli : now[c] \in {"canonical", "unstage"}

\* While it is not, there is no other key.
OnlyOldKey ==
    /\ place["synced"] # NoKey => keyring
    /\ OldKey =>
        /\ \A p \in Places : place[p] \in {1, NoKey}
        /\ \A c \in Cli : key[c] \in {1, NoKey}
        /\ sealed \subseteq {1}

\* A copy is made before the original is removed.
MoveOK ==
    \A c \in Cli :
        /\ now[c] \in {"recover", "stage", "unsync"} => place["synced"] # NoKey
        /\ Moving(c) => key[c] = 1
        /\ now[c] \in {"unsync", "canonical", "unstage"} => place["staging"] = 1
        /\ now[c] = "unstage" => place["local"] = 1

\* No step but those of a first run or an uninstall destroys it.
Durable(k) ==
    \/ k \in {place["file"], place["local"], place["staging"]}
    \/ place["local"] = NoKey /\ k = place["synced"]

\* What a command goes on to seal with is kept somewhere.
CachedDurable ==
    \A c \in Cli : now[c] \notin Uninstalling /\ key[c] \notin {NoKey, Blank} => Durable(key[c])

\* So is what a row is sealed under.
SealedDurable ==
    \A k \in sealed : Durable(k) \/ (place["local"] = NoKey /\ k = place["recovery"])

\* A key is minted or removed only without rows, and lock has the rows' key.
Sealing ==
    \A c \in Cli :
        /\ now[c] \in {"mint", "forget", "unmark", "wipe"} => sealed = {}
        /\ now[c] = "lock" => sealed \subseteq {key[c]} /\ key[c] \in FernetKeys
        /\ now[c] = "sync" => key[c] \in FernetKeys

\* All rows are sealed under one key.
RowsOK ==
    /\ locked = sealed
    /\ sealed \subseteq FernetKeys
    /\ \A a, b \in sealed : a = b
    /\ \A c \in Cli : now[c] = "out" => key[c] = NoKey

\* The inductive invariant.
FernetInv ==
    /\ FernetTypeOK /\ LockHeld /\ UninstallAlone /\ OnlyOldKey /\ MoveOK
    /\ CachedDurable /\ SealedDurable /\ Sealing /\ RowsOK

\* A command gives up, or is killed.
Quits(c) == Ends(c) /\ UNCHANGED <<home, keyring>> /\ trouble' \in 0..MaxTrouble

USE FernetAssumption

(* The steps that only end a command. *)
LEMMA QuitSteps ==
    ASSUME FernetTypeOK, NEW c \in Cli, HomeBusy(c) \/ Orphaned(c) \/ NoKeyFound(c) \/ Healed(c) \/ KillCli(c)
    PROVE  Quits(c)
BY DEF HomeBusy, Orphaned, NoKeyFound, Healed, KillCli, RefuseHome, Trouble, FernetTypeOK, Quits

(* Nothing runs at first, and there is at most one key. *)
LEMMA FernetInvInit == FernetInit => FernetInv
<1> SUFFICES ASSUME FernetInit PROVE FernetInv
  OBVIOUS
<1> DEFINE starts == {[p \in Places |-> NoKey]} \cup {Only(where) : where \in Places}
<1>1. /\ place \in starts /\ keyring \in BOOLEAN /\ marker \in BOOLEAN
      /\ sealed \in {{}, {1}} /\ minted \in {0, 1} /\ locked = sealed
      /\ place["synced"] # NoKey => keyring
      /\ \A k \in sealed : \E where \in {"file", "local", "synced", "recovery"} : place = Only(where)
  BY DEF FernetInit, Only, Places
<1>2. place \in [Places -> {1, NoKey}]
  BY <1>1 DEF Only
<1>3. /\ lock_holder = NoCli /\ now = [c \in Cli |-> "out"] /\ key = [c \in Cli |-> NoKey] /\ trouble = 0
      /\ 1 \in FernetKeys
  BY DEF FernetInit, FernetKeys
<1>4. FernetTypeOK
  BY <1>1, <1>2, <1>3 DEF FernetTypeOK, Now
<1>5. LockHeld /\ UninstallAlone /\ MoveOK /\ CachedDurable /\ Sealing /\ RowsOK
  BY <1>1, <1>3 DEF LockHeld, Locking, UninstallAlone, Uninstalling, MoveOK, Moving, CachedDurable, Sealing, RowsOK
<1>6. OnlyOldKey
  BY <1>1, <1>2, <1>3 DEF OnlyOldKey
<1>7. SealedDurable
  BY <1>1, <1>2 DEF SealedDurable, Durable, Only, Places
<1>8. QED
  BY <1>4, <1>5, <1>6, <1>7 DEF FernetInv

(* Every step keeps the types. *)
LEMMA FernetTypeOKStep ==
    ASSUME FernetInv, ~Overlaps, [FernetNext]_fernetVars
    PROVE  FernetTypeOK'
<1> USE DEF FernetInv, home, FernetTypeOK, Now, Places, FernetKeys
<1>0. CASE UNCHANGED fernetVars
  BY <1>0 DEF fernetVars
<1>1. ASSUME NEW c \in Cli, Quits(c) PROVE FernetTypeOK'
  BY <1>1 DEF Quits, Ends, Cached
<1>2. ASSUME NEW c \in Cli, Begin(c) PROVE FernetTypeOK'
  BY <1>2 DEF Begin, Go, Uninstalling
<1>3. ASSUME NEW c \in Cli, Guard(c) PROVE FernetTypeOK'
  BY <1>3 DEF Guard, Go, ProvablyKeyless, ShardRowsPresent
<1>4. ASSUME NEW c \in Cli, LockHome(c) PROVE FernetTypeOK'
  BY <1>4 DEF LockHome, Go, Acquire
<1>5. ASSUME NEW c \in Cli, FirstRun(c) PROVE FernetTypeOK'
  BY <1>5 DEF FirstRun, Go, ShardRowsPresent
<1>6. ASSUME NEW c \in Cli, Adopt(c) PROVE FernetTypeOK'
  BY <1>6 DEF Adopt, Go, ShardRowsPresent
<1>7. ASSUME NEW c \in Cli, AdoptNot(c) PROVE FernetTypeOK'
  BY <1>7 DEF AdoptNot, Go, Release
<1>8. ASSUME NEW c \in Cli, KeepKey(c) PROVE FernetTypeOK'
  BY <1>8 DEF KeepKey, Go, Read, InKeyring, Cached, Release
<1>9. ASSUME NEW c \in Cli, Mint(c) PROVE FernetTypeOK'
  BY <1>9 DEF Mint, Go, Cached, Read, InKeyring, Put, Trouble, ReadRaises, Release
<1>10. ASSUME NEW c \in Cli, MintTorn(c) PROVE FernetTypeOK'
  BY <1>10 DEF MintTorn, Read, InKeyring, Trouble, Put, Ends, Cached
<1>11. ASSUME NEW c \in Cli, Touch(c) PROVE FernetTypeOK'
  BY <1>11 DEF Touch, Go
<1>12. ASSUME NEW c \in Cli, Seed(c) PROVE FernetTypeOK'
  BY <1>12 DEF Seed, Go, Cached, Read, InKeyring
<1>13. ASSUME NEW c \in Cli, SeedFromFile(c) PROVE FernetTypeOK'
  BY <1>13 DEF SeedFromFile, Go, Cached, Trouble
<1>14. ASSUME NEW c \in Cli, BeginLock(c) PROVE FernetTypeOK'
  BY <1>14 DEF BeginLock, Go, OpensSome, FernetKey, Acquire, Cached, Read, InKeyring
<1>15. ASSUME NEW c \in Cli, Seal(c) PROVE FernetTypeOK'
  <2>1. sealed' = {key[c]} /\ locked' = {key[c]} /\ key[c] \in FernetKeys
    BY <1>15 DEF Seal, Go, Sealing, RowsOK
  <2>2. QED
    BY <1>15, <2>1 DEF Seal, Go
<1>16. ASSUME NEW c \in Cli, SyncFernet(c) PROVE FernetTypeOK'
  BY <1>16 DEF SyncFernet, SyncForLaunchd, Ends, Cached
<1>17. ASSUME NEW c \in Cli, Unlock(c) PROVE FernetTypeOK'
  BY <1>17 DEF Unlock, FernetKey, Ends, Cached, Read, InKeyring
<1>18. ASSUME NEW c \in Cli, StartDoctor(c) PROVE FernetTypeOK'
  BY <1>18 DEF StartDoctor, Go, Acquire
<1>19. ASSUME NEW c \in Cli, ReportUnopenable(c) PROVE FernetTypeOK'
  BY <1>19 DEF ReportUnopenable, Go
<1>20. ASSUME NEW c \in Cli, Import(c) PROVE FernetTypeOK'
  BY <1>20 DEF Import, Go
<1>21. ASSUME NEW c \in Cli, Recover(c) PROVE FernetTypeOK'
  BY <1>21 DEF Recover, Go, Cached, Put
<1>22. ASSUME NEW c \in Cli, Stage(c) PROVE FernetTypeOK'
  BY <1>22 DEF Stage, Go, Put
<1>23. ASSUME NEW c \in Cli, Unsync(c) PROVE FernetTypeOK'
  BY <1>23 DEF Unsync, Go, Put
<1>24. ASSUME NEW c \in Cli, CanonicalAdd(c) PROVE FernetTypeOK'
  BY <1>24 DEF CanonicalAdd, Go, Put
<1>25. ASSUME NEW c \in Cli, CanonicalFails(c) PROVE FernetTypeOK'
  BY <1>25 DEF CanonicalFails, Trouble, Put, Ends, Cached
<1>26. ASSUME NEW c \in Cli, Unstage(c) PROVE FernetTypeOK'
  BY <1>26 DEF Unstage, Go, Put
<1>27. ASSUME NEW c \in Cli, BeginUninstall(c) PROVE FernetTypeOK'
  BY <1>27 DEF BeginUninstall, Go, Acquire, Cached, Read, InKeyring
<1>28. ASSUME NEW c \in Cli, RestoreAll(c) PROVE FernetTypeOK'
  BY <1>28 DEF RestoreAll, Go
<1>29. ASSUME NEW c \in Cli, RestoreFails(c) PROVE FernetTypeOK'
  BY <1>29 DEF RestoreFails, Ends, Cached
<1>30. ASSUME NEW c \in Cli, DeleteFernetKey(c) PROVE FernetTypeOK'
  BY <1>30 DEF DeleteFernetKey, Go
<1>31. ASSUME NEW c \in Cli, Unmark(c) PROVE FernetTypeOK'
  BY <1>31 DEF Unmark, Go, Release
<1>32. ASSUME NEW c \in Cli, FinalizeWipe(c) PROVE FernetTypeOK'
  BY <1>32 DEF FinalizeWipe, Ends, Cached
<1>33. QED
  BY QuitSteps, <1>0, <1>1, <1>2, <1>3, <1>4, <1>5, <1>6, <1>7, <1>8, <1>9, <1>10, <1>11, <1>12, <1>13, <1>14,
     <1>15, <1>16, <1>17, <1>18, <1>19, <1>20, <1>21, <1>22, <1>23, <1>24, <1>25, <1>26, <1>27, <1>28, <1>29,
     <1>30, <1>31, <1>32 DEF FernetNext

(* What a command does under acquire_lock it does alone. *)
LEMMA LockHeldStep ==
    ASSUME FernetInv, ~Overlaps, [FernetNext]_fernetVars
    PROVE  LockHeld'
<1> USE DEF FernetInv, home, LockHeld, Locking, FernetTypeOK, Now, FernetKeys
<1>0. CASE UNCHANGED fernetVars
  BY <1>0 DEF fernetVars
<1>1. ASSUME NEW c \in Cli, Quits(c) PROVE LockHeld'
  BY <1>1 DEF Quits, Ends, Cached
<1>2. ASSUME NEW c \in Cli, Begin(c) PROVE LockHeld'
  BY <1>2 DEF Begin, Go, Uninstalling
<1>3. ASSUME NEW c \in Cli, Guard(c) PROVE LockHeld'
  BY <1>3 DEF Guard, Go, ProvablyKeyless, ShardRowsPresent
<1>4. ASSUME NEW c \in Cli, LockHome(c) PROVE LockHeld'
  BY <1>4 DEF LockHome, Go, Acquire
<1>5. ASSUME NEW c \in Cli, FirstRun(c) PROVE LockHeld'
  BY <1>5 DEF FirstRun, Go, ShardRowsPresent
<1>6. ASSUME NEW c \in Cli, Adopt(c) PROVE LockHeld'
  BY <1>6 DEF Adopt, Go, ShardRowsPresent
<1>7. ASSUME NEW c \in Cli, AdoptNot(c) PROVE LockHeld'
  BY <1>7 DEF AdoptNot, Go, Release
<1>8. ASSUME NEW c \in Cli, KeepKey(c) PROVE LockHeld'
  BY <1>8 DEF KeepKey, Go, Read, InKeyring, Cached, Release
<1>9. ASSUME NEW c \in Cli, Mint(c) PROVE LockHeld'
  BY <1>9 DEF Mint, Go, Cached, Read, InKeyring, Put, Trouble, ReadRaises, Release
<1>10. ASSUME NEW c \in Cli, MintTorn(c) PROVE LockHeld'
  BY <1>10 DEF MintTorn, Read, InKeyring, Trouble, Put, Ends, Cached
<1>11. ASSUME NEW c \in Cli, Touch(c) PROVE LockHeld'
  BY <1>11 DEF Touch, Go
<1>12. ASSUME NEW c \in Cli, Seed(c) PROVE LockHeld'
  BY <1>12 DEF Seed, Go, Cached, Read, InKeyring
<1>13. ASSUME NEW c \in Cli, SeedFromFile(c) PROVE LockHeld'
  BY <1>13 DEF SeedFromFile, Go, Cached, Trouble
<1>14. ASSUME NEW c \in Cli, BeginLock(c) PROVE LockHeld'
  BY <1>14 DEF BeginLock, Go, OpensSome, FernetKey, Acquire, Cached, Read, InKeyring
<1>15. ASSUME NEW c \in Cli, Seal(c) PROVE LockHeld'
  BY <1>15 DEF Seal, Go
<1>16. ASSUME NEW c \in Cli, SyncFernet(c) PROVE LockHeld'
  BY <1>16 DEF SyncFernet, SyncForLaunchd, Ends, Cached
<1>17. ASSUME NEW c \in Cli, Unlock(c) PROVE LockHeld'
  BY <1>17 DEF Unlock, FernetKey, Ends, Cached, Read, InKeyring
<1>18. ASSUME NEW c \in Cli, StartDoctor(c) PROVE LockHeld'
  BY <1>18 DEF StartDoctor, Go, Acquire
<1>19. ASSUME NEW c \in Cli, ReportUnopenable(c) PROVE LockHeld'
  BY <1>19 DEF ReportUnopenable, Go
<1>20. ASSUME NEW c \in Cli, Import(c) PROVE LockHeld'
  BY <1>20 DEF Import, Go
<1>21. ASSUME NEW c \in Cli, Recover(c) PROVE LockHeld'
  BY <1>21 DEF Recover, Go, Cached, Put
<1>22. ASSUME NEW c \in Cli, Stage(c) PROVE LockHeld'
  BY <1>22 DEF Stage, Go, Put
<1>23. ASSUME NEW c \in Cli, Unsync(c) PROVE LockHeld'
  BY <1>23 DEF Unsync, Go, Put
<1>24. ASSUME NEW c \in Cli, CanonicalAdd(c) PROVE LockHeld'
  BY <1>24 DEF CanonicalAdd, Go, Put
<1>25. ASSUME NEW c \in Cli, CanonicalFails(c) PROVE LockHeld'
  BY <1>25 DEF CanonicalFails, Trouble, Put, Ends, Cached
<1>26. ASSUME NEW c \in Cli, Unstage(c) PROVE LockHeld'
  BY <1>26 DEF Unstage, Go, Put
<1>27. ASSUME NEW c \in Cli, BeginUninstall(c) PROVE LockHeld'
  BY <1>27 DEF BeginUninstall, Go, Acquire, Cached, Read, InKeyring
<1>28. ASSUME NEW c \in Cli, RestoreAll(c) PROVE LockHeld'
  BY <1>28 DEF RestoreAll, Go
<1>29. ASSUME NEW c \in Cli, RestoreFails(c) PROVE LockHeld'
  BY <1>29 DEF RestoreFails, Ends, Cached
<1>30. ASSUME NEW c \in Cli, DeleteFernetKey(c) PROVE LockHeld'
  BY <1>30 DEF DeleteFernetKey, Go
<1>31. ASSUME NEW c \in Cli, Unmark(c) PROVE LockHeld'
  BY <1>31 DEF Unmark, Go, Release
<1>32. ASSUME NEW c \in Cli, FinalizeWipe(c) PROVE LockHeld'
  BY <1>32 DEF FinalizeWipe, Ends, Cached
<1>33. QED
  BY QuitSteps, <1>0, <1>1, <1>2, <1>3, <1>4, <1>5, <1>6, <1>7, <1>8, <1>9, <1>10, <1>11, <1>12, <1>13, <1>14,
     <1>15, <1>16, <1>17, <1>18, <1>19, <1>20, <1>21, <1>22, <1>23, <1>24, <1>25, <1>26, <1>27, <1>28, <1>29,
     <1>30, <1>31, <1>32 DEF FernetNext

(* Nobody begins beside an uninstall, and it begins beside nobody. *)
LEMMA UninstallAloneStep ==
    ASSUME FernetInv, ~Overlaps, [FernetNext]_fernetVars
    PROVE  UninstallAlone'
<1> USE DEF FernetInv, home, UninstallAlone, Uninstalling, FernetTypeOK, Now, FernetKeys
<1>0. CASE UNCHANGED fernetVars
  BY <1>0 DEF fernetVars
<1>1. ASSUME NEW c \in Cli, Quits(c) PROVE UninstallAlone'
  BY <1>1 DEF Quits, Ends, Cached
<1>2. ASSUME NEW c \in Cli, Begin(c) PROVE UninstallAlone'
  BY <1>2 DEF Begin, Go
<1>3. ASSUME NEW c \in Cli, Guard(c) PROVE UninstallAlone'
  BY <1>3 DEF Guard, Go, ProvablyKeyless, ShardRowsPresent
<1>4. ASSUME NEW c \in Cli, LockHome(c) PROVE UninstallAlone'
  BY <1>4 DEF LockHome, Go, Acquire
<1>5. ASSUME NEW c \in Cli, FirstRun(c) PROVE UninstallAlone'
  BY <1>5 DEF FirstRun, Go, ShardRowsPresent
<1>6. ASSUME NEW c \in Cli, Adopt(c) PROVE UninstallAlone'
  BY <1>6 DEF Adopt, Go, ShardRowsPresent
<1>7. ASSUME NEW c \in Cli, AdoptNot(c) PROVE UninstallAlone'
  BY <1>7 DEF AdoptNot, Go, Release
<1>8. ASSUME NEW c \in Cli, KeepKey(c) PROVE UninstallAlone'
  BY <1>8 DEF KeepKey, Go, Read, InKeyring, Cached, Release
<1>9. ASSUME NEW c \in Cli, Mint(c) PROVE UninstallAlone'
  BY <1>9 DEF Mint, Go, Cached, Read, InKeyring, Put, Trouble, ReadRaises, Release
<1>10. ASSUME NEW c \in Cli, MintTorn(c) PROVE UninstallAlone'
  BY <1>10 DEF MintTorn, Read, InKeyring, Trouble, Put, Ends, Cached
<1>11. ASSUME NEW c \in Cli, Touch(c) PROVE UninstallAlone'
  BY <1>11 DEF Touch, Go
<1>12. ASSUME NEW c \in Cli, Seed(c) PROVE UninstallAlone'
  BY <1>12 DEF Seed, Go, Cached, Read, InKeyring
<1>13. ASSUME NEW c \in Cli, SeedFromFile(c) PROVE UninstallAlone'
  BY <1>13 DEF SeedFromFile, Go, Cached, Trouble
<1>14. ASSUME NEW c \in Cli, BeginLock(c) PROVE UninstallAlone'
  BY <1>14 DEF BeginLock, Go, OpensSome, FernetKey, Acquire, Cached, Read, InKeyring
<1>15. ASSUME NEW c \in Cli, Seal(c) PROVE UninstallAlone'
  BY <1>15 DEF Seal, Go
<1>16. ASSUME NEW c \in Cli, SyncFernet(c) PROVE UninstallAlone'
  BY <1>16 DEF SyncFernet, SyncForLaunchd, Ends, Cached
<1>17. ASSUME NEW c \in Cli, Unlock(c) PROVE UninstallAlone'
  BY <1>17 DEF Unlock, FernetKey, Ends, Cached, Read, InKeyring
<1>18. ASSUME NEW c \in Cli, StartDoctor(c) PROVE UninstallAlone'
  BY <1>18 DEF StartDoctor, Go, Acquire
<1>19. ASSUME NEW c \in Cli, ReportUnopenable(c) PROVE UninstallAlone'
  BY <1>19 DEF ReportUnopenable, Go
<1>20. ASSUME NEW c \in Cli, Import(c) PROVE UninstallAlone'
  BY <1>20 DEF Import, Go
<1>21. ASSUME NEW c \in Cli, Recover(c) PROVE UninstallAlone'
  BY <1>21 DEF Recover, Go, Cached, Put
<1>22. ASSUME NEW c \in Cli, Stage(c) PROVE UninstallAlone'
  BY <1>22 DEF Stage, Go, Put
<1>23. ASSUME NEW c \in Cli, Unsync(c) PROVE UninstallAlone'
  BY <1>23 DEF Unsync, Go, Put
<1>24. ASSUME NEW c \in Cli, CanonicalAdd(c) PROVE UninstallAlone'
  BY <1>24 DEF CanonicalAdd, Go, Put
<1>25. ASSUME NEW c \in Cli, CanonicalFails(c) PROVE UninstallAlone'
  BY <1>25 DEF CanonicalFails, Trouble, Put, Ends, Cached
<1>26. ASSUME NEW c \in Cli, Unstage(c) PROVE UninstallAlone'
  BY <1>26 DEF Unstage, Go, Put
<1>27. ASSUME NEW c \in Cli, BeginUninstall(c) PROVE UninstallAlone'
  BY <1>27 DEF BeginUninstall, Go, Acquire, Cached, Read, InKeyring
<1>28. ASSUME NEW c \in Cli, RestoreAll(c) PROVE UninstallAlone'
  BY <1>28 DEF RestoreAll, Go
<1>29. ASSUME NEW c \in Cli, RestoreFails(c) PROVE UninstallAlone'
  BY <1>29 DEF RestoreFails, Ends, Cached
<1>30. ASSUME NEW c \in Cli, DeleteFernetKey(c) PROVE UninstallAlone'
  BY <1>30 DEF DeleteFernetKey, Go
<1>31. ASSUME NEW c \in Cli, Unmark(c) PROVE UninstallAlone'
  BY <1>31 DEF Unmark, Go, Release
<1>32. ASSUME NEW c \in Cli, FinalizeWipe(c) PROVE UninstallAlone'
  BY <1>32 DEF FinalizeWipe, Ends, Cached
<1>33. QED
  BY QuitSteps, <1>0, <1>1, <1>2, <1>3, <1>4, <1>5, <1>6, <1>7, <1>8, <1>9, <1>10, <1>11, <1>12, <1>13, <1>14,
     <1>15, <1>16, <1>17, <1>18, <1>19, <1>20, <1>21, <1>22, <1>23, <1>24, <1>25, <1>26, <1>27, <1>28, <1>29,
     <1>30, <1>31, <1>32 DEF FernetNext

(* Until the old key is moved there is no other. *)
LEMMA OnlyOldKeyStep ==
    ASSUME FernetInv, ~Overlaps, [FernetNext]_fernetVars
    PROVE  OnlyOldKey'
<1> USE DEF FernetInv, home, OnlyOldKey, OldKey, MoveOK, Moving, LockHeld, Locking, UninstallAlone,
   Uninstalling, Sealing, FernetTypeOK, Now, Places, FernetKeys
<1>0. CASE UNCHANGED fernetVars
  BY <1>0 DEF fernetVars
<1>1. ASSUME NEW c \in Cli, Quits(c) PROVE OnlyOldKey'
  BY <1>1 DEF Quits, Ends, Cached
<1>2. ASSUME NEW c \in Cli, Begin(c) PROVE OnlyOldKey'
  BY <1>2 DEF Begin, Go
<1>3. ASSUME NEW c \in Cli, Guard(c) PROVE OnlyOldKey'
  BY <1>3 DEF Guard, Go, ProvablyKeyless, ShardRowsPresent
<1>4. ASSUME NEW c \in Cli, LockHome(c) PROVE OnlyOldKey'
  BY <1>4 DEF LockHome, Go, Acquire
<1>5. ASSUME NEW c \in Cli, FirstRun(c) PROVE OnlyOldKey'
  BY <1>5 DEF FirstRun, Go, ShardRowsPresent
<1>6. ASSUME NEW c \in Cli, Adopt(c) PROVE OnlyOldKey'
  BY <1>6 DEF Adopt, Go, ShardRowsPresent
<1>7. ASSUME NEW c \in Cli, AdoptNot(c) PROVE OnlyOldKey'
  BY <1>7 DEF AdoptNot, Go, Release
<1>8. ASSUME NEW c \in Cli, KeepKey(c) PROVE OnlyOldKey'
  BY <1>8 DEF KeepKey, Go, Read, InKeyring, Cached, Release
<1>9. ASSUME NEW c \in Cli, Mint(c) PROVE OnlyOldKey'
  BY <1>9 DEF Mint, Go, Cached, Read, InKeyring, Put, Trouble, ReadRaises, Release
<1>10. ASSUME NEW c \in Cli, MintTorn(c) PROVE OnlyOldKey'
  BY <1>10 DEF MintTorn, Read, InKeyring, Trouble, Put, Ends, Cached
<1>11. ASSUME NEW c \in Cli, Touch(c) PROVE OnlyOldKey'
  BY <1>11 DEF Touch, Go
<1>12. ASSUME NEW c \in Cli, Seed(c) PROVE OnlyOldKey'
  BY <1>12 DEF Seed, Go, Cached, Read, InKeyring
<1>13. ASSUME NEW c \in Cli, SeedFromFile(c) PROVE OnlyOldKey'
  BY <1>13 DEF SeedFromFile, Go, Cached, Trouble
<1>14. ASSUME NEW c \in Cli, BeginLock(c) PROVE OnlyOldKey'
  BY <1>14 DEF BeginLock, Go, OpensSome, FernetKey, Acquire, Cached, Read, InKeyring
<1>15. ASSUME NEW c \in Cli, Seal(c) PROVE OnlyOldKey'
  <2>1. sealed' = {key[c]} /\ locked' = {key[c]} /\ key[c] \in FernetKeys
    BY <1>15 DEF Seal, Go, Sealing, RowsOK
  <2>2. QED
    BY <1>15, <2>1 DEF Seal, Go
<1>16. ASSUME NEW c \in Cli, SyncFernet(c) PROVE OnlyOldKey'
  BY <1>16 DEF SyncFernet, SyncForLaunchd, Ends, Cached
<1>17. ASSUME NEW c \in Cli, Unlock(c) PROVE OnlyOldKey'
  <2>1. sealed' \subseteq sealed
    BY <1>17 DEF Unlock
  <2>2. QED
    BY ZenonT(60), <1>17, <2>1 DEF Unlock, FernetKey, Ends, Cached, Read, InKeyring
<1>18. ASSUME NEW c \in Cli, StartDoctor(c) PROVE OnlyOldKey'
  BY <1>18 DEF StartDoctor, Go, Acquire
<1>19. ASSUME NEW c \in Cli, ReportUnopenable(c) PROVE OnlyOldKey'
  BY <1>19 DEF ReportUnopenable, Go
<1>20. ASSUME NEW c \in Cli, Import(c) PROVE OnlyOldKey'
  BY <1>20 DEF Import, Go
<1>21. ASSUME NEW c \in Cli, Recover(c) PROVE OnlyOldKey'
  BY <1>21 DEF Recover, Go, Cached, Put
<1>22. ASSUME NEW c \in Cli, Stage(c) PROVE OnlyOldKey'
  BY <1>22 DEF Stage, Go, Put
<1>23. ASSUME NEW c \in Cli, Unsync(c) PROVE OnlyOldKey'
  BY <1>23 DEF Unsync, Go, Put
<1>24. ASSUME NEW c \in Cli, CanonicalAdd(c) PROVE OnlyOldKey'
  BY <1>24 DEF CanonicalAdd, Go, Put
<1>25. ASSUME NEW c \in Cli, CanonicalFails(c) PROVE OnlyOldKey'
  BY <1>25 DEF CanonicalFails, Trouble, Put, Ends, Cached
<1>26. ASSUME NEW c \in Cli, Unstage(c) PROVE OnlyOldKey'
  BY <1>26 DEF Unstage, Go, Put
<1>27. ASSUME NEW c \in Cli, BeginUninstall(c) PROVE OnlyOldKey'
  BY <1>27 DEF BeginUninstall, Go, Acquire, Cached, Read, InKeyring
<1>28. ASSUME NEW c \in Cli, RestoreAll(c) PROVE OnlyOldKey'
  BY <1>28 DEF RestoreAll, Go
<1>29. ASSUME NEW c \in Cli, RestoreFails(c) PROVE OnlyOldKey'
  <2>1. sealed' \subseteq sealed
    BY <1>29 DEF RestoreFails
  <2>2. QED
    BY <1>29, <2>1 DEF RestoreFails, Ends, Cached
<1>30. ASSUME NEW c \in Cli, DeleteFernetKey(c) PROVE OnlyOldKey'
  BY <1>30 DEF DeleteFernetKey, Go
<1>31. ASSUME NEW c \in Cli, Unmark(c) PROVE OnlyOldKey'
  BY <1>31 DEF Unmark, Go, Release
<1>32. ASSUME NEW c \in Cli, FinalizeWipe(c) PROVE OnlyOldKey'
  BY <1>32 DEF FinalizeWipe, Ends, Cached
<1>33. QED
  BY QuitSteps, <1>0, <1>1, <1>2, <1>3, <1>4, <1>5, <1>6, <1>7, <1>8, <1>9, <1>10, <1>11, <1>12, <1>13, <1>14,
     <1>15, <1>16, <1>17, <1>18, <1>19, <1>20, <1>21, <1>22, <1>23, <1>24, <1>25, <1>26, <1>27, <1>28, <1>29,
     <1>30, <1>31, <1>32 DEF FernetNext

(* doctor has the key staged before it deletes, and in its own slot before it unstages. *)
LEMMA MoveOKStep ==
    ASSUME FernetInv, ~Overlaps, [FernetNext]_fernetVars
    PROVE  MoveOK'
<1> USE DEF FernetInv, home, MoveOK, Moving, OnlyOldKey, OldKey, LockHeld, Locking, UninstallAlone,
   Uninstalling, FernetTypeOK, Now, Places, FernetKeys
<1>0. CASE UNCHANGED fernetVars
  BY <1>0 DEF fernetVars
<1>1. ASSUME NEW c \in Cli, Quits(c) PROVE MoveOK'
  BY <1>1 DEF Quits, Ends, Cached
<1>2. ASSUME NEW c \in Cli, Begin(c) PROVE MoveOK'
  BY <1>2 DEF Begin, Go
<1>3. ASSUME NEW c \in Cli, Guard(c) PROVE MoveOK'
  BY <1>3 DEF Guard, Go, ProvablyKeyless, ShardRowsPresent
<1>4. ASSUME NEW c \in Cli, LockHome(c) PROVE MoveOK'
  BY <1>4 DEF LockHome, Go, Acquire
<1>5. ASSUME NEW c \in Cli, FirstRun(c) PROVE MoveOK'
  BY <1>5 DEF FirstRun, Go, ShardRowsPresent
<1>6. ASSUME NEW c \in Cli, Adopt(c) PROVE MoveOK'
  BY <1>6 DEF Adopt, Go, ShardRowsPresent
<1>7. ASSUME NEW c \in Cli, AdoptNot(c) PROVE MoveOK'
  BY <1>7 DEF AdoptNot, Go, Release
<1>8. ASSUME NEW c \in Cli, KeepKey(c) PROVE MoveOK'
  BY <1>8 DEF KeepKey, Go, Read, InKeyring, Cached, Release
<1>9. ASSUME NEW c \in Cli, Mint(c) PROVE MoveOK'
  BY <1>9 DEF Mint, Go, Cached, Read, InKeyring, Put, Trouble, ReadRaises, Release
<1>10. ASSUME NEW c \in Cli, MintTorn(c) PROVE MoveOK'
  BY <1>10 DEF MintTorn, Read, InKeyring, Trouble, Put, Ends, Cached
<1>11. ASSUME NEW c \in Cli, Touch(c) PROVE MoveOK'
  BY <1>11 DEF Touch, Go
<1>12. ASSUME NEW c \in Cli, Seed(c) PROVE MoveOK'
  BY <1>12 DEF Seed, Go, Cached, Read, InKeyring
<1>13. ASSUME NEW c \in Cli, SeedFromFile(c) PROVE MoveOK'
  BY <1>13 DEF SeedFromFile, Go, Cached, Trouble
<1>14. ASSUME NEW c \in Cli, BeginLock(c) PROVE MoveOK'
  BY <1>14 DEF BeginLock, Go, OpensSome, FernetKey, Acquire, Cached, Read, InKeyring
<1>15. ASSUME NEW c \in Cli, Seal(c) PROVE MoveOK'
  BY <1>15 DEF Seal, Go
<1>16. ASSUME NEW c \in Cli, SyncFernet(c) PROVE MoveOK'
  BY <1>16 DEF SyncFernet, SyncForLaunchd, Ends, Cached
<1>17. ASSUME NEW c \in Cli, Unlock(c) PROVE MoveOK'
  BY <1>17 DEF Unlock, FernetKey, Ends, Cached, Read, InKeyring
<1>18. ASSUME NEW c \in Cli, StartDoctor(c) PROVE MoveOK'
  BY <1>18 DEF StartDoctor, Go, Acquire
<1>19. ASSUME NEW c \in Cli, ReportUnopenable(c) PROVE MoveOK'
  BY <1>19 DEF ReportUnopenable, Go
<1>20. ASSUME NEW c \in Cli, Import(c) PROVE MoveOK'
  BY <1>20 DEF Import, Go
<1>21. ASSUME NEW c \in Cli, Recover(c) PROVE MoveOK'
  BY <1>21 DEF Recover, Go, Cached, Put
<1>22. ASSUME NEW c \in Cli, Stage(c) PROVE MoveOK'
  BY <1>22 DEF Stage, Go, Put
<1>23. ASSUME NEW c \in Cli, Unsync(c) PROVE MoveOK'
  BY <1>23 DEF Unsync, Go, Put
<1>24. ASSUME NEW c \in Cli, CanonicalAdd(c) PROVE MoveOK'
  BY <1>24 DEF CanonicalAdd, Go, Put
<1>25. ASSUME NEW c \in Cli, CanonicalFails(c) PROVE MoveOK'
  BY <1>25 DEF CanonicalFails, Trouble, Put, Ends, Cached
<1>26. ASSUME NEW c \in Cli, Unstage(c) PROVE MoveOK'
  BY <1>26 DEF Unstage, Go, Put
<1>27. ASSUME NEW c \in Cli, BeginUninstall(c) PROVE MoveOK'
  BY <1>27 DEF BeginUninstall, Go, Acquire, Cached, Read, InKeyring
<1>28. ASSUME NEW c \in Cli, RestoreAll(c) PROVE MoveOK'
  BY <1>28 DEF RestoreAll, Go
<1>29. ASSUME NEW c \in Cli, RestoreFails(c) PROVE MoveOK'
  BY <1>29 DEF RestoreFails, Ends, Cached
<1>30. ASSUME NEW c \in Cli, DeleteFernetKey(c) PROVE MoveOK'
  BY <1>30 DEF DeleteFernetKey, Go
<1>31. ASSUME NEW c \in Cli, Unmark(c) PROVE MoveOK'
  BY <1>31 DEF Unmark, Go, Release
<1>32. ASSUME NEW c \in Cli, FinalizeWipe(c) PROVE MoveOK'
  BY <1>32 DEF FinalizeWipe, Ends, Cached
<1>33. QED
  BY QuitSteps, <1>0, <1>1, <1>2, <1>3, <1>4, <1>5, <1>6, <1>7, <1>8, <1>9, <1>10, <1>11, <1>12, <1>13, <1>14,
     <1>15, <1>16, <1>17, <1>18, <1>19, <1>20, <1>21, <1>22, <1>23, <1>24, <1>25, <1>26, <1>27, <1>28, <1>29,
     <1>30, <1>31, <1>32 DEF FernetNext

(* A key that a command has read, or minted, stays where it is, unless an uninstall forgets it. *)
LEMMA CachedDurableStep ==
    ASSUME FernetInv, ~Overlaps, [FernetNext]_fernetVars
    PROVE  CachedDurable'
<1> USE DEF FernetInv, home, CachedDurable, Durable, OnlyOldKey, OldKey, MoveOK, Moving, LockHeld, Locking,
   UninstallAlone, Uninstalling, RowsOK, FernetTypeOK, Now, Places, FernetKeys
<1>0. CASE UNCHANGED fernetVars
  BY <1>0 DEF fernetVars
<1>1. ASSUME NEW c \in Cli, Quits(c) PROVE CachedDurable'
  BY <1>1 DEF Quits, Ends, Cached
<1>2. ASSUME NEW c \in Cli, Begin(c) PROVE CachedDurable'
  BY <1>2 DEF Begin, Go
<1>3. ASSUME NEW c \in Cli, Guard(c) PROVE CachedDurable'
  BY <1>3 DEF Guard, Go, ProvablyKeyless, ShardRowsPresent
<1>4. ASSUME NEW c \in Cli, LockHome(c) PROVE CachedDurable'
  BY <1>4 DEF LockHome, Go, Acquire
<1>5. ASSUME NEW c \in Cli, FirstRun(c) PROVE CachedDurable'
  BY <1>5 DEF FirstRun, Go, ShardRowsPresent
<1>6. ASSUME NEW c \in Cli, Adopt(c) PROVE CachedDurable'
  BY <1>6 DEF Adopt, Go, ShardRowsPresent
<1>7. ASSUME NEW c \in Cli, AdoptNot(c) PROVE CachedDurable'
  BY <1>7 DEF AdoptNot, Go, Release
<1>8. ASSUME NEW c \in Cli, KeepKey(c) PROVE CachedDurable'
  BY <1>8 DEF KeepKey, Go, Read, InKeyring, Cached, Release
<1>9. ASSUME NEW c \in Cli, Mint(c) PROVE CachedDurable'
  BY <1>9 DEF Mint, Go, Cached, Read, InKeyring, Put, Trouble, ReadRaises, Release
<1>10. ASSUME NEW c \in Cli, MintTorn(c) PROVE CachedDurable'
  BY <1>10 DEF MintTorn, Read, InKeyring, Trouble, Put, Ends, Cached
<1>11. ASSUME NEW c \in Cli, Touch(c) PROVE CachedDurable'
  BY <1>11 DEF Touch, Go
<1>12. ASSUME NEW c \in Cli, Seed(c) PROVE CachedDurable'
  BY <1>12 DEF Seed, Go, Cached, Read, InKeyring
<1>13. ASSUME NEW c \in Cli, SeedFromFile(c) PROVE CachedDurable'
  BY <1>13 DEF SeedFromFile, Go, Cached, Trouble
<1>14. ASSUME NEW c \in Cli, BeginLock(c) PROVE CachedDurable'
  BY <1>14 DEF BeginLock, Go, OpensSome, FernetKey, Acquire, Cached, Read, InKeyring
<1>15. ASSUME NEW c \in Cli, Seal(c) PROVE CachedDurable'
  BY <1>15 DEF Seal, Go
<1>16. ASSUME NEW c \in Cli, SyncFernet(c) PROVE CachedDurable'
  BY <1>16 DEF SyncFernet, SyncForLaunchd, Ends, Cached
<1>17. ASSUME NEW c \in Cli, Unlock(c) PROVE CachedDurable'
  BY <1>17 DEF Unlock, FernetKey, Ends, Cached, Read, InKeyring
<1>18. ASSUME NEW c \in Cli, StartDoctor(c) PROVE CachedDurable'
  BY <1>18 DEF StartDoctor, Go, Acquire
<1>19. ASSUME NEW c \in Cli, ReportUnopenable(c) PROVE CachedDurable'
  BY <1>19 DEF ReportUnopenable, Go
<1>20. ASSUME NEW c \in Cli, Import(c) PROVE CachedDurable'
  BY <1>20 DEF Import, Go
<1>21. ASSUME NEW c \in Cli, Recover(c) PROVE CachedDurable'
  BY <1>21 DEF Recover, Go, Cached, Put
<1>22. ASSUME NEW c \in Cli, Stage(c) PROVE CachedDurable'
  BY <1>22 DEF Stage, Go, Put
<1>23. ASSUME NEW c \in Cli, Unsync(c) PROVE CachedDurable'
  BY <1>23 DEF Unsync, Go, Put
<1>24. ASSUME NEW c \in Cli, CanonicalAdd(c) PROVE CachedDurable'
  BY <1>24 DEF CanonicalAdd, Go, Put
<1>25. ASSUME NEW c \in Cli, CanonicalFails(c) PROVE CachedDurable'
  BY <1>25 DEF CanonicalFails, Trouble, Put, Ends, Cached
<1>26. ASSUME NEW c \in Cli, Unstage(c) PROVE CachedDurable'
  BY <1>26 DEF Unstage, Go, Put
<1>27. ASSUME NEW c \in Cli, BeginUninstall(c) PROVE CachedDurable'
  BY <1>27 DEF BeginUninstall, Go, Acquire, Cached, Read, InKeyring
<1>28. ASSUME NEW c \in Cli, RestoreAll(c) PROVE CachedDurable'
  BY <1>28 DEF RestoreAll, Go
<1>29. ASSUME NEW c \in Cli, RestoreFails(c) PROVE CachedDurable'
  BY <1>29 DEF RestoreFails, Ends, Cached
<1>30. ASSUME NEW c \in Cli, DeleteFernetKey(c) PROVE CachedDurable'
  BY <1>30 DEF DeleteFernetKey, Go
<1>31. ASSUME NEW c \in Cli, Unmark(c) PROVE CachedDurable'
  BY <1>31 DEF Unmark, Go, Release
<1>32. ASSUME NEW c \in Cli, FinalizeWipe(c) PROVE CachedDurable'
  BY <1>32 DEF FinalizeWipe, Ends, Cached
<1>33. QED
  BY QuitSteps, <1>0, <1>1, <1>2, <1>3, <1>4, <1>5, <1>6, <1>7, <1>8, <1>9, <1>10, <1>11, <1>12, <1>13, <1>14,
     <1>15, <1>16, <1>17, <1>18, <1>19, <1>20, <1>21, <1>22, <1>23, <1>24, <1>25, <1>26, <1>27, <1>28, <1>29,
     <1>30, <1>31, <1>32 DEF FernetNext

(* So does a key that rows are sealed under. *)
LEMMA SealedDurableStep ==
    ASSUME FernetInv, ~Overlaps, [FernetNext]_fernetVars
    PROVE  SealedDurable'
<1> USE DEF FernetInv, home, SealedDurable, CachedDurable, Durable, OnlyOldKey, OldKey, MoveOK, Moving,
   LockHeld, Locking, UninstallAlone, Uninstalling, Sealing, FernetTypeOK, Now, Places, FernetKeys
<1>0. CASE UNCHANGED fernetVars
  BY <1>0 DEF fernetVars
<1>1. ASSUME NEW c \in Cli, Quits(c) PROVE SealedDurable'
  BY <1>1 DEF Quits, Ends, Cached
<1>2. ASSUME NEW c \in Cli, Begin(c) PROVE SealedDurable'
  BY <1>2 DEF Begin, Go
<1>3. ASSUME NEW c \in Cli, Guard(c) PROVE SealedDurable'
  BY <1>3 DEF Guard, Go, ProvablyKeyless, ShardRowsPresent
<1>4. ASSUME NEW c \in Cli, LockHome(c) PROVE SealedDurable'
  BY <1>4 DEF LockHome, Go, Acquire
<1>5. ASSUME NEW c \in Cli, FirstRun(c) PROVE SealedDurable'
  BY <1>5 DEF FirstRun, Go, ShardRowsPresent
<1>6. ASSUME NEW c \in Cli, Adopt(c) PROVE SealedDurable'
  BY <1>6 DEF Adopt, Go, ShardRowsPresent
<1>7. ASSUME NEW c \in Cli, AdoptNot(c) PROVE SealedDurable'
  BY <1>7 DEF AdoptNot, Go, Release
<1>8. ASSUME NEW c \in Cli, KeepKey(c) PROVE SealedDurable'
  BY <1>8 DEF KeepKey, Go, Read, InKeyring, Cached, Release
<1>9. ASSUME NEW c \in Cli, Mint(c) PROVE SealedDurable'
  BY <1>9 DEF Mint, Go, Cached, Read, InKeyring, Put, Trouble, ReadRaises, Release
<1>10. ASSUME NEW c \in Cli, MintTorn(c) PROVE SealedDurable'
  BY <1>10 DEF MintTorn, Read, InKeyring, Trouble, Put, Ends, Cached
<1>11. ASSUME NEW c \in Cli, Touch(c) PROVE SealedDurable'
  BY <1>11 DEF Touch, Go
<1>12. ASSUME NEW c \in Cli, Seed(c) PROVE SealedDurable'
  BY <1>12 DEF Seed, Go, Cached, Read, InKeyring
<1>13. ASSUME NEW c \in Cli, SeedFromFile(c) PROVE SealedDurable'
  BY <1>13 DEF SeedFromFile, Go, Cached, Trouble
<1>14. ASSUME NEW c \in Cli, BeginLock(c) PROVE SealedDurable'
  BY <1>14 DEF BeginLock, Go, OpensSome, FernetKey, Acquire, Cached, Read, InKeyring
<1>15. ASSUME NEW c \in Cli, Seal(c) PROVE SealedDurable'
  <2>1. sealed' = {key[c]} /\ locked' = {key[c]} /\ key[c] \in FernetKeys
    BY <1>15 DEF Seal, Go, Sealing, RowsOK
  <2>2. QED
    BY <1>15, <2>1 DEF Seal, Go
<1>16. ASSUME NEW c \in Cli, SyncFernet(c) PROVE SealedDurable'
  BY <1>16 DEF SyncFernet, SyncForLaunchd, Ends, Cached
<1>17. ASSUME NEW c \in Cli, Unlock(c) PROVE SealedDurable'
  BY <1>17 DEF Unlock, FernetKey, Ends, Cached, Read, InKeyring
<1>18. ASSUME NEW c \in Cli, StartDoctor(c) PROVE SealedDurable'
  BY <1>18 DEF StartDoctor, Go, Acquire
<1>19. ASSUME NEW c \in Cli, ReportUnopenable(c) PROVE SealedDurable'
  BY <1>19 DEF ReportUnopenable, Go
<1>20. ASSUME NEW c \in Cli, Import(c) PROVE SealedDurable'
  BY <1>20 DEF Import, Go
<1>21. ASSUME NEW c \in Cli, Recover(c) PROVE SealedDurable'
  BY <1>21 DEF Recover, Go, Cached, Put
<1>22. ASSUME NEW c \in Cli, Stage(c) PROVE SealedDurable'
  BY <1>22 DEF Stage, Go, Put
<1>23. ASSUME NEW c \in Cli, Unsync(c) PROVE SealedDurable'
  BY <1>23 DEF Unsync, Go, Put
<1>24. ASSUME NEW c \in Cli, CanonicalAdd(c) PROVE SealedDurable'
  BY <1>24 DEF CanonicalAdd, Go, Put
<1>25. ASSUME NEW c \in Cli, CanonicalFails(c) PROVE SealedDurable'
  BY <1>25 DEF CanonicalFails, Trouble, Put, Ends, Cached
<1>26. ASSUME NEW c \in Cli, Unstage(c) PROVE SealedDurable'
  BY <1>26 DEF Unstage, Go, Put
<1>27. ASSUME NEW c \in Cli, BeginUninstall(c) PROVE SealedDurable'
  BY <1>27 DEF BeginUninstall, Go, Acquire, Cached, Read, InKeyring
<1>28. ASSUME NEW c \in Cli, RestoreAll(c) PROVE SealedDurable'
  BY <1>28 DEF RestoreAll, Go
<1>29. ASSUME NEW c \in Cli, RestoreFails(c) PROVE SealedDurable'
  BY <1>29 DEF RestoreFails, Ends, Cached
<1>30. ASSUME NEW c \in Cli, DeleteFernetKey(c) PROVE SealedDurable'
  BY <1>30 DEF DeleteFernetKey, Go
<1>31. ASSUME NEW c \in Cli, Unmark(c) PROVE SealedDurable'
  BY <1>31 DEF Unmark, Go, Release
<1>32. ASSUME NEW c \in Cli, FinalizeWipe(c) PROVE SealedDurable'
  BY <1>32 DEF FinalizeWipe, Ends, Cached
<1>33. QED
  BY QuitSteps, <1>0, <1>1, <1>2, <1>3, <1>4, <1>5, <1>6, <1>7, <1>8, <1>9, <1>10, <1>11, <1>12, <1>13, <1>14,
     <1>15, <1>16, <1>17, <1>18, <1>19, <1>20, <1>21, <1>22, <1>23, <1>24, <1>25, <1>26, <1>27, <1>28, <1>29,
     <1>30, <1>31, <1>32 DEF FernetNext

(* A first run and the end of an uninstall find no rows, and lock seals under the key of the rows there are. *)
LEMMA SealingStep ==
    ASSUME FernetInv, ~Overlaps, [FernetNext]_fernetVars
    PROVE  Sealing'
<1> USE DEF FernetInv, home, Sealing, LockHeld, Locking, UninstallAlone, Uninstalling, RowsOK, OpensSome,
   FernetTypeOK, Now, FernetKeys
<1>0. CASE UNCHANGED fernetVars
  BY <1>0 DEF fernetVars
<1>1. ASSUME NEW c \in Cli, Quits(c) PROVE Sealing'
  BY <1>1 DEF Quits, Ends, Cached
<1>2. ASSUME NEW c \in Cli, Begin(c) PROVE Sealing'
  BY <1>2 DEF Begin, Go
<1>3. ASSUME NEW c \in Cli, Guard(c) PROVE Sealing'
  BY <1>3 DEF Guard, Go, ProvablyKeyless, ShardRowsPresent
<1>4. ASSUME NEW c \in Cli, LockHome(c) PROVE Sealing'
  BY <1>4 DEF LockHome, Go, Acquire
<1>5. ASSUME NEW c \in Cli, FirstRun(c) PROVE Sealing'
  BY <1>5 DEF FirstRun, Go, ShardRowsPresent
<1>6. ASSUME NEW c \in Cli, Adopt(c) PROVE Sealing'
  BY <1>6 DEF Adopt, Go, ShardRowsPresent
<1>7. ASSUME NEW c \in Cli, AdoptNot(c) PROVE Sealing'
  BY <1>7 DEF AdoptNot, Go, Release
<1>8. ASSUME NEW c \in Cli, KeepKey(c) PROVE Sealing'
  BY <1>8 DEF KeepKey, Go, Read, InKeyring, Cached, Release
<1>9. ASSUME NEW c \in Cli, Mint(c) PROVE Sealing'
  BY <1>9 DEF Mint, Go, Cached, Read, InKeyring, Put, Trouble, ReadRaises, Release
<1>10. ASSUME NEW c \in Cli, MintTorn(c) PROVE Sealing'
  BY <1>10 DEF MintTorn, Read, InKeyring, Trouble, Put, Ends, Cached
<1>11. ASSUME NEW c \in Cli, Touch(c) PROVE Sealing'
  BY <1>11 DEF Touch, Go
<1>12. ASSUME NEW c \in Cli, Seed(c) PROVE Sealing'
  BY <1>12 DEF Seed, Go, Cached, Read, InKeyring
<1>13. ASSUME NEW c \in Cli, SeedFromFile(c) PROVE Sealing'
  BY <1>13 DEF SeedFromFile, Go, Cached, Trouble
<1>14. ASSUME NEW c \in Cli, BeginLock(c) PROVE Sealing'
  <2>1. key'[c] \in FernetKeys /\ (sealed = {} \/ key'[c] \in sealed)
    BY <1>14 DEF BeginLock, Cached, OpensSome, FernetKey, Read, InKeyring, FernetTypeOK, Places
  <2>2. QED
    BY <1>14, <2>1 DEF BeginLock, Go, FernetKey, Acquire, Cached, Read, InKeyring
<1>15. ASSUME NEW c \in Cli, Seal(c) PROVE Sealing'
  BY <1>15 DEF Seal, Go
<1>16. ASSUME NEW c \in Cli, SyncFernet(c) PROVE Sealing'
  BY <1>16 DEF SyncFernet, SyncForLaunchd, Ends, Cached
<1>17. ASSUME NEW c \in Cli, Unlock(c) PROVE Sealing'
  BY <1>17 DEF Unlock, FernetKey, Ends, Cached, Read, InKeyring
<1>18. ASSUME NEW c \in Cli, StartDoctor(c) PROVE Sealing'
  BY <1>18 DEF StartDoctor, Go, Acquire
<1>19. ASSUME NEW c \in Cli, ReportUnopenable(c) PROVE Sealing'
  BY <1>19 DEF ReportUnopenable, Go
<1>20. ASSUME NEW c \in Cli, Import(c) PROVE Sealing'
  BY <1>20 DEF Import, Go
<1>21. ASSUME NEW c \in Cli, Recover(c) PROVE Sealing'
  BY <1>21 DEF Recover, Go, Cached, Put
<1>22. ASSUME NEW c \in Cli, Stage(c) PROVE Sealing'
  BY <1>22 DEF Stage, Go, Put
<1>23. ASSUME NEW c \in Cli, Unsync(c) PROVE Sealing'
  BY <1>23 DEF Unsync, Go, Put
<1>24. ASSUME NEW c \in Cli, CanonicalAdd(c) PROVE Sealing'
  BY <1>24 DEF CanonicalAdd, Go, Put
<1>25. ASSUME NEW c \in Cli, CanonicalFails(c) PROVE Sealing'
  BY <1>25 DEF CanonicalFails, Trouble, Put, Ends, Cached
<1>26. ASSUME NEW c \in Cli, Unstage(c) PROVE Sealing'
  BY <1>26 DEF Unstage, Go, Put
<1>27. ASSUME NEW c \in Cli, BeginUninstall(c) PROVE Sealing'
  BY <1>27 DEF BeginUninstall, Go, Acquire, Cached, Read, InKeyring
<1>28. ASSUME NEW c \in Cli, RestoreAll(c) PROVE Sealing'
  BY <1>28 DEF RestoreAll, Go
<1>29. ASSUME NEW c \in Cli, RestoreFails(c) PROVE Sealing'
  BY <1>29 DEF RestoreFails, Ends, Cached
<1>30. ASSUME NEW c \in Cli, DeleteFernetKey(c) PROVE Sealing'
  BY <1>30 DEF DeleteFernetKey, Go
<1>31. ASSUME NEW c \in Cli, Unmark(c) PROVE Sealing'
  BY <1>31 DEF Unmark, Go, Release
<1>32. ASSUME NEW c \in Cli, FinalizeWipe(c) PROVE Sealing'
  BY <1>32 DEF FinalizeWipe, Ends, Cached
<1>33. QED
  BY QuitSteps, <1>0, <1>1, <1>2, <1>3, <1>4, <1>5, <1>6, <1>7, <1>8, <1>9, <1>10, <1>11, <1>12, <1>13, <1>14,
     <1>15, <1>16, <1>17, <1>18, <1>19, <1>20, <1>21, <1>22, <1>23, <1>24, <1>25, <1>26, <1>27, <1>28, <1>29,
     <1>30, <1>31, <1>32 DEF FernetNext

(* Rows are sealed under one key. *)
LEMMA RowsOKStep ==
    ASSUME FernetInv, ~Overlaps, [FernetNext]_fernetVars
    PROVE  RowsOK'
<1> USE DEF FernetInv, home, RowsOK, Sealing, LockHeld, Locking, UninstallAlone, Uninstalling, FernetTypeOK,
   Now, FernetKeys
<1>0. CASE UNCHANGED fernetVars
  BY <1>0 DEF fernetVars
<1>1. ASSUME NEW c \in Cli, Quits(c) PROVE RowsOK'
  BY <1>1 DEF Quits, Ends, Cached
<1>2. ASSUME NEW c \in Cli, Begin(c) PROVE RowsOK'
  BY <1>2 DEF Begin, Go
<1>3. ASSUME NEW c \in Cli, Guard(c) PROVE RowsOK'
  BY <1>3 DEF Guard, Go, ProvablyKeyless, ShardRowsPresent
<1>4. ASSUME NEW c \in Cli, LockHome(c) PROVE RowsOK'
  BY <1>4 DEF LockHome, Go, Acquire
<1>5. ASSUME NEW c \in Cli, FirstRun(c) PROVE RowsOK'
  BY <1>5 DEF FirstRun, Go, ShardRowsPresent
<1>6. ASSUME NEW c \in Cli, Adopt(c) PROVE RowsOK'
  BY <1>6 DEF Adopt, Go, ShardRowsPresent
<1>7. ASSUME NEW c \in Cli, AdoptNot(c) PROVE RowsOK'
  BY <1>7 DEF AdoptNot, Go, Release
<1>8. ASSUME NEW c \in Cli, KeepKey(c) PROVE RowsOK'
  BY <1>8 DEF KeepKey, Go, Read, InKeyring, Cached, Release
<1>9. ASSUME NEW c \in Cli, Mint(c) PROVE RowsOK'
  BY <1>9 DEF Mint, Go, Cached, Read, InKeyring, Put, Trouble, ReadRaises, Release
<1>10. ASSUME NEW c \in Cli, MintTorn(c) PROVE RowsOK'
  BY <1>10 DEF MintTorn, Read, InKeyring, Trouble, Put, Ends, Cached
<1>11. ASSUME NEW c \in Cli, Touch(c) PROVE RowsOK'
  BY <1>11 DEF Touch, Go
<1>12. ASSUME NEW c \in Cli, Seed(c) PROVE RowsOK'
  BY <1>12 DEF Seed, Go, Cached, Read, InKeyring
<1>13. ASSUME NEW c \in Cli, SeedFromFile(c) PROVE RowsOK'
  BY <1>13 DEF SeedFromFile, Go, Cached, Trouble
<1>14. ASSUME NEW c \in Cli, BeginLock(c) PROVE RowsOK'
  BY <1>14 DEF BeginLock, Go, OpensSome, FernetKey, Acquire, Cached, Read, InKeyring
<1>15. ASSUME NEW c \in Cli, Seal(c) PROVE RowsOK'
  <2>1. sealed' = {key[c]} /\ locked' = {key[c]} /\ key[c] \in FernetKeys
    BY <1>15 DEF Seal, Go, Sealing, RowsOK
  <2>2. QED
    BY <1>15, <2>1 DEF Seal, Go
<1>16. ASSUME NEW c \in Cli, SyncFernet(c) PROVE RowsOK'
  BY <1>16 DEF SyncFernet, SyncForLaunchd, Ends, Cached
<1>17. ASSUME NEW c \in Cli, Unlock(c) PROVE RowsOK'
  <2>1. sealed' \subseteq sealed /\ locked' = sealed'
    BY <1>17 DEF Unlock, RowsOK
  <2>2. QED
    BY ZenonT(60), <1>17, <2>1 DEF Unlock, FernetKey, Ends, Cached, Read, InKeyring
<1>18. ASSUME NEW c \in Cli, StartDoctor(c) PROVE RowsOK'
  BY <1>18 DEF StartDoctor, Go, Acquire
<1>19. ASSUME NEW c \in Cli, ReportUnopenable(c) PROVE RowsOK'
  BY <1>19 DEF ReportUnopenable, Go
<1>20. ASSUME NEW c \in Cli, Import(c) PROVE RowsOK'
  BY <1>20 DEF Import, Go
<1>21. ASSUME NEW c \in Cli, Recover(c) PROVE RowsOK'
  BY <1>21 DEF Recover, Go, Cached, Put
<1>22. ASSUME NEW c \in Cli, Stage(c) PROVE RowsOK'
  BY <1>22 DEF Stage, Go, Put
<1>23. ASSUME NEW c \in Cli, Unsync(c) PROVE RowsOK'
  BY <1>23 DEF Unsync, Go, Put
<1>24. ASSUME NEW c \in Cli, CanonicalAdd(c) PROVE RowsOK'
  BY <1>24 DEF CanonicalAdd, Go, Put
<1>25. ASSUME NEW c \in Cli, CanonicalFails(c) PROVE RowsOK'
  BY <1>25 DEF CanonicalFails, Trouble, Put, Ends, Cached
<1>26. ASSUME NEW c \in Cli, Unstage(c) PROVE RowsOK'
  BY <1>26 DEF Unstage, Go, Put
<1>27. ASSUME NEW c \in Cli, BeginUninstall(c) PROVE RowsOK'
  BY <1>27 DEF BeginUninstall, Go, Acquire, Cached, Read, InKeyring
<1>28. ASSUME NEW c \in Cli, RestoreAll(c) PROVE RowsOK'
  BY <1>28 DEF RestoreAll, Go
<1>29. ASSUME NEW c \in Cli, RestoreFails(c) PROVE RowsOK'
  BY <1>29 DEF RestoreFails, Ends, Cached
<1>30. ASSUME NEW c \in Cli, DeleteFernetKey(c) PROVE RowsOK'
  BY <1>30 DEF DeleteFernetKey, Go
<1>31. ASSUME NEW c \in Cli, Unmark(c) PROVE RowsOK'
  BY <1>31 DEF Unmark, Go, Release
<1>32. ASSUME NEW c \in Cli, FinalizeWipe(c) PROVE RowsOK'
  BY <1>32 DEF FinalizeWipe, Ends, Cached
<1>33. QED
  BY QuitSteps, <1>0, <1>1, <1>2, <1>3, <1>4, <1>5, <1>6, <1>7, <1>8, <1>9, <1>10, <1>11, <1>12, <1>13, <1>14,
     <1>15, <1>16, <1>17, <1>18, <1>19, <1>20, <1>21, <1>22, <1>23, <1>24, <1>25, <1>26, <1>27, <1>28, <1>29,
     <1>30, <1>31, <1>32 DEF FernetNext

(* Every step of every command keeps the invariant. *)
LEMMA FernetInvStep == ~Overlaps /\ FernetInv /\ [FernetNext]_fernetVars => FernetInv'
BY FernetTypeOKStep, LockHeldStep, UninstallAloneStep, OnlyOldKeyStep, MoveOKStep, CachedDurableStep,
   SealedDurableStep, SealingStep, RowsOKStep DEF FernetInv

(* ensure_home(), lock, unlock, uninstall and doctor: as long as no         *)
(* uninstall, and no keychain that raises on the first run, meets another   *)
(* command or what an uninstall left in iCloud, every row and .env file     *)
(* depends on one master key, and that key is in one of the places it is    *)
(* looked for, whatever is killed, raises or fails to be written.           *)
THEOREM MasterKeyIsKept == ~Overlaps => (FernetSpec => []OneKeyKept)
<1>1. FernetInv => OneKeyKept
  <2> SUFFICES ASSUME FernetInv PROVE OneKeyKept
    OBVIOUS
  <2>1. CASE sealed = {}
    BY <2>1, FS_EmptySet DEF FernetInv, RowsOK, OneKeyKept, OneKey, KeyKept
  <2>2. ASSUME NEW k \in sealed PROVE OneKeyKept
    <3>1. sealed = {k} /\ locked = {k}
      BY DEF FernetInv, RowsOK
    <3>2. Cardinality(sealed) = 1
      BY <3>1, FS_Singleton
    <3>3. \E p \in Places : place[p] = k
      BY DEF FernetInv, SealedDurable, Durable, Places
    <3>4. QED
      BY <3>1, <3>2, <3>3 DEF OneKeyKept, OneKey, KeyKept
  <2>3. QED
    BY <2>1, <2>2
<1> SUFFICES ASSUME ~Overlaps PROVE FernetSpec => []OneKeyKept
  OBVIOUS
<1>2. FernetInv /\ [FernetNext]_fernetVars => FernetInv'
  BY FernetInvStep
<1>3. QED
  BY <1>1, <1>2, FernetInvInit, PTL DEF FernetSpec

HIDE FernetAssumption

-----------------------------------------------------------------------------
(* The migrations of the database.  Nothing that is created goes again, but *)
(* for the dead column, so whoever has passed a statement finds what it     *)
(* made; nobody but another start comes between a read and its ALTER.       *)

USE MigrationsAssumption

(* The statements of a start, by number. *)
LEMMA TheProgram ==
    /\ Len(Program) = 20
    /\ Program[1] = Do("read", "enrollments") /\ Program[2] = Do("add", "decoy_hash")
    /\ Program[3] = Do("create", "shards") /\ Program[4] = Do("create", "enrollment_config")
    /\ Program[5] = Do("create", "enrollments") /\ Program[6] = Do("create", "pending_charges")
    /\ Program[7] = Do("index", "decoy_hash") /\ Program[8] = Do("create", "pending_charges")
    /\ Program[9] = Do("read", "pending_charges") /\ Program[10] = Do("hard", "provider")
    /\ Program[11] = Do("read", "enrollments") /\ Program[12] = Do("add", "decoy_hash")
    /\ Program[13] = Do("index", "decoy_hash") /\ Program[14] = Do("add", "original_mode")
    /\ Program[15] = Do("read", "shards") /\ Program[16] = Do("drop", DeadColumn)
    /\ Program[17] = Do("backup", "base_url") /\ Program[18] = Do("add", "base_url")
    /\ Program[19] = Do("read", "enrollment_config") /\ Program[20] = Do("add", "ceiling_override")
BY DEF Program, PreStep, SchemaScript, MigrateDb

(* The tables and their columns, and the table of a column. *)
LEMMA TheTables ==
    /\ Table = {"shards", "enrollments", "pending_charges", "enrollment_config"}
    /\ Column = {"base_url", "decoy_hash", "original_mode", "provider", "ceiling_override", DeadColumn}
    /\ ColumnsOf["shards"] = {"base_url"} /\ ColumnsOf["enrollments"] = {"decoy_hash", "original_mode"}
    /\ ColumnsOf["pending_charges"] = {"provider"} /\ ColumnsOf["enrollment_config"] = {"ceiling_override"}
    /\ TableOf("base_url") = "shards" /\ TableOf(DeadColumn) = "shards"
    /\ TableOf("decoy_hash") = "enrollments" /\ TableOf("original_mode") = "enrollments"
    /\ TableOf("provider") = "pending_charges" /\ TableOf("ceiling_override") = "enrollment_config"
<1>1. Table = {"shards", "enrollments", "pending_charges", "enrollment_config"}
  BY DEF Table, ColumnsOf
<1>2. /\ ColumnsOf["shards"] = {"base_url"} /\ ColumnsOf["enrollments"] = {"decoy_hash", "original_mode"}
      /\ ColumnsOf["pending_charges"] = {"provider"} /\ ColumnsOf["enrollment_config"] = {"ceiling_override"}
  BY DEF ColumnsOf
<1>3. UNION {ColumnsOf[t] : t \in Table}
        = {"base_url", "decoy_hash", "original_mode", "provider", "ceiling_override"}
  BY <1>1, <1>2
<1>4. Column = {"base_url", "decoy_hash", "original_mode", "provider", "ceiling_override", DeadColumn}
  BY <1>3 DEF Column
<1>5. QED
  BY <1>1, <1>2, <1>4 DEF TableOf, DeadColumn

\* p, if it has not failed or been killed, has executed the statement of that number.
Past(p, i) == outcome[p] \in {"running", "done"} /\ statement[p] > i

\* What is created is never dropped again, other than the dead column.
CreatedStays ==
    \A p \in Starter :
        /\ Past(p, 2) /\ "enrollments" \in tables => "decoy_hash" \in columns
        /\ Past(p, 3) => "shards" \in tables
        /\ Past(p, 4) => "enrollment_config" \in tables
        /\ Past(p, 5) => "enrollments" \in tables
        /\ Past(p, 6) => "pending_charges" \in tables
        /\ Past(p, 7) => decoy_index
        /\ Past(p, 10) => "provider" \in columns
        /\ Past(p, 14) => "original_mode" \in columns
        /\ Past(p, 18) => "base_url" \in columns
        /\ Past(p, 20) => "ceiling_override" \in columns

\* What a process saw of a table is still there, but for the dead column.
SawOK == \A p \in Starter : saw[p] \subseteq columns \cup {DeadColumn}

\* Alone, a process finds things as it saw them, and a second without backup.
AloneOK ==
    \A p \in Starter : alone[p] =>
        /\ outcome[p] # "failed"
        /\ Running(p) /\ statement[p] = 10 /\ "provider" \in columns => "provider" \in saw[p]
        /\ Running(p) /\ statement[p] =< 17 => second \notin backups

\* An old shards table is copied before it gets its column.
BackupOK ==
    /\ was_old => "shards" \in tables
    /\ was_old /\ "base_url" \in columns => backups # {}
    /\ \A p \in Starter : Running(p) /\ statement[p] = 18 /\ "base_url" \notin saw[p] => backups # {}

\* Who is done has executed every statement.
StarterTypeOK ==
    /\ statement \in [Starter -> 1..21]
    /\ saw \in [Starter -> SUBSET Column]
    /\ outcome \in [Starter -> {"never", "running", "done", "failed", "killed"}]
    /\ alone \in [Starter -> BOOLEAN]
    /\ \A p \in Starter : /\ Running(p) => statement[p] =< 20
                          /\ outcome[p] = "done" => statement[p] = 21

\* A column belongs to a table that exists.
DatabaseOK ==
    /\ tables \subseteq Table
    /\ columns \subseteq Column
    /\ \A c \in columns : TableOf(c) \in tables
    /\ decoy_index \in BOOLEAN
    /\ decoy_index => "decoy_hash" \in columns
    /\ second \in Nat
    /\ backups \subseteq 0..second

\* The inductive invariant.
MigrationsInv == StarterTypeOK /\ DatabaseOK /\ CreatedStays /\ SawOK /\ AloneOK /\ BackupOK

(* The number of a statement tells its kind. *)
LEMMA WhichStatement ==
    ASSUME MigrationsInv, NEW p \in Starter, Running(p)
    PROVE  LET i == statement[p]
               s == NextStatement(p)
           IN  /\ i \in 1..20
               /\ s.op = "read" => i \in {1, 9, 11, 15, 19}
               /\ s.op = "create" => i \in {3, 4, 5, 6, 8}
               /\ s.op = "index" => i \in {7, 13}
               /\ s.op = "add" => i \in {2, 12, 14, 18, 20}
               /\ s.op = "hard" => i = 10
               /\ s.op = "drop" => i = 16
               /\ s.op = "backup" => i = 17
BY TheProgram DEF MigrationsInv, StarterTypeOK, NextStatement, Do

(* Nobody has started at first. *)
LEMMA MigrationsInvInit == MigrationsInit => MigrationsInv
<1> SUFFICES ASSUME MigrationsInit PROVE MigrationsInv
  OBVIOUS
<1>1. StarterTypeOK /\ CreatedStays /\ SawOK
  BY DEF MigrationsInit, StarterTypeOK, Running, CreatedStays, Past, SawOK
<1>2. tables \subseteq Table /\ columns \subseteq Column /\ \A c \in columns : TableOf(c) \in tables
  BY DEF MigrationsInit
<1>3. second = 0 /\ backups = {} /\ decoy_index = ("decoy_hash" \in columns)
  BY DEF MigrationsInit
<1>4. DatabaseOK
  <2>1. decoy_index = ("decoy_hash" \in columns)
    BY <1>3
  <2>2. decoy_index \in BOOLEAN
    BY <2>1
  <2>3. decoy_index => "decoy_hash" \in columns
    BY <2>1
  <2>4. second \in Nat /\ backups \subseteq 0..second
    BY <1>3
  <2>5. QED
    BY <1>2, <2>2, <2>3, <2>4 DEF DatabaseOK
<1>5. \A p \in Starter : outcome[p] = "never"
  BY DEF MigrationsInit
<1>6. AloneOK
  BY <1>5 DEF AloneOK, Running
<1>7. was_old = ("shards" \in tables /\ "base_url" \notin columns)
  BY DEF MigrationsInit
<1>8. BackupOK
  BY <1>5, <1>7 DEF BackupOK, Running
<1>9. QED
  BY <1>1, <1>4, <1>6, <1>8 DEF MigrationsInv

(* A start goes from statement to statement. *)
LEMMA StarterTypeOKKept ==
    ASSUME MigrationsInv, [MigrationsNext]_migrationVars
    PROVE  StarterTypeOK'
<1> USE DEF MigrationsInv, StarterTypeOK, Running, database, DeadColumn
<1>1. ASSUME NEW p \in Starter, Statement(p), ReadColumns(p) PROVE StarterTypeOK'
  <2>1. saw' \in [Starter -> SUBSET Column]
    BY <1>1 DEF ReadColumns, DatabaseOK
  <2>2. QED
    BY <1>1, <2>1, TheProgram DEF Statement, ReadColumns, GoesOn, Noticed
<1>2. ASSUME NEW p \in Starter, Statement(p), CreateTable(p) PROVE StarterTypeOK'
  BY <1>2, TheProgram DEF Statement, CreateTable, GoesOn, Fails, Noticed
<1>3. ASSUME NEW p \in Starter, Statement(p), CreateIndex(p) PROVE StarterTypeOK'
  BY <1>3, TheProgram DEF Statement, CreateIndex, GoesOn, Fails, Noticed
<1>4. ASSUME NEW p \in Starter, Statement(p), AddColumn(p) PROVE StarterTypeOK'
  BY <1>4, TheProgram DEF Statement, AddColumn, GoesOn, Fails, Noticed, Wanted
<1>5. ASSUME NEW p \in Starter, Statement(p), AddColumnHard(p) PROVE StarterTypeOK'
  BY <1>5, TheProgram DEF Statement, AddColumnHard, GoesOn, Fails, Noticed, Wanted
<1>6. ASSUME NEW p \in Starter, Statement(p), DropDeadColumn(p) PROVE StarterTypeOK'
  BY <1>6, TheProgram, TheTables DEF Statement, DropDeadColumn, GoesOn, Fails, Noticed
<1>7. ASSUME NEW p \in Starter, Statement(p), BackUp(p) PROVE StarterTypeOK'
  BY <1>7, TheProgram DEF Statement, BackUp, GoesOn, Fails, Noticed
<1>8. ASSUME NEW p \in Starter, StartUp(p) PROVE StarterTypeOK'
  BY <1>8, TheProgram DEF StartUp
<1>9. ASSUME NEW p \in Starter, Killed(p) PROVE StarterTypeOK'
  BY <1>9 DEF Killed
<1>10. CASE NextSecond
  BY <1>10 DEF NextSecond
<1>11. CASE UNCHANGED migrationVars
  BY <1>11 DEF migrationVars
<1>12. QED
  BY <1>1, <1>2, <1>3, <1>4, <1>5, <1>6, <1>7, <1>8, <1>9, <1>10, <1>11 DEF MigrationsNext, Statement

(* Columns are those of tables that exist. *)
LEMMA DatabaseOKKept ==
    ASSUME MigrationsInv, [MigrationsNext]_migrationVars
    PROVE  DatabaseOK'
<1> USE DEF MigrationsInv, DatabaseOK, Running, database, DeadColumn
<1>1. ASSUME NEW p \in Starter, Statement(p), ReadColumns(p) PROVE DatabaseOK'
  BY <1>1 DEF Statement, ReadColumns
<1>2. ASSUME NEW p \in Starter, Statement(p), CreateTable(p) PROVE DatabaseOK'
  <2>1. NextStatement(p).what \in Table
    BY <1>2, WhichStatement, TheProgram, TheTables DEF Statement, CreateTable, NextStatement, Do
  <2>2. \A c \in ColumnsOf[NextStatement(p).what] : c \in Column /\ TableOf(c) = NextStatement(p).what
    BY <2>1, TheTables
  <2>3. QED
    BY <1>2, <2>1, <2>2 DEF Statement, CreateTable
<1>3. ASSUME NEW p \in Starter, Statement(p), CreateIndex(p) PROVE DatabaseOK'
  BY <1>3 DEF Statement, CreateIndex
<1>4. ASSUME NEW p \in Starter, Statement(p), AddColumn(p) PROVE DatabaseOK'
  <2>1. CASE statement[p] = 2
    BY <1>4, <2>1, TheProgram, TheTables DEF Statement, AddColumn, GoesOn, Fails, Noticed, NextStatement, Do, Wanted
  <2>2. CASE statement[p] = 12
    BY <1>4, <2>2, TheProgram, TheTables DEF Statement, AddColumn, GoesOn, Fails, Noticed, NextStatement, Do, Wanted
  <2>3. CASE statement[p] = 14
    BY <1>4, <2>3, TheProgram, TheTables DEF Statement, AddColumn, GoesOn, Fails, Noticed, NextStatement, Do, Wanted
  <2>4. CASE statement[p] = 18
    BY <1>4, <2>4, TheProgram, TheTables DEF Statement, AddColumn, GoesOn, Fails, Noticed, NextStatement, Do, Wanted
  <2>5. CASE statement[p] = 20
    BY <1>4, <2>5, TheProgram, TheTables DEF Statement, AddColumn, GoesOn, Fails, Noticed, NextStatement, Do, Wanted
  <2>6. QED
    BY <1>4, <2>1, <2>2, <2>3, <2>4, <2>5, WhichStatement DEF Statement, AddColumn
<1>5. ASSUME NEW p \in Starter, Statement(p), AddColumnHard(p) PROVE DatabaseOK'
  <2>1. statement[p] = 10 /\ NextStatement(p).what = "provider"
    BY <1>5, WhichStatement, TheProgram DEF Statement, AddColumnHard, NextStatement, Do
  <2>2. "pending_charges" \in tables
    BY <1>5, <2>1 DEF Statement, CreatedStays, Past
  <2>3. columns' = columns \/ columns' = columns \cup {"provider"}
    BY <1>5, <2>1 DEF Statement, AddColumnHard
  <2>4. "provider" \in Column /\ TableOf("provider") = "pending_charges"
    BY TheTables
  <2>5. UNCHANGED <<tables, decoy_index, backups, second>>
    BY <1>5 DEF Statement, AddColumnHard
  <2>6. columns' \subseteq Column /\ \A c \in columns' : TableOf(c) \in tables'
    BY <2>2, <2>3, <2>4, <2>5
  <2>7. QED
    BY <2>3, <2>5, <2>6
<1>6. ASSUME NEW p \in Starter, Statement(p), DropDeadColumn(p) PROVE DatabaseOK'
  BY <1>6, TheProgram, TheTables DEF Statement, DropDeadColumn, GoesOn, Fails, Noticed
<1>7. ASSUME NEW p \in Starter, Statement(p), BackUp(p) PROVE DatabaseOK'
  <2>1. UNCHANGED <<tables, columns, decoy_index, second>>
    BY <1>7 DEF Statement, BackUp
  <2>2. backups' = backups \/ backups' = backups \cup {second}
    BY <1>7 DEF Statement, BackUp
  <2>3. second' = second /\ second \in 0..second /\ backups \subseteq 0..second
    BY <2>1
  <2>4. backups' \subseteq 0..second'
    BY <2>2, <2>3
  <2>5. QED
    BY <2>1, <2>4
<1>8. ASSUME NEW p \in Starter, StartUp(p) PROVE DatabaseOK'
  BY <1>8, TheProgram DEF StartUp
<1>9. ASSUME NEW p \in Starter, Killed(p) PROVE DatabaseOK'
  BY <1>9 DEF Killed
<1>10. CASE NextSecond
  BY <1>10 DEF NextSecond
<1>11. CASE UNCHANGED migrationVars
  BY <1>11 DEF migrationVars
<1>12. QED
  BY <1>1, <1>2, <1>3, <1>4, <1>5, <1>6, <1>7, <1>8, <1>9, <1>10, <1>11 DEF MigrationsNext, Statement

(* What a start has created, or found, is there. *)
LEMMA CreatedStaysKept ==
    ASSUME MigrationsInv, [MigrationsNext]_migrationVars
    PROVE  CreatedStays'
<1> USE DEF MigrationsInv, CreatedStays, Past, SawOK, StarterTypeOK, DatabaseOK, Running, database, DeadColumn
<1>1. ASSUME NEW p \in Starter, Statement(p), ReadColumns(p) PROVE CreatedStays'
  <2>1. CASE statement[p] = 1
    BY <1>1, <2>1, TheProgram, TheTables DEF Statement, ReadColumns, GoesOn, Fails, Noticed, NextStatement, Do
  <2>2. CASE statement[p] = 9
    BY <1>1, <2>2, TheProgram, TheTables DEF Statement, ReadColumns, GoesOn, Fails, Noticed, NextStatement, Do
  <2>3. CASE statement[p] = 11
    BY <1>1, <2>3, TheProgram, TheTables DEF Statement, ReadColumns, GoesOn, Fails, Noticed, NextStatement, Do
  <2>4. CASE statement[p] = 15
    BY <1>1, <2>4, TheProgram, TheTables DEF Statement, ReadColumns, GoesOn, Fails, Noticed, NextStatement, Do
  <2>5. CASE statement[p] = 19
    BY <1>1, <2>5, TheProgram, TheTables DEF Statement, ReadColumns, GoesOn, Fails, Noticed, NextStatement, Do
  <2>6. QED
    BY <1>1, <2>1, <2>2, <2>3, <2>4, <2>5, WhichStatement DEF Statement, ReadColumns
<1>2. ASSUME NEW p \in Starter, Statement(p), CreateTable(p) PROVE CreatedStays'
  <2>1. CASE statement[p] = 3
    BY <1>2, <2>1, TheProgram, TheTables DEF Statement, CreateTable, GoesOn, Fails, Noticed, NextStatement, Do
  <2>2. CASE statement[p] = 4
    BY <1>2, <2>2, TheProgram, TheTables DEF Statement, CreateTable, GoesOn, Fails, Noticed, NextStatement, Do
  <2>3. CASE statement[p] = 5
    BY <1>2, <2>3, TheProgram, TheTables DEF Statement, CreateTable, GoesOn, Fails, Noticed, NextStatement, Do
  <2>4. CASE statement[p] = 6
    BY <1>2, <2>4, TheProgram, TheTables DEF Statement, CreateTable, GoesOn, Fails, Noticed, NextStatement, Do
  <2>5. CASE statement[p] = 8
    BY <1>2, <2>5, TheProgram, TheTables DEF Statement, CreateTable, GoesOn, Fails, Noticed, NextStatement, Do
  <2>6. QED
    BY <1>2, <2>1, <2>2, <2>3, <2>4, <2>5, WhichStatement DEF Statement, CreateTable
<1>3. ASSUME NEW p \in Starter, Statement(p), CreateIndex(p) PROVE CreatedStays'
  <2>1. CASE statement[p] = 7
    BY <1>3, <2>1, TheProgram, TheTables DEF Statement, CreateIndex, GoesOn, Fails, Noticed, NextStatement, Do
  <2>2. CASE statement[p] = 13
    BY <1>3, <2>2, TheProgram, TheTables DEF Statement, CreateIndex, GoesOn, Fails, Noticed, NextStatement, Do
  <2>3. QED
    BY <1>3, <2>1, <2>2, WhichStatement DEF Statement, CreateIndex
<1>4. ASSUME NEW p \in Starter, Statement(p), AddColumn(p) PROVE CreatedStays'
  <2>1. CASE statement[p] = 2
    BY <1>4, <2>1, TheProgram, TheTables DEF Statement, AddColumn, GoesOn, Fails, Noticed, NextStatement, Do, Wanted
  <2>2. CASE statement[p] = 12
    BY <1>4, <2>2, TheProgram, TheTables DEF Statement, AddColumn, GoesOn, Fails, Noticed, NextStatement, Do, Wanted
  <2>3. CASE statement[p] = 14
    BY <1>4, <2>3, TheProgram, TheTables DEF Statement, AddColumn, GoesOn, Fails, Noticed, NextStatement, Do, Wanted
  <2>4. CASE statement[p] = 18
    BY <1>4, <2>4, TheProgram, TheTables DEF Statement, AddColumn, GoesOn, Fails, Noticed, NextStatement, Do, Wanted
  <2>5. CASE statement[p] = 20
    BY <1>4, <2>5, TheProgram, TheTables DEF Statement, AddColumn, GoesOn, Fails, Noticed, NextStatement, Do, Wanted
  <2>6. QED
    BY <1>4, <2>1, <2>2, <2>3, <2>4, <2>5, WhichStatement DEF Statement, AddColumn
<1>5. ASSUME NEW p \in Starter, Statement(p), AddColumnHard(p) PROVE CreatedStays'
  <2>1. CASE statement[p] = 10
    BY <1>5, <2>1, TheProgram, TheTables DEF Statement, AddColumnHard, GoesOn, Fails, Noticed, NextStatement, Do, Wanted
  <2>2. QED
    BY <1>5, <2>1, WhichStatement DEF Statement, AddColumnHard
<1>6. ASSUME NEW p \in Starter, Statement(p), DropDeadColumn(p) PROVE CreatedStays'
  <2>1. CASE statement[p] = 16
    BY <1>6, <2>1, TheProgram, TheTables DEF Statement, DropDeadColumn, GoesOn, Fails, Noticed, NextStatement, Do
  <2>2. QED
    BY <1>6, <2>1, WhichStatement DEF Statement, DropDeadColumn
<1>7. ASSUME NEW p \in Starter, Statement(p), BackUp(p) PROVE CreatedStays'
  <2>1. CASE statement[p] = 17
    BY <1>7, <2>1, TheProgram, TheTables DEF Statement, BackUp, GoesOn, Fails, Noticed, NextStatement, Do
  <2>2. QED
    BY <1>7, <2>1, WhichStatement DEF Statement, BackUp
<1>8. ASSUME NEW p \in Starter, StartUp(p) PROVE CreatedStays'
  BY <1>8, TheProgram DEF StartUp
<1>9. ASSUME NEW p \in Starter, Killed(p) PROVE CreatedStays'
  BY <1>9 DEF Killed
<1>10. CASE NextSecond
  BY <1>10 DEF NextSecond
<1>11. CASE UNCHANGED migrationVars
  BY <1>11 DEF migrationVars
<1>12. QED
  BY <1>1, <1>2, <1>3, <1>4, <1>5, <1>6, <1>7, <1>8, <1>9, <1>10, <1>11 DEF MigrationsNext, Statement

(* No column goes but the dead one. *)
LEMMA SawOKKept ==
    ASSUME MigrationsInv, [MigrationsNext]_migrationVars
    PROVE  SawOK'
<1> USE DEF MigrationsInv, SawOK, StarterTypeOK, DatabaseOK, Running, database, DeadColumn
<1>1. ASSUME NEW p \in Starter, Statement(p), ReadColumns(p) PROVE SawOK'
  BY <1>1, TheProgram DEF Statement, ReadColumns, GoesOn, Fails, Noticed
<1>2. ASSUME NEW p \in Starter, Statement(p), CreateTable(p) PROVE SawOK'
  BY <1>2, TheProgram DEF Statement, CreateTable, GoesOn, Fails, Noticed
<1>3. ASSUME NEW p \in Starter, Statement(p), CreateIndex(p) PROVE SawOK'
  BY <1>3, TheProgram DEF Statement, CreateIndex, GoesOn, Fails, Noticed
<1>4. ASSUME NEW p \in Starter, Statement(p), AddColumn(p) PROVE SawOK'
  <2>1. CASE statement[p] = 2
    BY <1>4, <2>1, TheProgram, TheTables DEF Statement, AddColumn, GoesOn, Fails, Noticed, NextStatement, Do, Wanted
  <2>2. CASE statement[p] = 12
    BY <1>4, <2>2, TheProgram, TheTables DEF Statement, AddColumn, GoesOn, Fails, Noticed, NextStatement, Do, Wanted
  <2>3. CASE statement[p] = 14
    BY <1>4, <2>3, TheProgram, TheTables DEF Statement, AddColumn, GoesOn, Fails, Noticed, NextStatement, Do, Wanted
  <2>4. CASE statement[p] = 18
    BY <1>4, <2>4, TheProgram, TheTables DEF Statement, AddColumn, GoesOn, Fails, Noticed, NextStatement, Do, Wanted
  <2>5. CASE statement[p] = 20
    BY <1>4, <2>5, TheProgram, TheTables DEF Statement, AddColumn, GoesOn, Fails, Noticed, NextStatement, Do, Wanted
  <2>6. QED
    BY <1>4, <2>1, <2>2, <2>3, <2>4, <2>5, WhichStatement DEF Statement, AddColumn
<1>5. ASSUME NEW p \in Starter, Statement(p), AddColumnHard(p) PROVE SawOK'
  <2>1. CASE statement[p] = 10
    BY <1>5, <2>1, TheProgram, TheTables DEF Statement, AddColumnHard, GoesOn, Fails, Noticed, NextStatement, Do, Wanted
  <2>2. QED
    BY <1>5, <2>1, WhichStatement DEF Statement, AddColumnHard
<1>6. ASSUME NEW p \in Starter, Statement(p), DropDeadColumn(p) PROVE SawOK'
  BY <1>6, TheProgram, TheTables DEF Statement, DropDeadColumn, GoesOn, Fails, Noticed
<1>7. ASSUME NEW p \in Starter, Statement(p), BackUp(p) PROVE SawOK'
  BY <1>7, TheProgram DEF Statement, BackUp, GoesOn, Fails, Noticed
<1>8. ASSUME NEW p \in Starter, StartUp(p) PROVE SawOK'
  BY <1>8, TheProgram DEF StartUp
<1>9. ASSUME NEW p \in Starter, Killed(p) PROVE SawOK'
  BY <1>9 DEF Killed
<1>10. CASE NextSecond
  BY <1>10 DEF NextSecond
<1>11. CASE UNCHANGED migrationVars
  BY <1>11 DEF migrationVars
<1>12. QED
  BY <1>1, <1>2, <1>3, <1>4, <1>5, <1>6, <1>7, <1>8, <1>9, <1>10, <1>11 DEF MigrationsNext, Statement

(* Only somebody else makes a start fail. *)
LEMMA AloneOKKept ==
    ASSUME MigrationsInv, [MigrationsNext]_migrationVars
    PROVE  AloneOK'
<1> USE DEF MigrationsInv, AloneOK, SawOK, StarterTypeOK, DatabaseOK, Past, CreatedStays, Running, database, DeadColumn
<1>1. ASSUME NEW p \in Starter, Statement(p), ReadColumns(p) PROVE AloneOK'
  <2>1. CASE statement[p] = 1
    BY <1>1, <2>1, TheProgram, TheTables DEF Statement, ReadColumns, GoesOn, Fails, Noticed, NextStatement, Do
  <2>2. CASE statement[p] = 9
    BY <1>1, <2>2, TheProgram, TheTables DEF Statement, ReadColumns, GoesOn, Fails, Noticed, NextStatement, Do
  <2>3. CASE statement[p] = 11
    BY <1>1, <2>3, TheProgram, TheTables DEF Statement, ReadColumns, GoesOn, Fails, Noticed, NextStatement, Do
  <2>4. CASE statement[p] = 15
    BY <1>1, <2>4, TheProgram, TheTables DEF Statement, ReadColumns, GoesOn, Fails, Noticed, NextStatement, Do
  <2>5. CASE statement[p] = 19
    BY <1>1, <2>5, TheProgram, TheTables DEF Statement, ReadColumns, GoesOn, Fails, Noticed, NextStatement, Do
  <2>6. QED
    BY <1>1, <2>1, <2>2, <2>3, <2>4, <2>5, WhichStatement DEF Statement, ReadColumns
<1>2. ASSUME NEW p \in Starter, Statement(p), CreateTable(p) PROVE AloneOK'
  <2>1. CASE statement[p] = 3
    BY <1>2, <2>1, TheProgram, TheTables DEF Statement, CreateTable, GoesOn, Fails, Noticed, NextStatement, Do
  <2>2. CASE statement[p] = 4
    BY <1>2, <2>2, TheProgram, TheTables DEF Statement, CreateTable, GoesOn, Fails, Noticed, NextStatement, Do
  <2>3. CASE statement[p] = 5
    BY <1>2, <2>3, TheProgram, TheTables DEF Statement, CreateTable, GoesOn, Fails, Noticed, NextStatement, Do
  <2>4. CASE statement[p] = 6
    BY <1>2, <2>4, TheProgram, TheTables DEF Statement, CreateTable, GoesOn, Fails, Noticed, NextStatement, Do
  <2>5. CASE statement[p] = 8
    BY <1>2, <2>5, TheProgram, TheTables DEF Statement, CreateTable, GoesOn, Fails, Noticed, NextStatement, Do
  <2>6. QED
    BY <1>2, <2>1, <2>2, <2>3, <2>4, <2>5, WhichStatement DEF Statement, CreateTable
<1>3. ASSUME NEW p \in Starter, Statement(p), CreateIndex(p) PROVE AloneOK'
  <2>1. CASE statement[p] = 7
    BY <1>3, <2>1, TheProgram, TheTables DEF Statement, CreateIndex, GoesOn, Fails, Noticed, NextStatement, Do
  <2>2. CASE statement[p] = 13
    BY <1>3, <2>2, TheProgram, TheTables DEF Statement, CreateIndex, GoesOn, Fails, Noticed, NextStatement, Do
  <2>3. QED
    BY <1>3, <2>1, <2>2, WhichStatement DEF Statement, CreateIndex
<1>4. ASSUME NEW p \in Starter, Statement(p), AddColumn(p) PROVE AloneOK'
  <2>1. CASE statement[p] = 2
    BY <1>4, <2>1, TheProgram, TheTables DEF Statement, AddColumn, GoesOn, Fails, Noticed, NextStatement, Do, Wanted
  <2>2. CASE statement[p] = 12
    BY <1>4, <2>2, TheProgram, TheTables DEF Statement, AddColumn, GoesOn, Fails, Noticed, NextStatement, Do, Wanted
  <2>3. CASE statement[p] = 14
    BY <1>4, <2>3, TheProgram, TheTables DEF Statement, AddColumn, GoesOn, Fails, Noticed, NextStatement, Do, Wanted
  <2>4. CASE statement[p] = 18
    BY <1>4, <2>4, TheProgram, TheTables DEF Statement, AddColumn, GoesOn, Fails, Noticed, NextStatement, Do, Wanted
  <2>5. CASE statement[p] = 20
    BY <1>4, <2>5, TheProgram, TheTables DEF Statement, AddColumn, GoesOn, Fails, Noticed, NextStatement, Do, Wanted
  <2>6. QED
    BY <1>4, <2>1, <2>2, <2>3, <2>4, <2>5, WhichStatement DEF Statement, AddColumn
<1>5. ASSUME NEW p \in Starter, Statement(p), AddColumnHard(p) PROVE AloneOK'
  <2>1. statement[p] = 10 /\ NextStatement(p).what = "provider"
    BY <1>5, WhichStatement, TheProgram DEF Statement, AddColumnHard, NextStatement, Do
  <2>2. alone[p] => GoesOn(p)
    BY <1>5, <2>1 DEF Statement, AddColumnHard, Wanted
  <2>3. \A q \in Starter \ {p} : alone'[q] => alone[q] /\ ~Running(q)
    BY <1>5 DEF Statement, Noticed
  <2>4. alone'[p] => alone[p]
    BY <1>5 DEF Statement, Noticed
  <2>5. /\ UNCHANGED <<saw, backups, second>>
        /\ \A q \in Starter \ {p} : outcome'[q] = outcome[q] /\ statement'[q] = statement[q]
    BY <1>5 DEF Statement, AddColumnHard, GoesOn, Fails
  <2>6. QED
    BY <2>1, <2>2, <2>3, <2>4, <2>5, TheProgram DEF GoesOn
<1>6. ASSUME NEW p \in Starter, Statement(p), DropDeadColumn(p) PROVE AloneOK'
  <2>1. CASE statement[p] = 16
    BY <1>6, <2>1, TheProgram, TheTables DEF Statement, DropDeadColumn, GoesOn, Fails, Noticed, NextStatement, Do
  <2>2. QED
    BY <1>6, <2>1, WhichStatement DEF Statement, DropDeadColumn
<1>7. ASSUME NEW p \in Starter, Statement(p), BackUp(p) PROVE AloneOK'
  <2>1. statement[p] = 17
    BY <1>7, WhichStatement DEF Statement, BackUp
  <2>2. alone[p] => GoesOn(p)
    BY <1>7, <2>1 DEF Statement, BackUp
  <2>3. \A q \in Starter \ {p} : alone'[q] => alone[q] /\ ~Running(q)
    BY <1>7 DEF Statement, Noticed
  <2>4. alone'[p] => alone[p]
    BY <1>7 DEF Statement, Noticed
  <2>5. /\ UNCHANGED <<saw, columns, second>>
        /\ \A q \in Starter \ {p} : outcome'[q] = outcome[q] /\ statement'[q] = statement[q]
    BY <1>7 DEF Statement, BackUp, GoesOn, Fails
  <2>6. QED
    BY <2>1, <2>2, <2>3, <2>4, <2>5, TheProgram DEF GoesOn
<1>8. ASSUME NEW p \in Starter, StartUp(p) PROVE AloneOK'
  BY <1>8, TheProgram DEF StartUp
<1>9. ASSUME NEW p \in Starter, Killed(p) PROVE AloneOK'
  BY <1>9 DEF Killed
<1>10. CASE NextSecond
  BY <1>10 DEF NextSecond
<1>11. CASE UNCHANGED migrationVars
  BY <1>11 DEF migrationVars
<1>12. QED
  BY <1>1, <1>2, <1>3, <1>4, <1>5, <1>6, <1>7, <1>8, <1>9, <1>10, <1>11 DEF MigrationsNext, Statement

(* The copy comes before the column. *)
LEMMA BackupOKKept ==
    ASSUME MigrationsInv, [MigrationsNext]_migrationVars
    PROVE  BackupOK'
<1> USE DEF MigrationsInv, BackupOK, SawOK, StarterTypeOK, DatabaseOK, Past, CreatedStays, Running, database, DeadColumn
<1>1. ASSUME NEW p \in Starter, Statement(p), ReadColumns(p) PROVE BackupOK'
  <2>1. CASE statement[p] = 1
    BY <1>1, <2>1, TheProgram, TheTables DEF Statement, ReadColumns, GoesOn, Fails, Noticed, NextStatement, Do
  <2>2. CASE statement[p] = 9
    BY <1>1, <2>2, TheProgram, TheTables DEF Statement, ReadColumns, GoesOn, Fails, Noticed, NextStatement, Do
  <2>3. CASE statement[p] = 11
    BY <1>1, <2>3, TheProgram, TheTables DEF Statement, ReadColumns, GoesOn, Fails, Noticed, NextStatement, Do
  <2>4. CASE statement[p] = 15
    BY <1>1, <2>4, TheProgram, TheTables DEF Statement, ReadColumns, GoesOn, Fails, Noticed, NextStatement, Do
  <2>5. CASE statement[p] = 19
    BY <1>1, <2>5, TheProgram, TheTables DEF Statement, ReadColumns, GoesOn, Fails, Noticed, NextStatement, Do
  <2>6. QED
    BY <1>1, <2>1, <2>2, <2>3, <2>4, <2>5, WhichStatement DEF Statement, ReadColumns
<1>2. ASSUME NEW p \in Starter, Statement(p), CreateTable(p) PROVE BackupOK'
  <2>1. CASE statement[p] = 3
    BY <1>2, <2>1, TheProgram, TheTables DEF Statement, CreateTable, GoesOn, Fails, Noticed, NextStatement, Do
  <2>2. CASE statement[p] = 4
    BY <1>2, <2>2, TheProgram, TheTables DEF Statement, CreateTable, GoesOn, Fails, Noticed, NextStatement, Do
  <2>3. CASE statement[p] = 5
    BY <1>2, <2>3, TheProgram, TheTables DEF Statement, CreateTable, GoesOn, Fails, Noticed, NextStatement, Do
  <2>4. CASE statement[p] = 6
    BY <1>2, <2>4, TheProgram, TheTables DEF Statement, CreateTable, GoesOn, Fails, Noticed, NextStatement, Do
  <2>5. CASE statement[p] = 8
    BY <1>2, <2>5, TheProgram, TheTables DEF Statement, CreateTable, GoesOn, Fails, Noticed, NextStatement, Do
  <2>6. QED
    BY <1>2, <2>1, <2>2, <2>3, <2>4, <2>5, WhichStatement DEF Statement, CreateTable
<1>3. ASSUME NEW p \in Starter, Statement(p), CreateIndex(p) PROVE BackupOK'
  <2>1. CASE statement[p] = 7
    BY <1>3, <2>1, TheProgram, TheTables DEF Statement, CreateIndex, GoesOn, Fails, Noticed, NextStatement, Do
  <2>2. CASE statement[p] = 13
    BY <1>3, <2>2, TheProgram, TheTables DEF Statement, CreateIndex, GoesOn, Fails, Noticed, NextStatement, Do
  <2>3. QED
    BY <1>3, <2>1, <2>2, WhichStatement DEF Statement, CreateIndex
<1>4. ASSUME NEW p \in Starter, Statement(p), AddColumn(p) PROVE BackupOK'
  <2>1. CASE statement[p] = 2
    BY <1>4, <2>1, TheProgram, TheTables DEF Statement, AddColumn, GoesOn, Fails, Noticed, NextStatement, Do, Wanted
  <2>2. CASE statement[p] = 12
    BY <1>4, <2>2, TheProgram, TheTables DEF Statement, AddColumn, GoesOn, Fails, Noticed, NextStatement, Do, Wanted
  <2>3. CASE statement[p] = 14
    BY <1>4, <2>3, TheProgram, TheTables DEF Statement, AddColumn, GoesOn, Fails, Noticed, NextStatement, Do, Wanted
  <2>4. CASE statement[p] = 18
    BY <1>4, <2>4, TheProgram, TheTables DEF Statement, AddColumn, GoesOn, Fails, Noticed, NextStatement, Do, Wanted
  <2>5. CASE statement[p] = 20
    BY <1>4, <2>5, TheProgram, TheTables DEF Statement, AddColumn, GoesOn, Fails, Noticed, NextStatement, Do, Wanted
  <2>6. QED
    BY <1>4, <2>1, <2>2, <2>3, <2>4, <2>5, WhichStatement DEF Statement, AddColumn
<1>5. ASSUME NEW p \in Starter, Statement(p), AddColumnHard(p) PROVE BackupOK'
  <2>1. CASE statement[p] = 10
    BY <1>5, <2>1, TheProgram, TheTables DEF Statement, AddColumnHard, GoesOn, Fails, Noticed, NextStatement, Do, Wanted
  <2>2. QED
    BY <1>5, <2>1, WhichStatement DEF Statement, AddColumnHard
<1>6. ASSUME NEW p \in Starter, Statement(p), DropDeadColumn(p) PROVE BackupOK'
  <2>1. CASE statement[p] = 16
    BY <1>6, <2>1, TheProgram, TheTables DEF Statement, DropDeadColumn, GoesOn, Fails, Noticed, NextStatement, Do
  <2>2. QED
    BY <1>6, <2>1, WhichStatement DEF Statement, DropDeadColumn
<1>7. ASSUME NEW p \in Starter, Statement(p), BackUp(p) PROVE BackupOK'
  <2>1. CASE statement[p] = 17
    BY <1>7, <2>1, TheProgram, TheTables DEF Statement, BackUp, GoesOn, Fails, Noticed, NextStatement, Do
  <2>2. QED
    BY <1>7, <2>1, WhichStatement DEF Statement, BackUp
<1>8. ASSUME NEW p \in Starter, StartUp(p) PROVE BackupOK'
  BY <1>8, TheProgram DEF StartUp
<1>9. ASSUME NEW p \in Starter, Killed(p) PROVE BackupOK'
  BY <1>9 DEF Killed
<1>10. CASE NextSecond
  BY <1>10 DEF NextSecond
<1>11. CASE UNCHANGED migrationVars
  BY <1>11 DEF migrationVars
<1>12. QED
  BY <1>1, <1>2, <1>3, <1>4, <1>5, <1>6, <1>7, <1>8, <1>9, <1>10, <1>11 DEF MigrationsNext, Statement

(* migrate_db() and _init_db(), without a lock: whoever races or was killed *)
(* half way, a start that ends well finds every table, column and index, a  *)
(* start that nobody disturbs does not fail, and a shards table of an older *)
(* version was copied before it was changed.                                *)
THEOREM StartsAreSafe == MigrationsSpec => []StartsSafely
<1>1. MigrationsInv => StartsSafely
  <2> SUFFICES ASSUME MigrationsInv PROVE StartsSafely
    OBVIOUS
  <2>1. ASSUME NEW p \in Starter, outcome[p] = "done"
        PROVE  tables = Table /\ decoy_index /\ \A t \in Table : ColumnsOf[t] \subseteq columns
    <3>1. statement[p] = 21
      BY <2>1 DEF MigrationsInv, StarterTypeOK
    <3>2. \A i \in 1..20 : Past(p, i)
      BY <2>1, <3>1 DEF Past
    <3>3. /\ {"shards", "enrollments", "pending_charges", "enrollment_config"} \subseteq tables
          /\ decoy_index
      BY <3>2 DEF MigrationsInv, CreatedStays
    <3>4. tables = Table
      BY <3>3, TheTables DEF MigrationsInv, DatabaseOK
    <3>5. {"base_url", "decoy_hash", "original_mode", "provider", "ceiling_override"} \subseteq columns
      BY <3>2, <3>3 DEF MigrationsInv, CreatedStays
    <3>6. QED
      BY <3>3, <3>4, <3>5, TheTables
  <2>2. OnlyARaceFails /\ BackedUpFirst
    BY DEF MigrationsInv, AloneOK, BackupOK, OnlyARaceFails, BackedUpFirst
  <2>3. QED
    BY <2>1, <2>2 DEF StartsSafely, DoneMeansWhole
<1>2. MigrationsInv /\ [MigrationsNext]_migrationVars => MigrationsInv'
  BY StarterTypeOKKept, DatabaseOKKept, CreatedStaysKept, SawOKKept, AloneOKKept, BackupOKKept DEF MigrationsInv
<1>3. QED
  BY <1>1, <1>2, MigrationsInvInit, PTL DEF MigrationsSpec

HIDE MigrationsAssumption

-----------------------------------------------------------------------------
(* The split, for alphabets, keys and lines of any size: the two shards add *)
(* up to the key, and only the shard-A of a row opens it.                   *)

Alphabet(cs) ==
    /\ cs \in Seq(Char)
    /\ cs # << >>
    /\ \A j, m \in DOMAIN cs : cs[j] = cs[m] => j = m

\* A character's index is found again.
LEMMA IndexOf ==
    ASSUME NEW cs, Alphabet(cs), NEW n \in 0..(Len(cs) - 1)
    PROVE  /\ cs[n + 1] \in Char
           /\ ToIdx(cs, cs[n + 1]) = n
<1>1. cs \in Seq(Char) /\ DOMAIN cs = 1..Len(cs) /\ Len(cs) \in Nat
  BY DEF Alphabet
<1>2. n + 1 \in DOMAIN cs
  BY <1>1
<1>3. \A i \in DOMAIN cs : cs[i] = cs[n + 1] => i = n + 1
  BY <1>2 DEF Alphabet
<1>4. (CHOOSE i \in DOMAIN cs : cs[i] = cs[n + 1]) = n + 1
  BY <1>2, <1>3
<1>5. cs[n + 1] \in Char
  BY <1>1, <1>2
<1>6. ToIdx(cs, cs[n + 1]) = (n + 1) - 1
  BY <1>4 DEF ToIdx
<1> QED
  BY <1>5, <1>6

\* A character of a body the alphabet covers has an index, which leads back.
LEMMA CharAt ==
    ASSUME NEW cs, Alphabet(cs), NEW x, Covers(cs, x), NEW i \in DOMAIN x
    PROVE  /\ ToIdx(cs, x[i]) \in 0..(Len(cs) - 1)
           /\ cs[ToIdx(cs, x[i]) + 1] = x[i]
<1>1. cs \in Seq(Char) /\ DOMAIN cs = 1..Len(cs) /\ Len(cs) \in Nat
  BY DEF Alphabet
<1>2. PICK j \in DOMAIN cs : cs[j] = x[i]
  BY DEF Covers
<1>3. /\ (CHOOSE m \in DOMAIN cs : cs[m] = x[i]) \in DOMAIN cs
      /\ cs[CHOOSE m \in DOMAIN cs : cs[m] = x[i]] = x[i]
  BY <1>2
<1> QED
  BY <1>1, <1>3 DEF ToIdx

\* Remainders of what is at most one alphabet too high or too low.
LEMMA Remainder ==
    ASSUME NEW N \in Nat \ {0}, NEW r \in 0..(N - 1)
    PROVE  /\ r % N = r
           /\ (r + N) % N = r
           /\ (r - N) % N = r
  OBVIOUS

LEMMA MinusThenPlus ==
    ASSUME NEW N \in Nat \ {0}, NEW x \in 0..(N - 1), NEW y \in 0..(N - 1)
    PROVE  /\ (x - y) % N \in 0..(N - 1)
           /\ (((x - y) % N) + y) % N = x
<1>1. CASE x >= y
  <2>1. x - y \in 0..(N - 1)
    BY <1>1
  <2>2. (x - y) % N = x - y
    BY <2>1, Remainder
  <2> QED
    BY <2>1, <2>2, Remainder
<1>2. CASE x < y
  <2>1. x - y + N \in 0..(N - 1)
    BY <1>2
  <2>2. (x - y) % N = x - y + N
    BY <2>1, (x - y + N - N) % N = x - y + N, Remainder
  <2>3. ((x - y) % N) + y = x + N
    BY <2>2
  <2> QED
    BY <2>1, <2>2, <2>3, Remainder
<1> QED
  BY <1>1, <1>2

LEMMA PlusThenMinus ==
    ASSUME NEW N \in Nat \ {0}, NEW x \in 0..(N - 1), NEW y \in 0..(N - 1)
    PROVE  /\ (x + y) % N \in 0..(N - 1)
           /\ (((x + y) % N) - y) % N = x
<1>1. CASE x + y < N
  <2>1. (x + y) % N = x + y /\ x + y \in 0..(N - 1)
    BY <1>1, Remainder
  <2>2. x + y - y = x
    OBVIOUS
  <2> QED
    BY <2>1, <2>2, Remainder
<1>2. CASE x + y >= N
  <2>1. x + y - N \in 0..(N - 1)
    BY <1>2
  <2>2. ((x + y - N) + N) % N = x + y - N
    BY <2>1, Remainder
  <2>3. (x + y) % N = x + y - N
    BY <2>2
  <2>4. ((x + y) % N) - y = x - N
    BY <2>3
  <2> QED
    BY <2>1, <2>3, <2>4, Remainder
<1> QED
  BY <1>1, <1>2

-----------------------------------------------------------------------------
\* Adding the mask to what is left after subtracting it gives the body back,
LEMMA SplitUndone ==
    ASSUME NEW cs, Alphabet(cs), NEW x \in Seq(Char), NEW y,
           DOMAIN x = DOMAIN y, Covers(cs, x), Covers(cs, y)
    PROVE  /\ Plus(cs, Minus(cs, x, y), y) = x
           /\ Covers(cs, Minus(cs, x, y))
           /\ DOMAIN Minus(cs, x, y) = DOMAIN x
<1> DEFINE N == Len(cs)
<1>1. N \in Nat \ {0}
  BY DEF Alphabet
<1>2. ASSUME NEW i \in DOMAIN x
      PROVE  /\ Minus(cs, x, y)[i] = cs[((ToIdx(cs, x[i]) - ToIdx(cs, y[i])) % N) + 1]
             /\ (ToIdx(cs, x[i]) - ToIdx(cs, y[i])) % N \in 0..(N - 1)
             /\ (((ToIdx(cs, x[i]) - ToIdx(cs, y[i])) % N) + ToIdx(cs, y[i])) % N = ToIdx(cs, x[i])
  <2>1. ToIdx(cs, x[i]) \in 0..(N - 1) /\ ToIdx(cs, y[i]) \in 0..(N - 1)
    BY CharAt
  <2>2. Minus(cs, x, y)[i] = cs[((ToIdx(cs, x[i]) - ToIdx(cs, y[i])) % N) + 1]
    BY DEF Minus
  <2> HIDE DEF N
  <2> QED
    BY <1>1, <2>1, <2>2, MinusThenPlus
<1>3. DOMAIN Minus(cs, x, y) = DOMAIN x
  BY DEF Minus
<1>4. Covers(cs, Minus(cs, x, y))
  <2>1. ASSUME NEW i \in DOMAIN x
        PROVE  \E j \in DOMAIN cs : cs[j] = Minus(cs, x, y)[i]
    <3>1. ((ToIdx(cs, x[i]) - ToIdx(cs, y[i])) % N) + 1 \in DOMAIN cs
      BY <1>1, <1>2 DEF Alphabet
    <3> QED
      BY <3>1, <1>2
  <2> QED
    BY <1>3, <2>1 DEF Covers
<1>5. ASSUME NEW i \in DOMAIN x
      PROVE  Plus(cs, Minus(cs, x, y), y)[i] = x[i]
  <2>1. ToIdx(cs, Minus(cs, x, y)[i]) = (ToIdx(cs, x[i]) - ToIdx(cs, y[i])) % N
    BY <1>2, IndexOf
  <2>2. Plus(cs, Minus(cs, x, y), y)[i]
            = cs[((ToIdx(cs, Minus(cs, x, y)[i]) + ToIdx(cs, y[i])) % N) + 1]
    BY <1>3 DEF Plus
  <2>3. Plus(cs, Minus(cs, x, y), y)[i] = cs[ToIdx(cs, x[i]) + 1]
    BY <1>2, <2>1, <2>2
  <2> QED
    BY <2>3, CharAt
<1>6. Plus(cs, Minus(cs, x, y), y) = [i \in DOMAIN x |-> Plus(cs, Minus(cs, x, y), y)[i]]
  BY <1>3 DEF Plus
<1>7. x = [i \in DOMAIN x |-> x[i]]
  OBVIOUS
<1> QED
  BY <1>3, <1>4, <1>5, <1>6, <1>7

\* and no other body adds up to it.
LEMMA SplitUnique ==
    ASSUME NEW cs, Alphabet(cs), NEW x \in Seq(Char), NEW y,
           DOMAIN x = DOMAIN y, Covers(cs, x), Covers(cs, y)
    PROVE  Minus(cs, Plus(cs, x, y), y) = x
<1> DEFINE N == Len(cs)
<1>1. N \in Nat \ {0}
  BY DEF Alphabet
<1>2. ASSUME NEW i \in DOMAIN x
      PROVE  /\ Plus(cs, x, y)[i] = cs[((ToIdx(cs, x[i]) + ToIdx(cs, y[i])) % N) + 1]
             /\ (ToIdx(cs, x[i]) + ToIdx(cs, y[i])) % N \in 0..(N - 1)
             /\ (((ToIdx(cs, x[i]) + ToIdx(cs, y[i])) % N) - ToIdx(cs, y[i])) % N = ToIdx(cs, x[i])
  <2>1. ToIdx(cs, x[i]) \in 0..(N - 1) /\ ToIdx(cs, y[i]) \in 0..(N - 1)
    BY CharAt
  <2>2. Plus(cs, x, y)[i] = cs[((ToIdx(cs, x[i]) + ToIdx(cs, y[i])) % N) + 1]
    BY DEF Plus
  <2> HIDE DEF N
  <2> QED
    BY <1>1, <2>1, <2>2, PlusThenMinus
<1>3. DOMAIN Plus(cs, x, y) = DOMAIN x
  BY DEF Plus
<1>4. ASSUME NEW i \in DOMAIN x
      PROVE  Minus(cs, Plus(cs, x, y), y)[i] = x[i]
  <2>1. ToIdx(cs, Plus(cs, x, y)[i]) = (ToIdx(cs, x[i]) + ToIdx(cs, y[i])) % N
    BY <1>2, IndexOf
  <2>2. Minus(cs, Plus(cs, x, y), y)[i]
            = cs[((ToIdx(cs, Plus(cs, x, y)[i]) - ToIdx(cs, y[i])) % N) + 1]
    BY <1>3 DEF Minus
  <2>3. Minus(cs, Plus(cs, x, y), y)[i] = cs[ToIdx(cs, x[i]) + 1]
    BY <1>2, <2>1, <2>2
  <2> QED
    BY <2>3, CharAt
<1>5. Minus(cs, Plus(cs, x, y), y) = [i \in DOMAIN x |-> Minus(cs, Plus(cs, x, y), y)[i]]
  BY <1>3 DEF Minus
<1>6. x = [i \in DOMAIN x |-> x[i]]
  OBVIOUS
<1> QED
  BY <1>3, <1>4, <1>5, <1>6

-----------------------------------------------------------------------------
(* Rows.                                                                   *)

SoundRow(r) ==
    /\ r.commitment \in ApiKey
    /\ r.prefix = r.commitment.prefix
    /\ Alphabet(r.charset)
    /\ DOMAIN r.shard_b = DOMAIN r.commitment.body
    /\ Covers(r.charset, r.shard_b)
    /\ Covers(r.charset, r.commitment.body)
    /\ DeriveShardA(r.commitment, r) \notin ApiKey

\* A key is its prefix and a body over Char.
LEMMA KeyShape ==
    ASSUME NEW k \in ApiKey
    PROVE  k = [prefix |-> k.prefix, body |-> k.body] /\ k.body \in Seq(Char)
  BY SplitAssumption DEF SplitAssumption

\* The shard-A of a row opens it, to the key that was split.
LEMMA RowOpens ==
    ASSUME NEW r, SoundRow(r)
    PROVE  /\ SumReconstructs(DeriveShardA(r.commitment, r), r)
           /\ Sum(DeriveShardA(r.commitment, r), r) = r.commitment
<1> DEFINE k == r.commitment
<1>1. k \in ApiKey /\ k = [prefix |-> k.prefix, body |-> k.body] /\ k.body \in Seq(Char)
  BY KeyShape DEF SoundRow
<1>2. /\ Plus(r.charset, Minus(r.charset, k.body, r.shard_b), r.shard_b) = k.body
      /\ Covers(r.charset, Minus(r.charset, k.body, r.shard_b))
      /\ DOMAIN Minus(r.charset, k.body, r.shard_b) = DOMAIN k.body
  BY <1>1, SplitUndone DEF SoundRow
<1>3. DeriveShardA(k, r) = [prefix |-> r.prefix, body |-> Minus(r.charset, k.body, r.shard_b)]
  BY DEF DeriveShardA
<1>4. Sum(DeriveShardA(k, r), r) = [prefix |-> k.prefix, body |-> k.body]
  BY <1>2, <1>3 DEF Sum, SoundRow
<1>5. Pairs(DeriveShardA(k, r), r)
  BY <1>2, <1>3 DEF Pairs, SoundRow
<1> QED
  BY <1>1, <1>4, <1>5 DEF SumReconstructs, Committed

\* No key of the user's opens it.
LEMMA RowRefusesKeys ==
    ASSUME NEW r, SoundRow(r), NEW k \in ApiKey
    PROVE  ~SumReconstructs(k, r)
<1> SUFFICES ASSUME SumReconstructs(k, r) PROVE FALSE
  OBVIOUS
<1>1. k = [prefix |-> k.prefix, body |-> k.body] /\ k.body \in Seq(Char)
  BY KeyShape
<1>2. Pairs(k, r) /\ Sum(k, r) = r.commitment
  BY DEF SumReconstructs, Committed
<1>3. r.commitment.body = Plus(r.charset, k.body, r.shard_b)
  BY <1>2 DEF Sum
<1>4. Minus(r.charset, r.commitment.body, r.shard_b) = k.body
  BY <1>1, <1>2, <1>3, SplitUnique DEF Pairs, SoundRow
<1>5. DeriveShardA(r.commitment, r) = [prefix |-> k.prefix, body |-> k.body]
  BY <1>2, <1>4 DEF DeriveShardA, Pairs
<1> QED
  BY <1>1, <1>5 DEF SoundRow

\* What split_key_fp draws for a key makes a sound row.
LEMMA FreshRowSound ==
    ASSUME NEW k \in ApiKey, NEW i \in DOMAIN Charsets,
           DetectCharset(i, k.body),
           NEW mask \in Masks(Charsets[i], k.body),
           DeriveShardA(k, SplitInto(k, Charsets[i], mask)) \notin ApiKey
    PROVE  /\ SoundRow(SplitInto(k, Charsets[i], mask))
           /\ SplitInto(k, Charsets[i], mask).commitment = k
           /\ SplitInto(k, Charsets[i], mask) # Missing
<1> DEFINE cs == Charsets[i]
           r == SplitInto(k, cs, mask)
<1>1. cs \in Seq(Char) /\ Alphabet(cs)
  BY SplitAssumption DEF SplitAssumption, Alphabet
<1>2. /\ r.commitment = k /\ r.prefix = k.prefix
      /\ r.charset = cs /\ r.shard_b = mask
  BY DEF SplitInto
<1>3. DOMAIN mask = DOMAIN k.body /\ Covers(cs, mask)
  BY DEF Masks, Covers
<1>4. Covers(cs, k.body)
  BY DEF DetectCharset
<1>5. SoundRow(r)
  <2>1. DeriveShardA(k, r) \notin ApiKey
    OBVIOUS
  <2> HIDE DEF cs, r
  <2> QED
    BY <1>1, <1>2, <1>3, <1>4, <2>1 DEF SoundRow
<1>6. mask \in Seq(Char)
  <2>1. k.body \in Seq(Char)
    BY KeyShape
  <2>2. DOMAIN mask = 1..Len(k.body) /\ Len(k.body) \in Nat
    BY <1>3, <2>1
  <2>3. mask \in [1..Len(k.body) -> Char]
    BY <1>1, <2>2 DEF Masks
  <2> QED
    BY <2>2, <2>3
<1>7. r \in Shards
  BY <1>6, SplitAssumption DEF SplitInto, Shards, SplitAssumption
<1> QED
  BY <1>2, <1>5, <1>7, SplitAssumption DEF SplitAssumption

-----------------------------------------------------------------------------
(* The invariant.                                                          *)

\* A line that is not the user's key is the row's shard-A, and its key the
\* row's key.
Split(l) ==
    /\ l \in enlisted
    /\ row # Missing
    /\ held[l] = DeriveShardA(row.commitment, row)
    /\ given[l] = row.commitment

Sound ==
    /\ held = [l \in Line |-> held[l]]
    /\ given \in [Line -> ApiKey \cup {Missing}]
    /\ row # Missing => SoundRow(row)
    /\ \A l \in Line : held[l] = given[l] \/ Split(l)

SplitInv == damage \in Nat /\ (damage = 0 => Sound)

LEMMA InitSound == SplitInit => SplitInv
  BY DEF SplitInit, SplitInv, Sound

LEMMA InvOpens == SplitInv => OpensToItsKey
<1> SUFFICES ASSUME Sound, NEW l \in Line, held[l] # given[l]
             PROVE  /\ l \in enlisted
                    /\ row # Missing
                    /\ SumReconstructs(held[l], row)
                    /\ Sum(held[l], row) = given[l]
  BY DEF SplitInv, OpensToItsKey
<1>1. Split(l) /\ SoundRow(row)
  BY DEF Sound, Split
<1> QED
  BY <1>1, RowOpens DEF Split

\* A raw line that is not missing holds a key.
LEMMA RawIsKey ==
    ASSUME Sound, NEW l \in Line, Raw(l)
    PROVE  held[l] \in ApiKey /\ held[l] = given[l]
  BY DEF Sound, Raw

LEMMA LockFreshSound ==
    ASSUME Sound, NEW l \in Line, LockFresh(l)
    PROVE  Sound'
<1>1. held[l] \in ApiKey /\ held[l] = given[l]
  BY RawIsKey DEF LockFresh
<1>2. PICK i \in DOMAIN Charsets :
        /\ DetectCharset(i, held[l].body)
        /\ \E mask \in Masks(Charsets[i], held[l].body) :
                row' = SplitInto(held[l], Charsets[i], mask)
  BY DEF LockFresh
<1>3. PICK mask \in Masks(Charsets[i], held[l].body) :
                row' = SplitInto(held[l], Charsets[i], mask)
  BY <1>2
<1>4. PICK k \in ApiKey : k = held[l]
  BY <1>1
<1>5. PICK r : r = SplitInto(k, Charsets[i], mask)
  OBVIOUS
<1>6. row' = r /\ DeriveShardA(k, r) \notin ApiKey
  BY <1>3, <1>4, <1>5 DEF LockFresh
<1>7. SoundRow(r) /\ r.commitment = k /\ r # Missing
  BY <1>2, <1>3, <1>4, <1>5, <1>6, FreshRowSound
<1>8. /\ held' = [held EXCEPT ![l] = DeriveShardA(k, r)]
      /\ enlisted' = enlisted \cup {l}
      /\ given' = given
      /\ row = Missing
  BY <1>4, <1>6 DEF LockFresh
<1>9. (row # Missing => SoundRow(row))'
  BY <1>6, <1>7
<1>10. ASSUME NEW m \in Line
       PROVE  (held[m] = given[m] \/ Split(m))'
  <2>1. CASE m = l
    BY <1>1, <1>4, <1>6, <1>7, <1>8, <2>1 DEF Split, Sound
  <2>2. CASE m # l
    BY <1>8, <2>2 DEF Split, Sound
  <2> QED
    BY <2>1, <2>2
<1>11. held' = [m \in Line |-> held'[m]]
  BY <1>8 DEF Sound
<1> QED
  BY <1>8, <1>9, <1>10, <1>11 DEF Sound

LEMMA LockAgainSound ==
    ASSUME Sound, NEW l \in Line, LockAgain(l)
    PROVE  Sound'
<1>1. held[l] \in ApiKey /\ held[l] = given[l]
  BY RawIsKey DEF LockAgain
<1>2. held[l] = row.commitment
  BY DEF LockAgain, MatchesRow, Committed
<1>3. /\ held' = [held EXCEPT ![l] = DeriveShardA(row.commitment, row)]
      /\ enlisted' = enlisted \cup {l}
      /\ row' = row
      /\ given' = given
      /\ row # Missing
  BY <1>2 DEF LockAgain
<1>4. ASSUME NEW m \in Line
      PROVE  (held[m] = given[m] \/ Split(m))'
  <2>1. CASE m = l
    BY <1>1, <1>2, <1>3, <2>1 DEF Split, Sound
  <2>2. CASE m # l
    BY <1>3, <2>2 DEF Split, Sound
  <2> QED
    BY <2>1, <2>2
<1>5. held' = [m \in Line |-> held'[m]]
  BY <1>3 DEF Sound
<1> QED
  BY <1>3, <1>4, <1>5 DEF Sound

LEMMA UnlockLineSound ==
    ASSUME Sound, NEW l \in Line, UnlockLine(l)
    PROVE  Sound'
<1>1. SoundRow(row) /\ row # Missing /\ held[l] # Missing /\ SumReconstructs(held[l], row)
  BY DEF UnlockLine, Sound
<1>2. held[l] \notin ApiKey
  BY <1>1, RowRefusesKeys
<1>3. Split(l)
  BY <1>1, <1>2 DEF Sound
<1>4. Sum(held[l], row) = given[l]
  BY <1>1, <1>3, RowOpens DEF Split
<1>5. /\ held' = [held EXCEPT ![l] = given[l]]
      /\ enlisted' = enlisted \ {l}
      /\ row' = IF enlisted' = {} THEN Missing ELSE row
      /\ given' = given
  BY <1>4 DEF UnlockLine
<1>6. ASSUME NEW m \in Line
      PROVE  (held[m] = given[m] \/ Split(m))'
  <2>1. CASE m = l
    BY <1>5, <2>1 DEF Sound
  <2>2. CASE m # l
    BY <1>5, <2>2 DEF Split, Sound
  <2> QED
    BY <2>1, <2>2
<1>7. held' = [m \in Line |-> held'[m]]
  BY <1>5 DEF Sound
<1>8. (row # Missing => SoundRow(row))'
  BY <1>1, <1>5
<1> QED
  BY <1>5, <1>6, <1>7, <1>8 DEF Sound

LEMMA PutKeySound ==
    ASSUME Sound, NEW l \in Line, NEW k \in ApiKey, PutKeyOn(l, k)
    PROVE  Sound'
<1>1. held' = [m \in Line |-> held'[m]] /\ given' \in [Line -> ApiKey \cup {Missing}]
  BY DEF PutKeyOn, Sound
<1>2. ASSUME NEW m \in Line
      PROVE  (held[m] = given[m] \/ Split(m))'
  BY DEF PutKeyOn, Split, Sound
<1> QED
  BY <1>1, <1>2 DEF PutKeyOn, Sound

LEMMA StepSound == SplitInv /\ [SplitNext]_splitVars => SplitInv'
<1> SUFFICES ASSUME SplitInv, [SplitNext]_splitVars
             PROVE  SplitInv'
  OBVIOUS
<1>1. ASSUME NEW l \in Line, NEW k \in ApiKey, PutKeyOn(l, k)
      PROVE  SplitInv'
  BY <1>1, PutKeySound DEF SplitInv, PutKeyOn
<1>2. ASSUME NEW l \in Line, LockFresh(l)
      PROVE  SplitInv'
  BY <1>2, LockFreshSound DEF SplitInv, LockFresh
<1>3. ASSUME NEW l \in Line, LockAgain(l)
      PROVE  SplitInv'
  BY <1>3, LockAgainSound DEF SplitInv, LockAgain
<1>4. ASSUME NEW l \in Line, UnlockLine(l)
      PROVE  SplitInv'
  BY <1>4, UnlockLineSound DEF SplitInv, UnlockLine
<1>5. ASSUME Damage
      PROVE  SplitInv'
  BY <1>5 DEF SplitInv, Damage
<1>6. CASE UNCHANGED splitVars
  BY <1>6 DEF splitVars, SplitInv, Sound, Split
<1> QED
  BY <1>1, <1>2, <1>3, <1>4, <1>5, <1>6 DEF SplitNext, DamageLine, DamageRow

\* For every alphabet, key length, set of keys and of lines: until something is
\* corrupted, each line holds its key, or a shard-A its alias's row turns back
\* into exactly that key.
THEOREM SplitOpens == SplitSpec => []OpensToItsKey
<1>1. SplitSpec => []SplitInv
  BY InitSound, StepSound, PTL DEF SplitSpec
<1> QED
  BY <1>1, InvOpens, PTL

-----------------------------------------------------------------------------
(* Corruption.                                                             *)

\* Whatever is corrupted, a row is committed to a key of the user's.
Pledged ==
    /\ held = [l \in Line |-> held[l]]
    /\ given \in [Line -> ApiKey \cup {Missing}]
    /\ enlisted \subseteq Line
    /\ row # Missing => "commitment" \in DOMAIN row /\ row.commitment \in ApiKey

LEMMA StepPledged == Pledged /\ [SplitNext]_splitVars => Pledged'
<1> SUFFICES ASSUME Pledged, [SplitNext]_splitVars
             PROVE  Pledged'
  OBVIOUS
<1>1. ASSUME NEW l \in Line, NEW k \in ApiKey, PutKeyOn(l, k)
      PROVE  Pledged'
  BY <1>1 DEF Pledged, PutKeyOn
<1>2. ASSUME NEW l \in Line, LockFresh(l)
      PROVE  Pledged'
  <2>1. held[l] \in ApiKey
    BY <1>2 DEF LockFresh, Raw, Pledged
  <2>2. row'.commitment = held[l] /\ "commitment" \in DOMAIN row'
    BY <1>2 DEF LockFresh, SplitInto
  <2> QED
    BY <1>2, <2>1, <2>2 DEF Pledged, LockFresh
<1>3. ASSUME NEW l \in Line, LockAgain(l)
      PROVE  Pledged'
  BY <1>3 DEF Pledged, LockAgain
<1>4. ASSUME NEW l \in Line, UnlockLine(l)
      PROVE  Pledged'
  BY <1>4 DEF Pledged, UnlockLine
<1>5. ASSUME NEW l \in Line, DamageLine(l)
      PROVE  Pledged'
  BY <1>5 DEF Pledged, DamageLine, Damage
<1>6. CASE DamageRow
  <2>1. "commitment" \in DOMAIN row' /\ row'.commitment = row.commitment
    BY <1>6 DEF Pledged, DamageRow
  <2> QED
    BY <1>6, <2>1 DEF Pledged, DamageRow, Damage
<1>7. CASE UNCHANGED splitVars
  BY <1>7 DEF Pledged, splitVars
<1> QED
  BY <1>1, <1>2, <1>3, <1>4, <1>5, <1>6, <1>7 DEF SplitNext

LEMMA UnlockWritesKeys ==
    Pledged /\ [SplitNext]_splitVars
        => [\A l \in enlisted \ enlisted' : held'[l] \in ApiKey]_splitVars
<1> SUFFICES ASSUME Pledged, SplitNext, NEW l \in enlisted \ enlisted'
             PROVE  held'[l] \in ApiKey
  BY DEF splitVars
<1>1. PICK m \in Line : UnlockLine(m)
  BY DEF SplitNext, PutKeyOn, LockFresh, LockAgain, DamageLine, DamageRow, Damage
<1>2. l = m
  BY <1>1 DEF UnlockLine
<1>3. held'[m] = Sum(held[m], row)
  BY <1>1 DEF UnlockLine, Pledged
<1> QED
  BY <1>1, <1>2, <1>3 DEF UnlockLine, SumReconstructs, Committed, Pledged

\* Whatever is corrupted, in lines or in the row, and whatever the alphabets:
\* unlock leaves a key of the user's on the line, or leaves the line alone.
THEOREM UnlockNeverInvents == SplitSpec => NeverAnotherKey
<1>1. SplitInit => Pledged
  BY DEF SplitInit, Pledged
<1>2. SplitSpec => []Pledged
  BY <1>1, StepPledged, PTL DEF SplitSpec
<1> QED
  BY <1>2, UnlockWritesKeys, PTL DEF SplitSpec, NeverAnotherKey

=============================================================================
