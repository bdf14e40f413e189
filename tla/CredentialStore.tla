-------------------------- MODULE CredentialStore --------------------------
(***************************************************************************)
(* The credential store of the client daemon                               *)
(* (client/internal/credentials/store.go): the files of one host's         *)
(* directory, replaced by the two-phase commit of WriteToFilesystem and    *)
(* RotateCerts, repaired by recoverPendingRotation at the start of every   *)
(* operation, and deleted by Deprovision.                                  *)
(*                                                                         *)
(* Reading, writing and rotating hold the store's mutex; NewStore and       *)
(* Deprovision do not, and are modelled as the daemon calls them when no    *)
(* other operation of the store is in progress. A process crash or a power  *)
(* loss can come between any two file system calls, and a call can fail.    *)
(***************************************************************************)
EXTENDS CredentialData, Naturals

CONSTANTS
    Faults,           \* the file system calls that may fail: "write", "sync", "rename", "unlink"
    NameRank,         \* the files by name, as os.ReadDir lists them
    WriteRank,        \* the files in the order WriteToFilesystem writes them
    RotateRank,       \* the files in the order RotateCerts writes them
    WipeRank,         \* the files in the order the file system lists them to os.RemoveAll
    OrderedMetadata   \* TRUE: a power loss keeps a prefix of the directory operations (a journal);
                      \* FALSE: those not yet fsynced survive in any combination

ASSUME RankAssumption == {NameRank, WriteRank, RotateRank, WipeRank} \subseteq [File -> Nat]

ASSUME OrderedAssumption == OrderedMetadata \in BOOLEAN

VARIABLES
    disk,    \* the directory as the process sees it
    past,    \* the directory as a power loss may leave it: what it was since the last fsync
    up,      \* the process has a Store for the directory
    pc,      \* the next step of the operation in progress
    op,      \* the operation in progress: its kind and its argument
    base,    \* history: the credentials the last update started from
    goal,    \* the credentials the last update is to leave
    phase,   \* history: how far that update got, if nothing was started since
    todo,    \* the files the update still has to write as .new
    left,    \* the files that the deletion in progress has failed to delete
    stray,   \* history: the .new files that were there before the last update, that an earlier
             \* recovery failed to delete and the update does not write: its commit takes them too
    mem,     \* s.ConnSettings: the connection settings in memory, or Absent
    result   \* what the last operation returned

vars == <<disk, past, up, pc, op, base, goal, phase, todo, left, stray, mem, result>>

-----------------------------------------------------------------------------
\* What the directory can be: the files under their final names, the .new
\* files, whether the commit marker and the directory itself exist.
Image == [final  : Creds,
          new    : Creds,
          marker : BOOLEAN,
          dir    : BOOLEAN]

NoDir == [final |-> NoCreds, new |-> NoCreds, marker |-> FALSE, dir |-> FALSE]

Staged(i) == {f \in File : i.new[f] # Absent}

First(S, rank) == {f \in S : \A g \in S : rank[f] <= rank[g]}

NoNew(i) == \A f \in File : i.new[f] = Absent

\* The credentials that recoverPendingRotation makes of a directory: with the
\* marker every .new file takes its place, without it none does.
Recovered(i) ==
    [f \in File |-> IF i.marker /\ i.new[f] # Absent THEN i.new[f] ELSE i.final[f]]

\* The directories a power loss can leave. Unordered, each file (a name with
\* its .new, which a rename moves as one) and the marker keep any of the states
\* they had since the last fsync.
Mixtures ==
    {[final  |-> [f \in File |-> c[f].final[f]],
      new    |-> [f \in File |-> c[f].new[f]],
      marker |-> m.marker,
      dir    |-> disk.dir] : c \in [File -> past], m \in past}

Survivors == IF OrderedMetadata THEN past ELSE Mixtures

Operations ==
    [kind : {"none", "open", "read", "deprovision"}]
        \cup [kind : {"write"}, arg : Bundles]
        \cup [kind : {"rotate"}, arg : Payloads]

NoOp == [kind |-> "none"]

Steps == {"idle", "recover", "unmarked", "stage", "writing", "cleanup", "mark", "marked", "rename", "unmark", "wipe"}

Results == {"none", "ok", "unchanged", "nocreds", "error"}

Init ==
    /\ disk = NoDir
    /\ past = {NoDir}
    /\ up = FALSE
    /\ pc = "idle"
    /\ op = NoOp
    /\ base = NoCreds
    /\ goal = NoCreds
    /\ phase = "none"
    /\ todo = {}
    /\ left = {}
    /\ stray = {}
    /\ mem = Absent
    /\ result = "none"

-----------------------------------------------------------------------------
\* A directory operation is seen at once and durable after the next fsync.
Change(i) ==
    /\ disk' = i
    /\ past' = past \cup {i}

\* Mutant: no error of fsyncDir is noticed, nor its omission.
FsyncDirSkipped == UNCHANGED <<disk, past>>

FsyncDir ==
    /\ past' = {disk}
    /\ UNCHANGED disk

UnchangedDir == UNCHANGED <<disk, past>>

UnchangedUpdate == UNCHANGED <<base, goal, phase, todo, stray>>

Rename(f) == Change([disk EXCEPT !.final[f] = disk.new[f], !.new[f] = Absent])

Start ==
    /\ pc' = "recover"
    /\ left' = {}
    /\ result' = "none"

Finish(r) ==
    /\ pc' = "idle"
    /\ op' = NoOp
    /\ left' = {}
    /\ result' = r

\* The operation is over; what it was to write is forgotten.
Return(r) ==
    /\ Finish(r)
    /\ todo' = {}
    /\ UNCHANGED <<base, goal, phase, stray>>

Goto(s) ==
    /\ pc' = s
    /\ left' = {}
    /\ UNCHANGED <<op, result>>

-----------------------------------------------------------------------------
(* The operations, each up to its call of recoverPendingRotation. *)

\* NewStore, called by initializeHost, and by deleteCredentials for the Store
\* it deletes through. os.MkdirAll creates the directory.
Open(kind) ==
    /\ pc = "idle"
    /\ kind \in {"open", "deprovision"}
    /\ kind = "deprovision" => up
    /\ op' = [kind |-> kind]
    /\ Start
    /\ Change([disk EXCEPT !.dir = TRUE])
    /\ UNCHANGED <<up, mem>> /\ UnchangedUpdate

ReadMissing ==
    /\ pc = "idle" /\ up
    /\ ~disk.dir
    /\ Finish("nocreds")
    /\ UNCHANGED <<up, mem>> /\ UnchangedDir /\ UnchangedUpdate

Read ==
    /\ pc = "idle" /\ up
    /\ disk.dir
    /\ op' = [kind |-> "read"]
    /\ Start
    /\ UNCHANGED <<up, mem>> /\ UnchangedDir /\ UnchangedUpdate

Write(b) ==
    /\ pc = "idle" /\ up
    /\ op' = [kind |-> "write", arg |-> b]
    /\ Start
    /\ Change([disk EXCEPT !.dir = TRUE])
    /\ UNCHANGED <<up, mem>> /\ UnchangedUpdate

Rotate(p) ==
    /\ pc = "idle" /\ up
    /\ op' = [kind |-> "rotate", arg |-> p]
    /\ Start
    /\ UNCHANGED <<up, mem>> /\ UnchangedDir /\ UnchangedUpdate

-----------------------------------------------------------------------------
(* recoverPendingRotation *)

\* With the marker: the renames that are left, an fsync, the removal of the
\* marker, an fsync.
RecoverRename(f) ==
    /\ pc = "recover" /\ disk.marker
    /\ f \in First(Staged(disk), NameRank)
    /\ Rename(f)
    /\ UNCHANGED <<up, pc, op, left, mem, result>> /\ UnchangedUpdate

\* Mutant: the recovery removes the marker before it has done the renames.
RecoverUnmarkEarly ==
    /\ pc = "recover" /\ disk.marker
    /\ disk' = [disk EXCEPT !.marker = FALSE]
    /\ past' = {disk, disk'}
    /\ Goto("unmarked")
    /\ UNCHANGED <<up, mem>> /\ UnchangedUpdate

\* The directory is fsynced (an error of it is ignored) and the marker removed.
RecoverUnmark ==
    /\ pc = "recover" /\ disk.marker /\ NoNew(disk)
    /\ disk' = [disk EXCEPT !.marker = FALSE]
    /\ \/ past' = {disk, disk'}
       \/ "sync" \in Faults /\ past' = past \cup {disk'}
    /\ Goto("unmarked")
    /\ UNCHANGED <<up, mem>> /\ UnchangedUpdate

RecoverSync ==
    /\ pc = "unmarked"
    /\ FsyncDir \/ ("sync" \in Faults /\ UnchangedDir)
    /\ Goto("recover")
    /\ UNCHANGED <<up, mem>> /\ UnchangedUpdate

\* Without the marker: every .new file is an orphan and is deleted. That the
\* file could not be deleted is ignored, and it stays.
Discard(f) ==
    /\ pc \in {"recover", "cleanup"} /\ ~disk.marker
    /\ f \in First(Staged(disk) \ left, NameRank)
    /\ \/ Change([disk EXCEPT !.new[f] = Absent]) /\ UNCHANGED left
       \/ "unlink" \in Faults /\ UnchangedDir /\ left' = left \cup {f}
    /\ UNCHANGED <<up, pc, op, mem, result>> /\ UnchangedUpdate

RecoverFail ==
    /\ pc = "recover" /\ disk.marker
    /\ IF NoNew(disk) THEN "unlink" \in Faults ELSE "rename" \in Faults
    /\ Return("error")
    /\ UNCHANGED <<up, mem>> /\ UnchangedDir

RecoveryDone(kind) ==
    /\ pc = "recover" /\ op.kind = kind
    /\ ~disk.marker /\ Staged(disk) \subseteq left

-----------------------------------------------------------------------------
(* The operations, from the end of the recovery on. *)

FinishOpen ==
    /\ RecoveryDone("open")
    /\ up' = TRUE
    /\ mem' = Absent
    /\ Return("ok")
    /\ UnchangedDir

\* Mutant: connection settings that do not parse are taken as they are.
FinishReadUnparsed ==
    /\ RecoveryDone("read")
    /\ IF disk.final[CaCert] = Absent
         THEN Return("nocreds") /\ UNCHANGED mem
         ELSE IF \E f \in File : disk.final[f] = Absent
           THEN Return("error") /\ UNCHANGED mem
           ELSE Return("ok") /\ mem' = disk.final[ConnSettings]
    /\ UNCHANGED up /\ UnchangedDir

\* No CA certificate means no credentials; any other missing file is an error,
\* and so are settings that do not parse: the connection settings, or, once
\* those are in memory, the host settings (which of the other files they are is
\* not told apart).
FinishRead ==
    /\ RecoveryDone("read")
    /\ IF disk.final[CaCert] = Absent
         THEN Return("nocreds") /\ UNCHANGED mem
         ELSE IF (\E f \in File : disk.final[f] = Absent) \/ disk.final[ConnSettings] = Torn
           THEN Return("error") /\ UNCHANGED mem
           ELSE /\ \/ Return("ok")
                   \/ (\E f \in File : disk.final[f] = Torn) /\ Return("error")
                /\ mem' = disk.final[ConnSettings]
    /\ UNCHANGED up /\ UnchangedDir

Plan(creds, files) ==
    /\ base' = disk.final
    /\ goal' = creds
    /\ phase' = "none"
    /\ todo' = files
    /\ stray' = Staged(disk) \ files
    /\ Goto("stage")

PlanWrite ==
    /\ RecoveryDone("write")
    /\ Plan(op.arg, File)
    /\ UNCHANGED <<up, mem>> /\ UnchangedDir

\* The files that differ from the payload. The connection settings are compared
\* with those in memory, and skipped when none are.
ChangedFiles(p) ==
    {f \in File : \/ f = DeviceCert /\ p.cert # disk.final[DeviceCert]
                  \/ f = CaCert /\ p.ca # Absent /\ p.ca # disk.final[CaCert]
                  \/ f = ConnSettings /\ mem # Absent /\ p.conn # mem}

PlanRotate ==
    /\ RecoveryDone("rotate")
    /\ ChangedFiles(op.arg) # {}
    /\ Plan(Rotation(disk.final, op.arg, ConnSettings \in ChangedFiles(op.arg)),
            ChangedFiles(op.arg))
    /\ UNCHANGED <<up, mem>> /\ UnchangedDir

NothingToRotate ==
    /\ RecoveryDone("rotate")
    /\ ChangedFiles(op.arg) = {}
    /\ Return("unchanged")
    /\ UNCHANGED <<up, mem>> /\ UnchangedDir

StartWipe ==
    /\ RecoveryDone("deprovision")
    /\ Goto("wipe")
    /\ phase' = "none"
    /\ UNCHANGED <<up, mem, base, goal, todo, stray>> /\ UnchangedDir

-----------------------------------------------------------------------------
(* Phase 1, writeNewFile: the .new file is created, or emptied, and holds a  *)
(* part of its content until it is written and fsynced, which makes the      *)
(* whole content durable wherever the name is.                               *)

NextToWrite == First(todo, IF op.kind = "write" THEN WriteRank ELSE RotateRank)

StageOpen(f) ==
    /\ pc = "stage" /\ disk.dir
    /\ f \in NextToWrite
    /\ Change([disk EXCEPT !.new[f] = Torn])
    /\ Goto("writing")
    /\ UNCHANGED <<up, mem>> /\ UnchangedUpdate

StageSync(f) ==
    /\ pc = "writing"
    /\ f \in NextToWrite
    /\ disk' = [disk EXCEPT !.new[f] = goal[f]]
    /\ past' = (past \ {disk}) \cup {disk'}
    /\ todo' = todo \ {f}
    /\ Goto("stage")
    /\ UNCHANGED <<up, mem, base, goal, phase, stray>>

\* Opening or closing a file fails, opening always when the directory is gone:
\* recoverPendingRotation then deletes the .new files that exist.
StageFail ==
    /\ pc = "stage"
    /\ "write" \in Faults \/ (todo # {} /\ ~disk.dir)
    /\ Goto("cleanup")
    /\ UNCHANGED <<up, mem>> /\ UnchangedDir /\ UnchangedUpdate

\* Writing or fsyncing a file fails: it is deleted before the others are, if it can be.
WriteFail(f) ==
    /\ pc = "writing"
    /\ f \in NextToWrite
    /\ {"write", "sync"} \cap Faults # {}
    /\ \/ Change([disk EXCEPT !.new[f] = Absent])
       \/ "unlink" \in Faults /\ UnchangedDir
    /\ Goto("cleanup")
    /\ UNCHANGED <<up, mem>> /\ UnchangedUpdate

CleanupDone ==
    /\ pc = "cleanup" /\ Staged(disk) \subseteq left
    /\ Return("error")
    /\ UNCHANGED <<up, mem>> /\ UnchangedDir

-----------------------------------------------------------------------------
(* Phase 2, commitPendingRotation *)

\* Mutant: the renames are done without a commit marker.
CommitBeginUnmarked ==
    /\ pc = "stage" /\ todo = {}
    /\ FsyncDir
    /\ phase' = "committing"
    /\ Goto("rename")
    /\ UNCHANGED <<up, mem, base, goal, todo, stray>>

CommitBegin ==
    /\ pc = "stage" /\ todo = {}
    /\ FsyncDir
    /\ phase' = "committing"
    /\ Goto("mark")
    /\ UNCHANGED <<up, mem, base, goal, todo, stray>>

CreateMarker ==
    /\ pc = "mark"
    /\ Change([disk EXCEPT !.marker = TRUE])
    /\ Goto("marked")
    /\ UNCHANGED <<up, mem>> /\ UnchangedUpdate

CommitPoint ==
    /\ pc = "marked"
    /\ FsyncDir
    /\ Goto("rename")
    /\ UNCHANGED <<up, mem>> /\ UnchangedUpdate

CommitRename(f) ==
    /\ pc = "rename"
    /\ f \in First(Staged(disk), NameRank)
    /\ Rename(f)
    /\ UNCHANGED <<up, pc, op, left, mem, result>> /\ UnchangedUpdate

CommitRenamed ==
    /\ pc = "rename" /\ NoNew(disk)
    /\ FsyncDir
    /\ Goto("unmark")
    /\ UNCHANGED <<up, mem>> /\ UnchangedUpdate

\* The marker is removed and the operation returns; this removal is not fsynced.
RemoveMarker ==
    /\ pc = "unmark"
    /\ Change([disk EXCEPT !.marker = FALSE])
    /\ \/ op.kind = "write" /\ mem' = op.arg[ConnSettings]
       \/ op.kind = "rotate" /\ mem' = IF mem = Absent THEN Absent ELSE op.arg.conn
    /\ Finish("ok")
    /\ phase' = "acked"
    /\ UNCHANGED <<up, base, goal, todo, stray>>

\* A call of the commit fails. The marker may exist by then: the next operation
\* of the store finishes the commit.
CommitFail ==
    /\ \/ pc = "stage" /\ todo = {} /\ "sync" \in Faults
       \/ pc = "mark" /\ "write" \in Faults
       \/ pc = "marked" /\ "sync" \in Faults
       \/ pc = "rename" /\ (IF NoNew(disk) THEN "sync" \in Faults ELSE "rename" \in Faults)
       \/ pc = "unmark" /\ "unlink" \in Faults
    /\ Return("error")
    /\ UNCHANGED <<up, mem>> /\ UnchangedDir

-----------------------------------------------------------------------------
(* Deprovision: os.RemoveAll of the directory. It goes on when a file cannot *)
(* be deleted, and then returns the error and leaves the directory.          *)

Existing(i) == {f \in File : i.final[f] # Absent \/ i.new[f] # Absent}

WipeFile(f) ==
    /\ pc = "wipe"
    /\ f \in First(Existing(disk) \ left, WipeRank)
    /\ \/ disk.final[f] # Absent /\ Change([disk EXCEPT !.final[f] = Absent]) /\ UNCHANGED left
       \/ disk.new[f] # Absent /\ Change([disk EXCEPT !.new[f] = Absent]) /\ UNCHANGED left
       \/ "unlink" \in Faults /\ UnchangedDir /\ left' = left \cup {f}
    /\ UNCHANGED <<up, pc, op, mem, result>> /\ UnchangedUpdate

WipeDir ==
    /\ pc = "wipe"
    /\ Existing(disk) = {}
    /\ Change([disk EXCEPT !.dir = FALSE])
    /\ Return("ok")
    /\ UNCHANGED <<up, mem>>

WipeFail ==
    /\ pc = "wipe" /\ "unlink" \in Faults
    /\ Existing(disk) \subseteq left
    /\ Return("error")
    /\ UNCHANGED <<up, mem>> /\ UnchangedDir

-----------------------------------------------------------------------------
(* The environment *)

Die ==
    /\ up' = FALSE
    /\ mem' = Absent
    /\ pc' = "idle"
    /\ op' = NoOp
    /\ todo' = {}
    /\ left' = {}
    /\ result' = "none"
    /\ UNCHANGED <<base, goal, phase, stray>>

Crash ==
    /\ up \/ pc # "idle"
    /\ Die
    /\ UnchangedDir

PowerLoss ==
    /\ \E i \in Survivors : disk' = i /\ past' = {i}
    /\ Die

-----------------------------------------------------------------------------
Begin ==
    \/ \E kind \in {"open", "deprovision"} : Open(kind)
    \/ ReadMissing
    \/ Read
    \/ \E b \in Bundles : Write(b)
    \/ \E p \in Payloads : Rotate(p)

Recover ==
    \/ \E f \in File : RecoverRename(f) \/ Discard(f)
    \/ RecoverUnmark
    \/ RecoverSync
    \/ RecoverFail

AfterRecovery ==
    \/ FinishOpen
    \/ FinishRead
    \/ PlanWrite
    \/ PlanRotate
    \/ NothingToRotate
    \/ StartWipe

Stage ==
    \/ \E f \in File : StageOpen(f) \/ StageSync(f) \/ WriteFail(f)
    \/ StageFail
    \/ CleanupDone

Commit ==
    \/ CommitBegin
    \/ CreateMarker
    \/ CommitPoint
    \/ \E f \in File : CommitRename(f)
    \/ CommitRenamed
    \/ RemoveMarker
    \/ CommitFail

Deprovision ==
    \/ \E f \in File : WipeFile(f)
    \/ WipeDir
    \/ WipeFail

Next ==
    \/ Begin
    \/ Recover
    \/ AfterRecovery
    \/ Stage
    \/ Commit
    \/ Deprovision
    \/ Crash
    \/ PowerLoss

Spec == Init /\ [][Next]_vars

-----------------------------------------------------------------------------
TypeOK ==
    /\ disk \in Image
    /\ past \subseteq Image
    /\ up \in BOOLEAN
    /\ pc \in Steps
    /\ op \in Operations
    /\ {base, goal} \subseteq Creds
    /\ phase \in {"none", "committing", "acked"}
    /\ {todo, left, stray} \subseteq SUBSET File
    /\ mem \in Content \cup {Absent}
    /\ result \in Results

\* Two sets of credentials are the same but for the files that a failed
\* deletion left for the last commit to take.
Agree(c, d) == \A f \in File \ stray : c[f] = d[f]

(* From the first fsync of a WriteToFilesystem or RotateCerts on, whatever  *)
(* a crash or a power loss leaves of the directory is recovered to the      *)
(* credentials before the update or to those after it, never to a mixture:  *)
(* "fully-old or fully-new". The exception is a .new file that an earlier   *)
(* recovery failed to delete: the commit renames it with the others.        *)
AllOrNothing ==
    phase # "none" => \A i \in past : \E c \in {base, goal} : Agree(Recovered(i), c)

(* What the comments of the two-phase commit say, without the exception: it *)
(* does not hold, see CredentialStoreLeftover.cfg.                          *)
FullyOldOrNew ==
    phase # "none" => \A i \in past : Recovered(i) \in {base, goal}

(* Once WriteToFilesystem or RotateCerts has returned success, no crash or  *)
(* power loss takes the new credentials away again, although the last       *)
(* directory operation of the commit, removing the marker, is not fsynced.  *)
(* The exception is that of AllOrNothing.                                   *)
AckedSurvives ==
    phase = "acked" => \A i \in past : Agree(Recovered(i), goal)

(* The connection settings the daemon works with in memory are those on     *)
(* disk once an update has succeeded.                                       *)
MemoryMatchesDisk ==
    phase = "acked" /\ up /\ pc = "idle" /\ mem # Absent => mem = disk.final[ConnSettings]

-----------------------------------------------------------------------------
(* The inductive invariant: what the properties above rest on.              *)

\* Where the marker can be, and when every .new file is gone.
StepMarker ==
    /\ pc \in {"stage", "writing", "cleanup", "mark", "unmarked", "wipe"} => ~disk.marker
    /\ pc \in {"marked", "rename", "unmark"} => disk.marker
    /\ pc \in {"unmark", "unmarked"} => NoNew(disk)

\* During phase 1 the .new files and the files that need no change make up the goal.
StagedSoFar ==
    pc \in {"stage", "writing", "mark"} =>
        /\ disk.final = base
        /\ \A f \in File \ (todo \cup stray) :
              goal[f] = IF disk.new[f] = Absent THEN disk.final[f] ELSE disk.new[f]
        /\ \A f \in todo : goal[f] # Absent

\* How far the update is, at each step of phase 2.
StepPhase ==
    /\ pc \in {"stage", "writing", "cleanup", "wipe"} => phase = "none"
    /\ pc \in {"mark", "marked", "rename", "unmark"} => phase = "committing" /\ todo = {}
    /\ pc \in {"marked", "rename", "unmark"} => Agree(Recovered(disk), goal)
    /\ pc = "unmark" => past = {disk}

\* Only a deletion that may fail leaves a file behind.
LeftByFailure ==
    "unlink" \notin Faults => left = {} /\ stray = {}

\* Since an update was acknowledged only the marker, or the directory, has come or gone.
AckedSettled ==
    phase = "acked" => \A i \in past : NoNew(i) /\ Agree(i.final, goal)

IInv ==
    /\ TypeOK
    /\ disk \in past
    /\ StepMarker
    /\ StagedSoFar
    /\ StepPhase
    /\ LeftByFailure
    /\ AckedSettled

-----------------------------------------------------------------------------
\* The detailed store implements the abstract one: what the next recovery will
\* make of the directory changes as a whole (see AtomicCredentials).
Atomic == INSTANCE AtomicCredentials
    WITH cred <- Recovered(disk), undo <- {Recovered(i) : i \in past},
         MayLeave <- "unlink" \in Faults

AtomicSpec == Atomic!Spec
=============================================================================
