----------------------- MODULE CredentialStoreProofs -----------------------
(***************************************************************************)
(* Proofs about CredentialStore, for every set of files and contents, with *)
(* any of the file system calls of Faults failing. What needs a file       *)
(* system that orders its directory operations has OrderedMetadata as its  *)
(* hypothesis.                                                             *)
(***************************************************************************)
EXTENDS CredentialStore, TLAPS

-----------------------------------------------------------------------------
(* How the changes an operation makes to the directory look to a recovery.  *)

LEMMA RecoveredType ==
    ASSUME NEW i \in Image
    PROVE  Recovered(i) \in Creds
  BY DEF Recovered, Image, Creds

\* Without the marker a recovery keeps the files under their final names.
LEMMA RecoveredUnmarked ==
    ASSUME NEW i \in Image, ~i.marker
    PROVE  Recovered(i) = i.final
  BY DEF Recovered, Image, Creds

LEMMA RecoveredNoNew ==
    ASSUME NEW i \in Image, NoNew(i)
    PROVE  Recovered(i) = i.final
  BY DEF Recovered, Image, Creds, NoNew

LEMMA NewChange ==
    ASSUME NEW i \in Image, NEW f \in File, NEW x \in Content \cup {Absent, Torn}
    PROVE  LET j == [i EXCEPT !.new[f] = x]
           IN  /\ j \in Image
               /\ j.final = i.final /\ j.marker = i.marker /\ j.dir = i.dir
               /\ \A g \in File : j.new[g] = IF g = f THEN x ELSE i.new[g]
               /\ ~i.marker => Recovered(j) = Recovered(i)
  BY DEF Recovered, Image, Creds

\* Moving a .new file to its final name changes nothing for a recovery, once
\* the marker exists.
LEMMA RenameChange ==
    ASSUME NEW i \in Image, NEW f \in File, i.new[f] # Absent
    PROVE  LET j == [i EXCEPT !.final[f] = i.new[f], !.new[f] = Absent]
           IN  /\ j \in Image
               /\ j.marker = i.marker /\ j.dir = i.dir
               /\ \A g \in File : j.new[g] = IF g = f THEN Absent ELSE i.new[g]
               /\ i.marker => Recovered(j) = Recovered(i)
  BY DEF Recovered, Image, Creds

LEMMA MarkerChange ==
    ASSUME NEW i \in Image, NEW m \in BOOLEAN
    PROVE  LET j == [i EXCEPT !.marker = m]
           IN  /\ j \in Image
               /\ j.final = i.final /\ j.new = i.new /\ j.marker = m /\ j.dir = i.dir
               /\ NoNew(i) => Recovered(j) = Recovered(i)
  BY DEF Recovered, Image, NoNew

LEMMA DirChange ==
    ASSUME NEW i \in Image, NEW d \in BOOLEAN
    PROVE  LET j == [i EXCEPT !.dir = d]
           IN  /\ j \in Image
               /\ j.final = i.final /\ j.new = i.new /\ j.marker = i.marker
               /\ Recovered(j) = Recovered(i)
  BY DEF Recovered, Image

LEMMA FinalChange ==
    ASSUME NEW i \in Image, NEW f \in File, ~i.marker
    PROVE  LET j == [i EXCEPT !.final[f] = Absent]
           IN  /\ j \in Image
               /\ j.new = i.new /\ j.marker = i.marker /\ j.dir = i.dir
               /\ Recovered(j) = [Recovered(i) EXCEPT ![f] = Absent]
  BY DEF Recovered, Image, Creds

\* The argument of an operation is one the callers can give.
LEMMA Arguments ==
    ASSUME op \in Operations
    PROVE  /\ op.kind = "write" => op.arg \in Bundles /\ op.arg \in [File -> Content]
           /\ op.kind = "rotate" =>
                /\ op.arg \in Payloads
                /\ op.arg \in [cert : Content, ca : Content \cup {Absent}, conn : Content]
  BY InputAssumption DEF Operations

LEMMA RotationType ==
    ASSUME NEW c \in Creds, NEW p \in Payloads, NEW b \in BOOLEAN
    PROVE  Rotation(c, p, b) \in Creds
  BY InputAssumption DEF Rotation, Creds

\* A power loss leaves a directory, whatever it mixes.
LEMMA SurvivorsType ==
    ASSUME TypeOK, NEW i \in Survivors
    PROVE  i \in Image
  <1>1. CASE i \in past
    BY <1>1 DEF TypeOK
  <1>2. CASE i \in Mixtures
    <2>1. PICK c \in [File -> past], m \in past :
              i = [final  |-> [f \in File |-> c[f].final[f]],
                   new    |-> [f \in File |-> c[f].new[f]],
                   marker |-> m.marker,
                   dir    |-> disk.dir]
      BY <1>2 DEF Mixtures
    <2>2. m \in Image /\ disk \in Image /\ \A f \in File : c[f] \in Image
      BY DEF TypeOK
    <2>3. QED
      BY <2>1, <2>2 DEF Image, Creds
  <1>3. QED
    BY <1>1, <1>2 DEF Survivors

-----------------------------------------------------------------------------
(* What each group of actions does to the directory and to the update.      *)

\* The directory changes in a way that a recovery does not see.
Quiet ==
    /\ disk' \in Image
    /\ Recovered(disk') = Recovered(disk)
    /\ \/ past' \in {{disk}, {disk'}, {disk, disk'}}
       \/ past' = past \cup {disk'}
       \/ past' = (past \ {disk}) \cup {disk'}

SameUpdate == UNCHANGED <<base, goal, phase, stray>>

LEMMA BeginEffect ==
    ASSUME IInv, Begin
    PROVE  /\ Quiet /\ SameUpdate /\ todo' = todo
           /\ disk'.final = disk.final /\ disk'.new = disk.new /\ disk'.marker = disk.marker
           /\ past' = past \cup {disk'}
           /\ pc' \in {"recover", "idle"} /\ left' = {}
           /\ op' \in Operations /\ result' \in Results /\ UNCHANGED <<up, mem>>
  <1>1. disk \in Image /\ disk \in past
    BY DEF IInv, TypeOK
  <1>2. /\ SameUpdate /\ todo' = todo /\ pc' \in {"recover", "idle"} /\ left' = {}
        /\ op' \in Operations /\ result' \in Results /\ UNCHANGED <<up, mem>>
    BY DEF Begin, Open, ReadMissing, Read, Write, Rotate, Start, Finish, UnchangedUpdate,
           SameUpdate, Operations, NoOp, Results
  <1>3. \/ disk' = disk /\ past' = past
        \/ disk' = [disk EXCEPT !.dir = TRUE] /\ past' = past \cup {disk'}
    BY DEF Begin, Open, ReadMissing, Read, Write, Rotate, Change, UnchangedDir
  <1>4. CASE disk' = disk /\ past' = past
    BY <1>1, <1>2, <1>4 DEF Quiet
  <1>5. CASE disk' = [disk EXCEPT !.dir = TRUE] /\ past' = past \cup {disk'}
    BY <1>1, <1>2, <1>5, DirChange DEF Quiet
  <1>6. QED
    BY <1>3, <1>4, <1>5

LEMMA RecoverEffect ==
    ASSUME IInv, Recover
    PROVE  /\ Quiet /\ SameUpdate /\ todo' \subseteq todo
           /\ phase = "acked" => disk'.final = disk.final /\ disk'.new = disk.new
           /\ disk'.marker => disk.marker
           /\ disk' \in past' /\ past' \subseteq past \cup {disk'}
           /\ \/ pc' \in {"recover", "idle"}
              \/ pc' = "unmarked" /\ ~disk'.marker /\ NoNew(disk')
              \/ pc = "cleanup" /\ pc' = "cleanup" /\ ~disk'.marker
           /\ op' \in Operations /\ result' \in Results /\ UNCHANGED <<up, mem>>
  <1> USE DEF IInv, TypeOK
  <1>1. /\ SameUpdate /\ UNCHANGED <<up, mem>> /\ todo' \subseteq todo
        /\ op' \in Operations /\ result' \in Results
    <2>1. /\ SameUpdate /\ UNCHANGED <<up, mem>> /\ todo' \in {todo, {}}
          /\ op' \in {op, NoOp} /\ result' \in {result, "error"}
      BY DEF Recover, RecoverRename, Discard, RecoverUnmark, RecoverSync, RecoverFail,
             UnchangedUpdate, SameUpdate, Return, Goto, Finish
    <2>2. NoOp \in Operations /\ "error" \in Results
      BY DEF NoOp, Operations, Results
    <2>3. QED
      BY <2>1, <2>2
  <1>2. ASSUME NEW f \in File, RecoverRename(f)
        PROVE  /\ Quiet /\ phase # "acked" /\ disk'.marker = disk.marker
               /\ past' = past \cup {disk'} /\ pc' = "recover"
    <2>1. /\ disk.marker /\ disk.new[f] # Absent /\ pc' = "recover"
          /\ disk' = [disk EXCEPT !.final[f] = disk.new[f], !.new[f] = Absent]
          /\ past' = past \cup {disk'}
      BY <1>2 DEF RecoverRename, First, Staged, Rename, Change
    <2>2. phase # "acked"
      BY <2>1 DEF AckedSettled, NoNew
    <2>3. QED
      BY <2>1, <2>2, RenameChange DEF Quiet
  <1>3. ASSUME NEW f \in File, Discard(f)
        PROVE  /\ Quiet /\ phase # "acked" /\ ~disk'.marker
               /\ past' = past \cup {disk'} /\ pc' = pc /\ pc \in {"recover", "cleanup"}
    <2>1. /\ ~disk.marker /\ disk.new[f] # Absent /\ pc' = pc /\ pc \in {"recover", "cleanup"}
          /\ \/ disk' = [disk EXCEPT !.new[f] = Absent] /\ past' = past \cup {disk'}
             \/ disk' = disk /\ past' = past
      BY <1>3 DEF Discard, First, Staged, Change, UnchangedDir
    <2>2. phase # "acked"
      BY <2>1 DEF AckedSettled, NoNew
    <2>3. CASE disk' = disk /\ past' = past
      BY <2>1, <2>2, <2>3 DEF Quiet
    <2>4. CASE disk' = [disk EXCEPT !.new[f] = Absent] /\ past' = past \cup {disk'}
      BY <2>1, <2>2, <2>4, NewChange DEF Quiet
    <2>5. QED
      BY <2>1, <2>3, <2>4
  <1>4. ASSUME RecoverUnmark
        PROVE  /\ Quiet /\ disk'.final = disk.final /\ disk'.new = disk.new /\ ~disk'.marker
               /\ NoNew(disk') /\ pc' = "unmarked"
               /\ disk' \in past' /\ past' \subseteq past \cup {disk'}
    <2>1. /\ NoNew(disk) /\ pc' = "unmarked" /\ disk' = [disk EXCEPT !.marker = FALSE]
          /\ past' = {disk, disk'} \/ past' = past \cup {disk'}
      BY <1>4 DEF RecoverUnmark, Goto
    <2>2. QED
      BY <2>1, MarkerChange DEF Quiet, NoNew
  <1>5. ASSUME RecoverSync \/ RecoverFail
        PROVE  /\ Quiet /\ disk' = disk /\ pc' \in {"recover", "idle"}
               /\ disk' \in past' /\ past' \subseteq past
    BY <1>5 DEF RecoverSync, RecoverFail, FsyncDir, UnchangedDir, Goto, Return, Finish, Quiet
  <1>6. \/ \E f \in File : RecoverRename(f) \/ Discard(f)
        \/ RecoverUnmark \/ RecoverSync \/ RecoverFail
    BY DEF Recover
  <1>7. QED
    BY <1>1, <1>2, <1>3, <1>4, <1>5, <1>6

\* Connection settings that do not parse do not get into memory.
LEMMA ReadLoads ==
    ASSUME FinishRead
    PROVE  mem' = mem \/ (mem' = disk.final[ConnSettings] /\ disk.final[ConnSettings] # Torn)
  <1>1. CASE disk.final[CaCert] = Absent
    BY <1>1 DEF FinishRead
  <1>2. CASE disk.final[ConnSettings] = Torn
    BY <1>2 DEF FinishRead
  <1>3. CASE disk.final[CaCert] # Absent /\ disk.final[ConnSettings] # Torn
    BY <1>3 DEF FinishRead
  <1>4. QED
    BY <1>1, <1>2, <1>3

LEMMA AfterRecoveryEffect ==
    ASSUME IInv, AfterRecovery
    PROVE  /\ disk' = disk /\ past' = past /\ pc = "recover" /\ ~disk.marker
           /\ Staged(disk) \subseteq left
           /\ op' \in Operations /\ result' \in Results
           /\ up' \in BOOLEAN /\ mem' \in Content \cup {Absent}
           /\ \/ pc' = "idle" /\ SameUpdate /\ todo' = {}
              \/ pc' = "wipe" /\ UNCHANGED <<base, goal, todo, stray>> /\ phase' = "none"
              \/ PlanWrite \/ PlanRotate
  <1> USE DEF IInv, TypeOK
  <1>1. /\ disk' = disk /\ past' = past /\ pc = "recover" /\ ~disk.marker
        /\ Staged(disk) \subseteq left
    BY DEF AfterRecovery, FinishOpen, FinishRead, PlanWrite, PlanRotate, NothingToRotate,
           StartWipe, UnchangedDir, RecoveryDone
  <1>2. op' \in Operations /\ result' \in Results /\ up' \in BOOLEAN
    <2>1. /\ op' \in {op, NoOp} /\ up' \in {up, TRUE}
          /\ result' \in {result, "ok", "error", "nocreds", "unchanged"}
      BY DEF AfterRecovery, FinishOpen, FinishRead, PlanWrite, PlanRotate, NothingToRotate,
             StartWipe, Plan, Return, Finish, Goto
    <2>2. NoOp \in Operations /\ {"ok", "error", "nocreds", "unchanged"} \subseteq Results
      BY DEF NoOp, Operations, Results
    <2>3. QED
      BY <2>1, <2>2
  <1>3. mem' \in Content \cup {Absent}
    <2>1. CASE FinishRead
      <3>1. mem' = mem \/ (mem' = disk.final[ConnSettings] /\ disk.final[ConnSettings] # Torn)
        BY <2>1, ReadLoads
      <3>2. disk.final[ConnSettings] \in Content \cup {Absent, Torn}
        BY FileAssumption DEF Image, Creds
      <3>3. QED
        BY <3>1, <3>2
    <2>2. CASE FinishOpen \/ PlanWrite \/ PlanRotate \/ NothingToRotate \/ StartWipe
      BY <2>2 DEF FinishOpen, PlanWrite, PlanRotate, NothingToRotate, StartWipe
    <2>3. QED
      BY <2>1, <2>2 DEF AfterRecovery
  <1>4. \/ pc' = "idle" /\ SameUpdate /\ todo' = {}
        \/ pc' = "wipe" /\ UNCHANGED <<base, goal, todo, stray>> /\ phase' = "none"
        \/ PlanWrite \/ PlanRotate
    BY DEF AfterRecovery, FinishOpen, FinishRead, NothingToRotate, StartWipe, Return, Finish, Goto,
           SameUpdate
  <1>5. QED
    BY <1>1, <1>2, <1>3, <1>4

\* Phase 1: without the marker, what is written as .new is not seen.
LEMMA StageEffect ==
    ASSUME IInv, Stage
    PROVE  /\ Quiet /\ SameUpdate /\ disk'.final = disk.final /\ ~disk'.marker
           /\ disk' \in past' /\ past' \subseteq past \cup {disk'}
           /\ phase = "none"
           /\ \/ pc' \in {"cleanup", "idle"} /\ todo' \subseteq todo
              \/ /\ pc = "stage" /\ pc' = "writing" /\ todo' = todo
                 /\ \E f \in todo : \A g \in File : g # f => disk'.new[g] = disk.new[g]
              \/ /\ pc = "writing" /\ pc' = "stage"
                 /\ \E f \in todo :
                      /\ todo' = todo \ {f}
                      /\ disk'.new[f] = goal[f]
                      /\ \A g \in File : g # f => disk'.new[g] = disk.new[g]
           /\ op' \in Operations /\ result' \in Results /\ UNCHANGED <<up, mem>>
  <1> USE DEF IInv, TypeOK
  <1>1. /\ SameUpdate /\ UNCHANGED <<up, mem>> /\ op' \in Operations /\ result' \in Results
    <2>1. /\ SameUpdate /\ UNCHANGED <<up, mem>> /\ op' \in {op, NoOp}
          /\ result' \in {result, "error"}
      BY DEF Stage, StageOpen, StageSync, StageFail, WriteFail, CleanupDone, UnchangedUpdate,
             SameUpdate, Goto, Return, Finish
    <2>2. NoOp \in Operations /\ "error" \in Results
      BY DEF NoOp, Operations, Results
    <2>3. QED
      BY <2>1, <2>2
  <1>2. pc \in {"stage", "writing", "cleanup"} /\ ~disk.marker /\ phase = "none"
    BY DEF Stage, StageOpen, StageSync, StageFail, WriteFail, CleanupDone, StepMarker, StepPhase
  <1>3. ASSUME NEW f \in File, StageOpen(f)
        PROVE  /\ Quiet /\ disk'.final = disk.final /\ ~disk'.marker
               /\ past' = past \cup {disk'}
               /\ pc = "stage" /\ pc' = "writing" /\ todo' = todo /\ f \in todo
               /\ \A g \in File : g # f => disk'.new[g] = disk.new[g]
    <2>1. /\ pc = "stage" /\ pc' = "writing" /\ todo' = todo /\ f \in todo
          /\ disk' = [disk EXCEPT !.new[f] = Torn] /\ past' = past \cup {disk'}
      BY <1>3 DEF StageOpen, NextToWrite, First, Change, Goto, UnchangedUpdate
    <2>2. QED
      BY <1>2, <2>1, NewChange DEF Quiet
  <1>4. ASSUME NEW f \in File, StageSync(f)
        PROVE  /\ Quiet /\ disk'.final = disk.final /\ ~disk'.marker
               /\ disk' \in past' /\ past' \subseteq past \cup {disk'}
               /\ pc = "writing" /\ pc' = "stage" /\ todo' = todo \ {f} /\ f \in todo
               /\ disk'.new[f] = goal[f]
               /\ \A g \in File : g # f => disk'.new[g] = disk.new[g]
    <2>1. /\ pc = "writing" /\ pc' = "stage" /\ todo' = todo \ {f} /\ f \in todo
          /\ disk' = [disk EXCEPT !.new[f] = goal[f]] /\ past' = (past \ {disk}) \cup {disk'}
      BY <1>4 DEF StageSync, NextToWrite, First, Goto
    <2>2. goal[f] \in Content \cup {Absent, Torn}
      BY DEF Creds
    <2>3. QED
      BY <1>2, <2>1, <2>2, NewChange DEF Quiet
  <1>5. ASSUME NEW f \in File, WriteFail(f)
        PROVE  /\ Quiet /\ disk'.final = disk.final /\ ~disk'.marker
               /\ past' = past \cup {disk'}
               /\ pc' = "cleanup" /\ todo' = todo
    <2>1. /\ pc' = "cleanup" /\ todo' = todo
          /\ \/ disk' = [disk EXCEPT !.new[f] = Absent] /\ past' = past \cup {disk'}
             \/ disk' = disk /\ past' = past
      BY <1>5 DEF WriteFail, Change, UnchangedDir, Goto, UnchangedUpdate
    <2>2. CASE disk' = disk /\ past' = past
      BY <1>2, <2>1, <2>2 DEF Quiet
    <2>3. CASE disk' = [disk EXCEPT !.new[f] = Absent] /\ past' = past \cup {disk'}
      BY <1>2, <2>1, <2>3, NewChange DEF Quiet
    <2>4. QED
      BY <2>1, <2>2, <2>3
  <1>6. ASSUME StageFail \/ CleanupDone
        PROVE  /\ Quiet /\ disk'.final = disk.final /\ ~disk'.marker
               /\ past' = past \cup {disk'}
               /\ pc' \in {"cleanup", "idle"} /\ todo' \subseteq todo
    <2>1. /\ disk' = disk /\ past' = past /\ todo' \in {todo, {}}
          /\ pc' \in {"cleanup", "idle"}
      BY <1>6 DEF StageFail, CleanupDone, UnchangedDir, UnchangedUpdate, Goto, Return, Finish
    <2>2. QED
      BY <1>2, <2>1 DEF Quiet
  <1>7. \/ \E f \in File : StageOpen(f) \/ StageSync(f) \/ WriteFail(f)
        \/ StageFail \/ CleanupDone
    BY DEF Stage
  <1>8. QED
    BY <1>1, <1>2, <1>3, <1>4, <1>5, <1>6, <1>7

\* Once every file is staged, the marker turns what a recovery finds into the goal.
LEMMA MarkerInstalls ==
    ASSUME IInv, pc = "mark"
    PROVE  LET j == [disk EXCEPT !.marker = TRUE]
           IN  /\ j \in Image /\ j.new = disk.new /\ j.final = disk.final /\ j.marker
               /\ Agree(Recovered(j), goal)
  <1> DEFINE j == [disk EXCEPT !.marker = TRUE]
  <1>1. disk \in Image
    BY DEF IInv, TypeOK
  <1>2. j \in Image /\ j.final = disk.final /\ j.new = disk.new /\ j.marker
    BY <1>1, MarkerChange
  <1>3. \A f \in File \ stray :
            goal[f] = IF disk.new[f] = Absent THEN disk.final[f] ELSE disk.new[f]
    BY DEF IInv, StagedSoFar, StepPhase
  <1> HIDE DEF j
  <1>4. Agree(Recovered(j), goal)
    BY <1>2, <1>3 DEF Recovered, Agree
  <1>5. QED
    BY <1>2, <1>4 DEF j

\* Phase 2: only the creation of the marker changes what a recovery finds.
LEMMA CommitEffect ==
    ASSUME IInv, Commit
    PROVE  /\ disk' \in Image /\ disk' \in past' /\ past' \subseteq past \cup {disk'}
           /\ UNCHANGED <<base, goal, stray, up>> /\ todo' \subseteq todo
           /\ op' \in Operations /\ result' \in Results /\ mem' \in Content \cup {Absent}
           /\ \/ /\ pc = "stage" /\ todo = {} /\ pc' = "mark" /\ phase' = "committing"
                 /\ disk' = disk /\ past' = {disk} /\ Quiet
              \/ /\ pc = "mark" /\ pc' = "marked" /\ phase' = phase
                 /\ disk'.marker /\ disk'.final = disk.final /\ disk'.new = disk.new
                 /\ past' = past \cup {disk'} /\ Agree(Recovered(disk'), goal)
              \/ /\ pc \in {"marked", "rename"} /\ pc' \in {"rename", "unmark"} /\ phase' = phase
                 /\ disk'.marker /\ Quiet
                 /\ pc' = "unmark" => past' = {disk'} /\ NoNew(disk')
              \/ /\ pc = "unmark" /\ pc' = "idle" /\ phase' = "acked" /\ Quiet
                 /\ NoNew(disk') /\ disk'.final = disk.final /\ disk'.new = disk.new
                 /\ past' = {disk, disk'}
              \/ /\ pc' = "idle" /\ phase' = phase /\ disk' = disk /\ past' = past /\ Quiet
  <1> USE DEF IInv, TypeOK
  <1>1. UNCHANGED <<base, goal, stray, up>> /\ todo' \subseteq todo
    BY DEF Commit, CommitBegin, CreateMarker, CommitPoint, CommitRename, CommitRenamed,
           RemoveMarker, CommitFail, UnchangedUpdate, Return
  <1>2. op' \in Operations /\ result' \in Results
    <2>1. op' \in {op, NoOp} /\ result' \in {result, "ok", "error"}
      BY DEF Commit, CommitBegin, CreateMarker, CommitPoint, CommitRename, CommitRenamed,
             RemoveMarker, CommitFail, Goto, Return, Finish
    <2>2. NoOp \in Operations /\ {"ok", "error"} \subseteq Results
      BY DEF NoOp, Operations, Results
    <2>3. QED
      BY <2>1, <2>2
  <1>3. mem' \in Content \cup {Absent}
    <2>1. CASE RemoveMarker
      <3>1. CASE op.kind = "write" /\ mem' = op.arg[ConnSettings]
        BY <3>1, Arguments, FileAssumption
      <3>2. CASE op.kind = "rotate" /\ mem' = IF mem = Absent THEN Absent ELSE op.arg.conn
        BY <3>2, Arguments
      <3>3. QED
        BY <2>1, <3>1, <3>2 DEF RemoveMarker
    <2>2. CASE ~RemoveMarker
      BY <2>2 DEF Commit, CommitBegin, CreateMarker, CommitPoint, CommitRename, CommitRenamed,
                  CommitFail
    <2>3. QED
      BY <2>1, <2>2
  <1>4. ASSUME CommitBegin
        PROVE  /\ disk' = disk /\ past' = {disk} /\ Quiet
               /\ pc = "stage" /\ todo = {} /\ pc' = "mark" /\ phase' = "committing"
    BY <1>4 DEF CommitBegin, FsyncDir, Goto, Quiet
  <1>5. ASSUME CreateMarker
        PROVE  /\ pc = "mark" /\ pc' = "marked" /\ phase' = phase
               /\ disk' \in Image /\ disk'.marker
               /\ disk'.final = disk.final /\ disk'.new = disk.new
               /\ past' = past \cup {disk'} /\ Agree(Recovered(disk'), goal)
    <2>1. /\ pc = "mark" /\ pc' = "marked" /\ phase' = phase
          /\ disk' = [disk EXCEPT !.marker = TRUE] /\ past' = past \cup {disk'}
      BY <1>5 DEF CreateMarker, Change, Goto, UnchangedUpdate
    <2>2. QED
      BY <2>1, MarkerInstalls
  <1>6. ASSUME CommitPoint \/ CommitRenamed
        PROVE  /\ pc \in {"marked", "rename"} /\ pc' \in {"rename", "unmark"} /\ phase' = phase
               /\ disk' = disk /\ past' = {disk} /\ Quiet /\ disk'.marker
               /\ pc' = "unmark" => NoNew(disk')
    BY <1>6 DEF CommitPoint, CommitRenamed, FsyncDir, Goto, UnchangedUpdate, Quiet, StepMarker
  <1>7. ASSUME NEW f \in File, CommitRename(f)
        PROVE  /\ pc = "rename" /\ pc' = "rename" /\ phase' = phase
               /\ disk'.marker /\ Quiet /\ past' = past \cup {disk'}
    <2>1. /\ pc = "rename" /\ pc' = "rename" /\ phase' = phase /\ disk.new[f] # Absent
          /\ disk' = [disk EXCEPT !.final[f] = disk.new[f], !.new[f] = Absent]
          /\ past' = past \cup {disk'}
      BY <1>7 DEF CommitRename, First, Staged, Rename, Change, UnchangedUpdate
    <2>2. disk.marker
      BY <2>1 DEF StepMarker
    <2>3. /\ disk' \in Image /\ disk'.marker
          /\ Recovered(disk') = Recovered(disk)
      <3>1. disk \in Image
        OBVIOUS
      <3> DEFINE j == [disk EXCEPT !.final[f] = disk.new[f], !.new[f] = Absent]
      <3>2. /\ j \in Image /\ j.marker = disk.marker
            /\ disk.marker => Recovered(j) = Recovered(disk)
        BY <2>1, <3>1, RenameChange
      <3>3. disk' = j
        BY <2>1
      <3> HIDE DEF j
      <3>4. QED
        BY <2>2, <3>2, <3>3
    <2>4. QED
      BY <2>1, <2>3 DEF Quiet
  <1>8. ASSUME RemoveMarker
        PROVE  /\ pc = "unmark" /\ pc' = "idle" /\ phase' = "acked" /\ Quiet
               /\ NoNew(disk') /\ disk'.final = disk.final /\ disk'.new = disk.new
               /\ past' = {disk, disk'}
    <2>1. /\ pc = "unmark" /\ pc' = "idle" /\ phase' = "acked"
          /\ disk' = [disk EXCEPT !.marker = FALSE] /\ past' = past \cup {disk'}
      BY <1>8 DEF RemoveMarker, Finish, Change
    <2>2. NoNew(disk) /\ past = {disk}
      BY <2>1 DEF StepMarker, StepPhase
    <2>3. QED
      BY <2>1, <2>2, MarkerChange DEF Quiet, NoNew
  <1>9. ASSUME CommitFail
        PROVE  pc' = "idle" /\ phase' = phase /\ disk' = disk /\ past' = past /\ Quiet
    BY <1>9 DEF CommitFail, UnchangedDir, Return, Finish, Quiet
  <1>10. \/ CommitBegin \/ CreateMarker \/ CommitPoint
         \/ \E f \in File : CommitRename(f)
         \/ CommitRenamed \/ RemoveMarker \/ CommitFail
    BY DEF Commit
  <1>11. /\ disk' \in Image /\ disk' \in past' /\ past' \subseteq past \cup {disk'}
    BY <1>4, <1>5, <1>6, <1>7, <1>8, <1>9, <1>10 DEF Quiet
  <1>12. QED
    BY <1>1, <1>2, <1>3, <1>4, <1>5, <1>6, <1>7, <1>8, <1>9, <1>10, <1>11

\* os.RemoveAll deletes one file after another.
LEMMA DeprovisionEffect ==
    ASSUME IInv, Deprovision
    PROVE  /\ disk' \in Image /\ past' = past \cup {disk'} /\ SameUpdate
           /\ phase = "none" /\ pc' \in {"wipe", "idle"} /\ ~disk'.marker /\ todo' \subseteq todo
           /\ op' \in Operations /\ result' \in Results /\ UNCHANGED <<up, mem>>
           /\ \/ Quiet
              \/ \E f \in File : Recovered(disk') = [Recovered(disk) EXCEPT ![f] = Absent]
  <1> USE DEF IInv, TypeOK
  <1>1. /\ SameUpdate /\ UNCHANGED <<up, mem>> /\ todo' \subseteq todo
        /\ pc' \in {"wipe", "idle"} /\ op' \in Operations /\ result' \in Results
    <2>1. /\ SameUpdate /\ UNCHANGED <<up, mem>> /\ todo' \in {todo, {}}
          /\ pc' \in {"wipe", "idle"}
          /\ op' \in {op, NoOp} /\ result' \in {result, "ok", "error"}
      BY DEF Deprovision, WipeFile, WipeDir, WipeFail, UnchangedUpdate, SameUpdate, Return, Finish
    <2>2. NoOp \in Operations /\ {"ok", "error"} \subseteq Results
      BY DEF NoOp, Operations, Results
    <2>3. QED
      BY <2>1, <2>2
  <1>2. pc = "wipe" /\ ~disk.marker /\ phase = "none"
    BY DEF Deprovision, WipeFile, WipeDir, WipeFail, StepMarker, StepPhase
  <1>3. ASSUME disk' = disk, past' = past
        PROVE  disk' \in Image /\ past' = past \cup {disk'} /\ ~disk'.marker /\ Quiet
    BY <1>2, <1>3 DEF Quiet
  <1>4. ASSUME NEW f \in File, WipeFile(f)
        PROVE  /\ disk' \in Image /\ past' = past \cup {disk'} /\ ~disk'.marker
               /\ Quiet \/ Recovered(disk') = [Recovered(disk) EXCEPT ![f] = Absent]
    <2>1. CASE disk' = [disk EXCEPT !.final[f] = Absent] /\ past' = past \cup {disk'}
      BY <1>2, <2>1, FinalChange
    <2>2. CASE disk' = [disk EXCEPT !.new[f] = Absent] /\ past' = past \cup {disk'}
      BY <1>2, <2>2, NewChange DEF Quiet
    <2>3. QED
      BY <1>3, <1>4, <2>1, <2>2 DEF WipeFile, Change, UnchangedDir
  <1>5. ASSUME WipeDir
        PROVE  disk' \in Image /\ past' = past \cup {disk'} /\ ~disk'.marker /\ Quiet
    <2>1. disk' = [disk EXCEPT !.dir = FALSE] /\ past' = past \cup {disk'}
      BY <1>5 DEF WipeDir, Change
    <2>2. QED
      BY <1>2, <2>1, DirChange DEF Quiet
  <1>6. ASSUME WipeFail
        PROVE  disk' \in Image /\ past' = past \cup {disk'} /\ ~disk'.marker /\ Quiet
    BY <1>3, <1>6 DEF WipeFail, UnchangedDir
  <1>7. (\E f \in File : WipeFile(f)) \/ WipeDir \/ WipeFail
    BY DEF Deprovision
  <1>8. /\ disk' \in Image /\ past' = past \cup {disk'} /\ ~disk'.marker
        /\ \/ Quiet
           \/ \E f \in File : Recovered(disk') = [Recovered(disk) EXCEPT ![f] = Absent]
    BY <1>4, <1>5, <1>6, <1>7
  <1>9. QED
    BY <1>1, <1>2, <1>8

\* A crash keeps the directory; a power loss takes it back to what it was at
\* some moment since the last fsync, or to a mixture of such moments.
LEMMA DieEffect ==
    ASSUME IInv, Crash \/ PowerLoss
    PROVE  /\ disk' \in Image /\ disk' \in past'
           /\ SameUpdate /\ pc' = "idle" /\ todo' = {} /\ op' \in Operations
           /\ result' \in Results /\ up' \in BOOLEAN /\ mem' \in Content \cup {Absent}
           /\ \/ disk' = disk /\ past' = past
              \/ disk' \in Survivors /\ past' = {disk'}
  <1>1. /\ SameUpdate /\ pc' = "idle" /\ todo' = {} /\ op' \in Operations
        /\ result' \in Results /\ up' \in BOOLEAN /\ mem' \in Content \cup {Absent}
    <2>1. Die
      BY DEF Crash, PowerLoss
    <2>2. NoOp \in Operations /\ "none" \in Results
      BY DEF NoOp, Operations, Results
    <2>3. QED
      BY <2>1, <2>2 DEF Die, SameUpdate
  <1>2. \/ disk' = disk /\ past' = past
        \/ disk' \in Survivors /\ past' = {disk'}
    BY DEF Crash, PowerLoss, UnchangedDir
  <1>3. disk' \in Image
    BY <1>2, SurvivorsType DEF IInv, TypeOK
  <1>4. QED
    BY <1>1, <1>2, <1>3 DEF IInv

-----------------------------------------------------------------------------
(* The store starts with an empty directory. *)
LEMMA InitIInv == Init => IInv
  <1> SUFFICES ASSUME Init PROVE IInv
    OBVIOUS
  <1>1. NoDir \in Image
    BY DEF NoDir, NoCreds, Image, Creds
  <1>2. NoCreds \in Creds /\ NoOp \in Operations
    BY DEF NoCreds, Creds, NoOp, Operations
  <1>3. TypeOK
    BY <1>1, <1>2 DEF Init, TypeOK, Steps, Results
  <1>4. QED
    BY <1>3 DEF Init, IInv, StepMarker, StagedSoFar, StepPhase, LeftByFailure, AckedSettled, NoDir

-----------------------------------------------------------------------------
(* Every step keeps the invariant. First what no step sets out of line:     *)
(* what was left behind, and what an acknowledged update rests on.          *)

LEMMA LeftStep ==
    ASSUME TypeOK, LeftByFailure, Next
    PROVE  LeftByFailure' /\ left' \in SUBSET File
  <1>1. CASE Begin
    BY <1>1 DEF Begin, Open, ReadMissing, Read, Write, Rotate, Start, Finish, UnchangedUpdate,
                LeftByFailure
  <1>2. CASE Recover
    BY <1>2 DEF Recover, RecoverRename, Discard, RecoverUnmark, RecoverSync, RecoverFail,
                UnchangedUpdate, Return, Finish, Goto, LeftByFailure, TypeOK
  <1>3. CASE AfterRecovery
    BY <1>3 DEF AfterRecovery, FinishOpen, FinishRead, PlanWrite, PlanRotate, NothingToRotate,
                StartWipe, Plan, RecoveryDone, Return, Finish, Goto, LeftByFailure
  <1>4. CASE Stage
    BY <1>4 DEF Stage, StageOpen, StageSync, StageFail, WriteFail, CleanupDone, UnchangedUpdate,
                Return, Finish, Goto, LeftByFailure
  <1>5. CASE Commit
    BY <1>5 DEF Commit, CommitBegin, CreateMarker, CommitPoint, CommitRename, CommitRenamed,
                RemoveMarker, CommitFail, UnchangedUpdate, Return, Finish, Goto, LeftByFailure, TypeOK
  <1>6. CASE Deprovision
    BY <1>6 DEF Deprovision, WipeFile, WipeDir, WipeFail, UnchangedUpdate, Return, Finish,
                LeftByFailure, TypeOK
  <1>7. CASE Crash \/ PowerLoss
    BY <1>7 DEF Crash, PowerLoss, Die, LeftByFailure
  <1>8. QED
    BY <1>1, <1>2, <1>3, <1>4, <1>5, <1>6, <1>7 DEF Next

\* A step that leaves the update alone and writes no file keeps what was acknowledged.
LEMMA AckedKept ==
    ASSUME AckedSettled, UNCHANGED <<goal, phase, stray>>,
           phase = "acked" =>
               \A i \in past' : i \in past \/ \E j \in past : i.final = j.final /\ i.new = j.new
    PROVE  AckedSettled'
  BY DEF AckedSettled, NoNew, Agree

LEMMA BeginStep == ASSUME IInv, Begin PROVE IInv'
  <1> USE DEF IInv
  <1>1. TypeOK'
    BY BeginEffect DEF TypeOK, Quiet, SameUpdate, Steps
  <1>2. AckedSettled'
    BY BeginEffect, AckedKept DEF SameUpdate
  <1>3. QED
    BY <1>1, <1>2, BeginEffect, LeftStep DEF StepMarker, StagedSoFar, StepPhase, Next

LEMMA RecoverStep == ASSUME IInv, Recover PROVE IInv'
  <1> USE DEF IInv
  <1>1. left' \in SUBSET File /\ LeftByFailure'
    BY LeftStep DEF Next
  <1>2. TypeOK'
    <2>1. pc' \in Steps
      BY RecoverEffect DEF Steps
    <2>2. past' \subseteq Image
      BY RecoverEffect DEF Quiet, TypeOK
    <2>3. QED
      BY <1>1, <2>1, <2>2, RecoverEffect DEF TypeOK, Quiet, SameUpdate
  <1>3. AckedSettled'
    BY RecoverEffect, AckedKept DEF SameUpdate
  <1>4. phase' = phase /\ (pc' = "cleanup" => phase = "none")
    BY RecoverEffect DEF SameUpdate, StepPhase
  <1>5. QED
    BY <1>1, <1>2, <1>3, <1>4, RecoverEffect DEF StepMarker, StagedSoFar, StepPhase

\* A planned update is to write files, and to keep the others but for the stray ones.
LEMMA PlanEffect ==
    ASSUME IInv, PlanWrite \/ PlanRotate
    PROVE  /\ goal' \in Creds /\ base' = disk.final /\ phase' = "none" /\ pc' = "stage"
           /\ todo' \in SUBSET File /\ stray' = Staged(disk) \ todo'
           /\ \A f \in File \ todo' : disk.final[f] = goal'[f]
           /\ \A f \in todo' : goal'[f] # Absent
  <1> USE DEF IInv, TypeOK
  <1>1. CASE PlanWrite
    <2>1. op.arg \in [File -> Content]
      BY <1>1, Arguments DEF PlanWrite, RecoveryDone
    <2>2. /\ goal' = op.arg /\ base' = disk.final /\ phase' = "none" /\ pc' = "stage"
          /\ todo' = File /\ stray' = Staged(disk) \ todo'
      BY <1>1 DEF PlanWrite, Plan, Goto
    <2>3. QED
      BY <2>1, <2>2, ContentAssumption DEF Creds
  <1>2. CASE PlanRotate
    <2> DEFINE p == op.arg
               b == ConnSettings \in ChangedFiles(p)
    <2>1. /\ p \in Payloads /\ disk.final \in Creds
          /\ p \in [cert : Content, ca : Content \cup {Absent}, conn : Content]
      BY <1>2, Arguments DEF PlanRotate, RecoveryDone, Image
    <2>2. /\ goal' = Rotation(disk.final, p, b) /\ todo' = ChangedFiles(p)
          /\ base' = disk.final /\ phase' = "none" /\ pc' = "stage"
          /\ stray' = Staged(disk) \ todo'
      BY <1>2 DEF PlanRotate, Plan, Goto
    <2>3. Rotation(disk.final, p, b) \in Creds
      <3>1. b \in BOOLEAN
        OBVIOUS
      <3> HIDE DEF b, p
      <3>2. QED
        BY <2>1, <3>1, RotationType
    <2>4. ChangedFiles(p) \in SUBSET File
      BY DEF ChangedFiles
    <2>5. ASSUME NEW f \in File, f \notin ChangedFiles(p)
          PROVE  Rotation(disk.final, p, b)[f] = disk.final[f]
      BY <2>5, FileAssumption DEF Rotation, ChangedFiles
    <2>6. ASSUME NEW f \in ChangedFiles(p)
          PROVE  f \in File /\ Rotation(disk.final, p, b)[f] # Absent
      BY <2>1, <2>6, FileAssumption, ContentAssumption DEF Rotation, ChangedFiles
    <2> HIDE DEF p, b
    <2>7. QED
      BY <2>2, <2>3, <2>4, <2>5, <2>6
  <1>3. QED
    BY <1>1, <1>2

LEMMA AfterRecoveryStep == ASSUME IInv, AfterRecovery PROVE IInv'
  <1> USE DEF IInv
  <1>1. left' \in SUBSET File /\ LeftByFailure'
    BY LeftStep DEF Next
  <1>2. /\ disk' = disk /\ past' = past /\ ~disk.marker
        /\ op' \in Operations /\ result' \in Results
        /\ up' \in BOOLEAN /\ mem' \in Content \cup {Absent}
    BY AfterRecoveryEffect
  <1>3. disk \in Image /\ past \subseteq Image /\ disk.final \in Creds
    BY DEF TypeOK, Image
  <1>4. CASE PlanWrite \/ PlanRotate
    <2>1. TypeOK'
      BY <1>1, <1>2, <1>3, <1>4, PlanEffect DEF TypeOK, Steps, Staged
    <2>2. StagedSoFar'
      BY <1>2, <1>4, PlanEffect DEF StagedSoFar, Staged
    <2>3. QED
      BY <1>1, <1>2, <1>4, <2>1, <2>2, PlanEffect DEF StepMarker, StepPhase, AckedSettled
  <1>5. CASE pc' = "idle" /\ SameUpdate /\ todo' = {}
    <2>1. TypeOK'
      BY <1>1, <1>2, <1>5 DEF TypeOK, Steps, SameUpdate
    <2>2. AckedSettled'
      BY <1>2, <1>5, AckedKept DEF SameUpdate
    <2>3. QED
      BY <1>1, <1>2, <1>5, <2>1, <2>2 DEF StepMarker, StagedSoFar, StepPhase
  <1>6. CASE pc' = "wipe" /\ UNCHANGED <<base, goal, todo, stray>> /\ phase' = "none"
    <2>1. TypeOK'
      BY <1>1, <1>2, <1>6 DEF TypeOK, Steps
    <2>2. QED
      BY <1>1, <1>2, <1>6, <2>1 DEF StepMarker, StagedSoFar, StepPhase, AckedSettled
  <1>7. QED
    BY <1>4, <1>5, <1>6, AfterRecoveryEffect

LEMMA StageStep == ASSUME IInv, Stage PROVE IInv'
  <1> USE DEF IInv
  <1>1. left' \in SUBSET File /\ LeftByFailure'
    BY LeftStep DEF Next
  <1>2. /\ disk' \in Image /\ disk'.final = disk.final /\ ~disk'.marker /\ disk' \in past'
        /\ past' \subseteq Image /\ phase = "none" /\ SameUpdate /\ todo' \in SUBSET File
        /\ pc' \in {"cleanup", "idle", "writing", "stage"}
        /\ op' \in Operations /\ result' \in Results /\ UNCHANGED <<up, mem>>
    <2>1. /\ disk' \in Image /\ disk'.final = disk.final /\ ~disk'.marker /\ disk' \in past'
          /\ past' \subseteq past \cup {disk'} /\ phase = "none" /\ SameUpdate
          /\ todo' \subseteq todo /\ pc' \in {"cleanup", "idle", "writing", "stage"}
          /\ op' \in Operations /\ result' \in Results /\ UNCHANGED <<up, mem>>
      BY StageEffect DEF Quiet
    <2>2. QED
      BY <2>1 DEF TypeOK
  <1>3. TypeOK'
    BY <1>1, <1>2 DEF TypeOK, Steps, SameUpdate
  <1>4. AckedSettled' /\ StepMarker' /\ StepPhase'
    BY <1>2 DEF AckedSettled, StepMarker, StepPhase, SameUpdate
  <1>5. StagedSoFar'
    <2>1. CASE pc' \in {"cleanup", "idle"}
      BY <2>1 DEF StagedSoFar
    <2>2. CASE /\ pc = "stage" /\ pc' = "writing" /\ todo' = todo
               /\ \E f \in todo : \A g \in File : g # f => disk'.new[g] = disk.new[g]
      <3>1. PICK f \in todo : \A g \in File : g # f => disk'.new[g] = disk.new[g]
        BY <2>2
      <3>2. \A g \in File \ (todo \cup stray) :
               goal[g] = IF disk'.new[g] = Absent THEN disk'.final[g] ELSE disk'.new[g]
        BY <1>2, <2>2, <3>1 DEF StagedSoFar
      <3>3. QED
        BY <1>2, <2>2, <3>2 DEF StagedSoFar, SameUpdate
    <2>3. CASE /\ pc = "writing" /\ pc' = "stage"
               /\ \E f \in todo :
                    /\ todo' = todo \ {f}
                    /\ disk'.new[f] = goal[f]
                    /\ \A g \in File : g # f => disk'.new[g] = disk.new[g]
      <3>1. PICK f \in todo : /\ todo' = todo \ {f}
                              /\ disk'.new[f] = goal[f]
                              /\ \A g \in File : g # f => disk'.new[g] = disk.new[g]
        BY <2>3
      <3>2. goal[f] # Absent
        BY <2>3 DEF StagedSoFar
      <3>3. \A g \in File \ (todo' \cup stray) :
               goal[g] = IF disk'.new[g] = Absent THEN disk'.final[g] ELSE disk'.new[g]
        BY <1>2, <2>3, <3>1, <3>2 DEF StagedSoFar
      <3>4. QED
        BY <1>2, <2>3, <3>1, <3>3 DEF StagedSoFar, SameUpdate
    <2>4. QED
      BY <2>1, <2>2, <2>3, StageEffect
  <1>6. QED
    BY <1>1, <1>2, <1>3, <1>4, <1>5

LEMMA CommitStep == ASSUME IInv, Commit PROVE IInv'
  <1> USE DEF IInv
  <1>1. left' \in SUBSET File /\ LeftByFailure'
    BY LeftStep DEF Next
  <1>2. /\ disk' \in Image /\ disk' \in past' /\ past' \subseteq Image
        /\ UNCHANGED <<base, goal, stray, up>> /\ todo' \in SUBSET File
        /\ op' \in Operations /\ result' \in Results /\ mem' \in Content \cup {Absent}
    BY CommitEffect DEF TypeOK
  <1>3. CASE /\ pc = "stage" /\ todo = {} /\ pc' = "mark" /\ phase' = "committing"
             /\ disk' = disk /\ past' = {disk} /\ Quiet
    <2>1. TypeOK'
      BY <1>1, <1>2, <1>3 DEF TypeOK, Steps
    <2>2. todo' = {}
      BY <1>3, CommitEffect
    <2>3. QED
      BY <1>1, <1>2, <1>3, <2>1, <2>2 DEF StepMarker, StagedSoFar, StepPhase, AckedSettled
  <1>4. CASE /\ pc = "mark" /\ pc' = "marked" /\ phase' = phase
             /\ disk'.marker /\ disk'.final = disk.final /\ disk'.new = disk.new
             /\ past' = past \cup {disk'} /\ Agree(Recovered(disk'), goal)
    <2>1. phase = "committing" /\ todo' = {}
      BY <1>4, CommitEffect DEF StepPhase
    <2>2. TypeOK'
      BY <1>1, <1>2, <1>4 DEF TypeOK, Steps
    <2>3. Agree(Recovered(disk), goal)'
      BY <1>2, <1>4 DEF Agree
    <2>4. QED
      BY <1>1, <1>2, <1>4, <2>1, <2>2, <2>3 DEF StepMarker, StagedSoFar, StepPhase, AckedSettled
  <1>5. CASE /\ pc \in {"marked", "rename"} /\ pc' \in {"rename", "unmark"} /\ phase' = phase
             /\ disk'.marker /\ Quiet
             /\ pc' = "unmark" => past' = {disk'} /\ NoNew(disk')
    <2>1. phase = "committing" /\ todo' = {} /\ Agree(Recovered(disk), goal)
      BY <1>5, CommitEffect DEF StepPhase
    <2>2. TypeOK'
      BY <1>1, <1>2, <1>5 DEF TypeOK, Steps
    <2>3. Agree(Recovered(disk), goal)'
      BY <1>2, <1>5, <2>1 DEF Agree, Quiet
    <2>4. QED
      BY <1>1, <1>2, <1>5, <2>1, <2>2, <2>3
         DEF StepMarker, StagedSoFar, StepPhase, AckedSettled, NoNew
  <1>6. CASE /\ pc = "unmark" /\ pc' = "idle" /\ phase' = "acked" /\ Quiet
             /\ NoNew(disk') /\ disk'.final = disk.final /\ disk'.new = disk.new
             /\ past' = {disk, disk'}
    <2>1. TypeOK'
      BY <1>1, <1>2, <1>6 DEF TypeOK, Steps
    <2>2. NoNew(disk) /\ Agree(Recovered(disk), goal) /\ Recovered(disk) = disk.final
      BY <1>6, RecoveredNoNew DEF StepMarker, StepPhase, TypeOK
    <2>3. AckedSettled'
      <3> SUFFICES ASSUME NEW i \in past' PROVE NoNew(i) /\ Agree(i.final, goal)'
        BY <1>6 DEF AckedSettled, Agree, NoNew
      <3>1. i = disk \/ i = disk'
        BY <1>6
      <3>2. i.final = disk.final /\ NoNew(i)
        BY <1>6, <2>2, <3>1
      <3>3. QED
        BY <1>2, <2>2, <3>2 DEF Agree
    <2>4. QED
      BY <1>1, <1>2, <1>6, <2>1, <2>3 DEF StepMarker, StagedSoFar, StepPhase
  <1>7. CASE pc' = "idle" /\ phase' = phase /\ disk' = disk /\ past' = past /\ Quiet
    <2>1. TypeOK'
      BY <1>1, <1>2, <1>7 DEF TypeOK, Steps
    <2>2. AckedSettled'
      BY <1>2, <1>7, AckedKept
    <2>3. QED
      BY <1>1, <1>2, <1>7, <2>1, <2>2 DEF StepMarker, StagedSoFar, StepPhase
  <1>8. QED
    BY <1>3, <1>4, <1>5, <1>6, <1>7, CommitEffect

LEMMA DeprovisionStep == ASSUME IInv, Deprovision PROVE IInv'
  <1> USE DEF IInv
  <1>1. left' \in SUBSET File /\ LeftByFailure'
    BY LeftStep DEF Next
  <1>2. TypeOK'
    BY <1>1, DeprovisionEffect DEF TypeOK, Steps, SameUpdate
  <1>3. QED
    BY <1>1, <1>2, DeprovisionEffect
       DEF StepMarker, StagedSoFar, StepPhase, AckedSettled, SameUpdate

\* The directories a power loss leaves are like those there were, file by file.
LEMMA SurvivorsSettled ==
    ASSUME IInv, phase = "acked", NEW i \in Survivors
    PROVE  NoNew(i) /\ Agree(i.final, goal)
  <1>1. CASE i \in past
    BY <1>1 DEF IInv, AckedSettled
  <1>2. CASE i \in Mixtures
    <2>1. PICK c \in [File -> past], m \in past :
              i = [final  |-> [f \in File |-> c[f].final[f]],
                   new    |-> [f \in File |-> c[f].new[f]],
                   marker |-> m.marker,
                   dir    |-> disk.dir]
      BY <1>2 DEF Mixtures
    <2>2. \A f \in File : NoNew(c[f]) /\ Agree(c[f].final, goal)
      BY DEF IInv, AckedSettled
    <2>3. \A f \in File : i.new[f] = Absent /\ (f \notin stray => i.final[f] = goal[f])
      BY <2>1, <2>2 DEF NoNew, Agree
    <2>4. QED
      BY <2>3 DEF NoNew, Agree
  <1>3. QED
    BY <1>1, <1>2 DEF Survivors

LEMMA DieStep == ASSUME IInv, Crash \/ PowerLoss PROVE IInv'
  <1> USE DEF IInv
  <1>1. left' \in SUBSET File /\ LeftByFailure'
    BY LeftStep DEF Next
  <1>2. TypeOK'
    BY <1>1, DieEffect DEF TypeOK, Steps, SameUpdate
  <1>3. AckedSettled'
    <2>1. CASE disk' = disk /\ past' = past
      BY <2>1, DieEffect, AckedKept DEF SameUpdate
    <2>2. CASE disk' \in Survivors /\ past' = {disk'}
      BY <2>2, DieEffect, SurvivorsSettled DEF AckedSettled, SameUpdate, NoNew, Agree
    <2>3. QED
      BY <2>1, <2>2, DieEffect
  <1>4. QED
    BY <1>1, <1>2, <1>3, DieEffect DEF StepMarker, StagedSoFar, StepPhase

\* The invariant does not depend on more than the variables.
LEMMA IdleStep == ASSUME IInv, UNCHANGED vars PROVE IInv'
  BY DEF vars, IInv, TypeOK, StepMarker, StagedSoFar, StepPhase, LeftByFailure, AckedSettled,
         NoNew, Agree, Recovered

LEMMA NextIInv == ASSUME IInv, [Next]_vars PROVE IInv'
  BY BeginStep, RecoverStep, AfterRecoveryStep, StageStep, CommitStep, DeprovisionStep,
     DieStep, IdleStep DEF Next

(* The invariant holds in every state of every behaviour, whatever a power  *)
(* loss keeps of the directory operations since the last fsync.             *)
LEMMA Invariant == Spec => []IInv
  <1>1. Init => IInv
    BY InitIInv
  <1>2. IInv /\ [Next]_vars => IInv'
    BY NextIInv
  <1>3. QED
    BY <1>1, <1>2, PTL DEF Spec

-----------------------------------------------------------------------------
(* The store keeps its types: whatever fails or crashes, and although a     *)
(* torn file can get its final name, ReadFromFilesystem, RotateCerts and    *)
(* WriteToFilesystem only ever leave whole connection settings in memory.   *)
THEOREM TypeCorrect == Spec => []TypeOK
  <1>1. IInv => TypeOK
    BY DEF IInv
  <1>2. QED
    BY <1>1, Invariant, PTL

(* What WriteToFilesystem or RotateCerts has acknowledged is durable, on a  *)
(* file system that keeps its directory operations in order and on one that *)
(* keeps any of them: the renames are fsynced before the answer, and what   *)
(* is not, the removal of the marker, then no longer matters. The exception *)
(* is a file that a failed deletion left for the update to take with it,    *)
(* and there is none unless a deletion can fail.                            *)
THEOREM AcknowledgedUpdatesSurvive ==
    Spec => [](AckedSurvives /\ ("unlink" \notin Faults => stray = {}))
  <1>1. IInv => AckedSurvives /\ ("unlink" \notin Faults => stray = {})
    <2> SUFFICES ASSUME IInv PROVE AckedSurvives /\ ("unlink" \notin Faults => stray = {})
      OBVIOUS
    <2>1. ASSUME phase = "acked", NEW i \in past PROVE Agree(Recovered(i), goal)
      <3>1. i \in Image /\ NoNew(i) /\ Agree(i.final, goal)
        BY <2>1 DEF IInv, TypeOK, AckedSettled
      <3>2. QED
        BY <3>1, RecoveredNoNew
    <2>2. QED
      BY <2>1 DEF IInv, LeftByFailure, AckedSurvives
  <1>2. QED
    BY <1>1, Invariant, PTL

-----------------------------------------------------------------------------
(* What needs the directory operations to be kept in order.                 *)

\* A step that a recovery does not see leaves the update as atomic as it was.
LEMMA AtomicKept ==
    ASSUME IInv, AllOrNothing, SameUpdate, Quiet
    PROVE  AllOrNothing'
  <1>1. \A i \in past' : Recovered(i) = Recovered(disk) \/ i \in past
    BY DEF Quiet
  <1>2. disk \in past
    BY DEF IInv
  <1>3. \A i \in past' : \E j \in past : Recovered(i) = Recovered(j)
    BY <1>1, <1>2
  <1>4. QED
    BY <1>3 DEF AllOrNothing, SameUpdate, Agree

LEMMA AtomicStep ==
    ASSUME IInv, AllOrNothing, OrderedMetadata, [Next]_vars
    PROVE  AllOrNothing'
  <1>1. CASE Begin
    BY <1>1, BeginEffect, AtomicKept
  <1>2. CASE Recover
    BY <1>2, RecoverEffect, AtomicKept
  <1>3. CASE AfterRecovery
    <2>1. CASE phase' = "none"
      BY <2>1 DEF AllOrNothing
    <2>2. CASE SameUpdate
      BY <1>3, <2>2, AfterRecoveryEffect DEF AllOrNothing, SameUpdate, Agree
    <2>3. QED
      BY <1>3, <2>1, <2>2, AfterRecoveryEffect, PlanEffect
  <1>4. CASE Stage
    BY <1>4, StageEffect, AtomicKept
  <1>5. CASE Commit
    <2>1. UNCHANGED <<base, goal, stray>>
      BY <1>5, CommitEffect
    <2>2. CASE /\ pc = "stage" /\ disk' = disk /\ past' = {disk} /\ Quiet
      <3>1. Recovered(disk) = base
        BY <2>2, RecoveredUnmarked DEF IInv, TypeOK, StepMarker, StagedSoFar
      <3>2. QED
        BY <2>1, <2>2, <3>1 DEF AllOrNothing, Agree
    <2>3. CASE /\ pc = "mark" /\ phase' = phase /\ past' = past \cup {disk'}
               /\ Agree(Recovered(disk'), goal)
      BY <2>1, <2>3 DEF AllOrNothing, Agree
    <2>4. CASE phase' = phase /\ Quiet
      BY <2>1, <2>4, AtomicKept DEF SameUpdate
    <2>5. CASE pc = "unmark" /\ past' = {disk, disk'} /\ Quiet
      <3>1. Agree(Recovered(disk), goal)
        BY <2>5 DEF IInv, StepPhase
      <3>2. \A i \in past' : Recovered(i) = Recovered(disk)
        BY <2>5 DEF Quiet
      <3>3. QED
        BY <2>1, <3>1, <3>2 DEF AllOrNothing, Agree
    <2>6. QED
      BY <1>5, <2>2, <2>3, <2>4, <2>5, CommitEffect
  <1>6. CASE Deprovision
    BY <1>6, DeprovisionEffect DEF AllOrNothing, SameUpdate
  <1>7. CASE Crash \/ PowerLoss
    <2>1. past' \subseteq past
      BY <1>7, DieEffect DEF Survivors, IInv
    <2>2. SameUpdate
      BY <1>7, DieEffect
    <2>3. QED
      BY <2>1, <2>2 DEF AllOrNothing, SameUpdate, Agree
  <1>8. CASE UNCHANGED vars
    BY <1>8 DEF vars, AllOrNothing, Recovered, Agree
  <1>9. QED
    BY <1>1, <1>2, <1>3, <1>4, <1>5, <1>6, <1>7, <1>8 DEF Next

(* WriteToFilesystem and RotateCerts are atomic across process crashes and  *)
(* power losses, with any number of files and with any call failing, but    *)
(* for what a failed deletion left behind: of that there is nothing unless  *)
(* a deletion can fail.                                                     *)
THEOREM AtomicUpdates ==
    ASSUME OrderedMetadata
    PROVE  Spec => [](AllOrNothing /\ ("unlink" \notin Faults => stray = {}))
  <1>1. Init => AllOrNothing
    BY DEF Init, AllOrNothing
  <1>2. IInv /\ AllOrNothing /\ [Next]_vars => AllOrNothing'
    BY AtomicStep
  <1>3. Spec => []AllOrNothing
    BY <1>1, <1>2, Invariant, PTL DEF Spec
  <1>4. IInv => ("unlink" \notin Faults => stray = {})
    BY DEF IInv, LeftByFailure
  <1>5. QED
    BY <1>3, <1>4, Invariant, PTL

-----------------------------------------------------------------------------
(* The store implements AtomicCredentials.                                  *)

\* A step that a recovery does not see is a stutter of the abstract store, or
\* settles it when an fsync has forgotten the older directories.
LEMMA QuietStep ==
    ASSUME IInv, UNCHANGED <<goal, stray>>, Quiet
    PROVE  [Atomic!Next]_Atomic!vars
  <1> DEFINE undo == {Recovered(i) : i \in past}
  <1>1. disk \in past
    BY DEF IInv
  <1>2. undo' = undo \/ undo' = {Recovered(disk)'}
    BY <1>1 DEF Quiet
  <1>3. CASE undo' = undo
    BY <1>3 DEF Atomic!vars, Quiet
  <1>4. CASE undo' = {Recovered(disk)'}
    BY <1>4 DEF Atomic!Next, Atomic!Settle, Quiet
  <1>5. QED
    BY <1>2, <1>3, <1>4

\* The creation of the marker is the step that installs the new credentials.
LEMMA InstallStep ==
    ASSUME UNCHANGED <<goal, stray>>, disk' \in Image, Agree(Recovered(disk'), goal),
           past' = past \cup {disk'}
    PROVE  Atomic!Install
  <1>1. Recovered(disk') \in Creds
    BY RecoveredType
  <1>2. QED
    BY <1>1 DEF Atomic!Install, Atomic!Creds, Creds, Agree

LEMMA WipeStep ==
    ASSUME UNCHANGED <<goal, stray>>, NEW f \in File, past' = past \cup {disk'},
           Recovered(disk') = [Recovered(disk) EXCEPT ![f] = Absent]
    PROVE  Atomic!Wipe(f)
  BY DEF Atomic!Wipe

LEMMA LossStep ==
    ASSUME UNCHANGED <<goal, stray>>, disk' \in past, past' = {disk'}
    PROVE  Atomic!PowerLoss
  BY DEF Atomic!PowerLoss

\* A planned update asks for the credentials of a pairing or for a rotation.
LEMMA AskStep ==
    ASSUME IInv, AfterRecovery
    PROVE  [Atomic!Next]_Atomic!vars
  <1>1. disk' = disk /\ past' = past /\ ~disk.marker /\ Staged(disk) \subseteq left
    BY AfterRecoveryEffect
  <1>2. CASE PlanWrite
    <2>1. op.arg \in Bundles /\ goal' = op.arg /\ todo' = File
      BY <1>2, Arguments DEF PlanWrite, Plan, RecoveryDone, IInv, TypeOK
    <2>2. stray' = {}
      BY <1>2, <2>1, PlanEffect DEF Staged
    <2>3. Atomic!AskPairing
      BY <1>1, <2>1, <2>2 DEF Atomic!AskPairing
    <2>4. QED
      BY <2>3 DEF Atomic!Next
  <1>3. CASE PlanRotate
    <2>1. op.arg \in Payloads /\ disk \in Image
      BY <1>3, Arguments DEF PlanRotate, RecoveryDone, IInv, TypeOK
    <2>2. disk.final = Recovered(disk)
      BY <1>1, <2>1, RecoveredUnmarked
    <2>3. \E b \in BOOLEAN : goal' = Rotation(Recovered(disk), op.arg, b)
      <3>1. goal' = Rotation(Recovered(disk), op.arg, ConnSettings \in ChangedFiles(op.arg))
        BY <1>3, <2>2 DEF PlanRotate, Plan
      <3>2. (ConnSettings \in ChangedFiles(op.arg)) \in BOOLEAN
        OBVIOUS
      <3>3. QED
        BY <3>1, <3>2
    <2>4. stray' \in SUBSET File /\ stray' \subseteq left
      BY <1>1, <1>3, PlanEffect DEF Staged
    <2>5. stray' # {} => "unlink" \in Faults
      BY <2>4 DEF IInv, LeftByFailure
    <2>6. Atomic!AskRotation
      BY <1>1, <2>1, <2>3, <2>4, <2>5 DEF Atomic!AskRotation, Atomic!Rotation, Rotation
    <2>7. QED
      BY <2>6 DEF Atomic!Next
  <1>4. CASE UNCHANGED <<goal, stray>>
    BY <1>1, <1>4 DEF Atomic!vars
  <1>5. QED
    BY <1>2, <1>3, <1>4, AfterRecoveryEffect DEF SameUpdate

LEMMA InitAtomic == Init => Atomic!Init
  <1>1. Recovered(NoDir) = NoCreds
    BY DEF Recovered, NoDir, NoCreds
  <1>2. QED
    BY <1>1 DEF Init, Atomic!Init, Atomic!NoCreds, NoCreds

LEMMA NextAtomic ==
    ASSUME IInv, OrderedMetadata, [Next]_vars
    PROVE  [Atomic!Next]_Atomic!vars
  <1>1. CASE Begin
    BY <1>1, BeginEffect, QuietStep DEF SameUpdate
  <1>2. CASE Recover
    BY <1>2, RecoverEffect, QuietStep DEF SameUpdate
  <1>3. CASE AfterRecovery
    BY <1>3, AskStep
  <1>4. CASE Stage
    BY <1>4, StageEffect, QuietStep DEF SameUpdate
  <1>5. CASE Commit
    BY <1>5, CommitEffect, QuietStep, InstallStep DEF Atomic!Next
  <1>6. CASE Deprovision
    BY <1>6, DeprovisionEffect, QuietStep, WipeStep DEF Atomic!Next, SameUpdate
  <1>7. CASE Crash \/ PowerLoss
    <2>1. UNCHANGED <<goal, stray>>
      BY <1>7, DieEffect DEF SameUpdate
    <2>2. CASE disk' = disk /\ past' = past
      BY <2>1, <2>2 DEF Atomic!vars
    <2>3. CASE disk' \in Survivors /\ past' = {disk'}
      BY <2>1, <2>3, LossStep DEF Atomic!Next, Survivors
    <2>4. QED
      BY <1>7, <2>2, <2>3, DieEffect
  <1>8. CASE UNCHANGED vars
    BY <1>8 DEF vars, Atomic!vars, Recovered
  <1>9. QED
    BY <1>1, <1>2, <1>3, <1>4, <1>5, <1>6, <1>7, <1>8 DEF Next

(* The store implements the abstract store: what the next recovery makes of *)
(* the directory changes as a whole, at the creation of the commit marker,  *)
(* and takes nothing along that the update did not ask for unless a         *)
(* deletion can fail.                                                       *)
THEOREM StoreImplementsAtomic ==
    ASSUME OrderedMetadata PROVE Spec => AtomicSpec
  <1>1. Init => Atomic!Init
    BY InitAtomic
  <1>2. IInv /\ [Next]_vars => [Atomic!Next]_Atomic!vars
    BY NextAtomic
  <1>3. QED
    BY <1>1, <1>2, Invariant, PTL DEF Spec, AtomicSpec, Atomic!Spec
=============================================================================
