---------------------------- MODULE BackupsProofs ----------------------------
(* For any number of backups and secrets, any overlap of backups, failures  *)
(* and crashes: an archive that can be listed is complete, and one answered *)
(* with success stays for the retention.  Neither is inductive.  OnTheWay   *)
(* says what a backup that has not been renamed has already established,    *)
(* AnsweredStays that an archive answered with success is never written     *)
(* again.  The second half is about the two locks: a finished backup holds  *)
(* both stores as they were at one moment.                                  *)
EXTENDS BackupFiles, BackupGate, FiniteSetTheorems, TLAPS

SecretFiles == StoredSecrets \X {"json", "enc"}
BackupSteps == {"new", "copy", "encrypt", "encrypting", "rename", "prune", "done", "failed"}
BackupRow == [at : BackupSteps, copied : SUBSET SecretFiles, must : SUBSET SecretFiles, prune : SUBSET Backups]
ArchiveFile == [name : {"none", "partial", "lxcup"}, whole : BOOLEAN, modified : Nat, secrets : SUBSET SecretFiles]
FileTypes ==
  /\ day \in Nat /\ promised \subseteq Backups \X Nat
  /\ backup \in [Backups -> BackupRow]
  /\ archive \in [Backups -> ArchiveFile]

Paired(files) == \A s \in StoredSecrets : <<s, "json">> \in files <=> <<s, "enc">> \in files
OnTheWay ==
  \A b \in Backups :
    /\ backup[b].at \in {"encrypt", "encrypting", "rename"} => Paired(backup[b].copied)
    /\ backup[b].at \in {"encrypting", "rename"} =>
         archive[b].secrets = backup[b].copied /\ archive[b].name = "partial"
    /\ backup[b].at = "rename" => archive[b].whole
AnsweredStays ==
  \A p \in promised :
    /\ backup[p[1]].at = "done"
    /\ p[1] \in Visible => archive[p[1]].modified = p[2]
ArchiveInv == FileTypes /\ OnTheWay /\ AnsweredStays /\ VisibleIsComplete /\ PromisedIsKept

(* The empty directories satisfy the invariant. *)
LEMMA InitArchives == FilesInit => ArchiveInv
<1> SUFFICES ASSUME FilesInit PROVE ArchiveInv
  OBVIOUS
<1>1. NotStarted \in BackupRow /\ NoArchive \in ArchiveFile
  BY DEF NotStarted, NoArchive, BackupRow, ArchiveFile, BackupSteps
<1>2. FileTypes
  BY <1>1 DEF FilesInit, FileTypes
<1>3. OnTheWay /\ AnsweredStays /\ VisibleIsComplete /\ PromisedIsKept
  BY DEF FilesInit, NotStarted, NoArchive, OnTheWay, AnsweredStays, VisibleIsComplete, PromisedIsKept, Visible
<1> QED BY <1>2, <1>3 DEF ArchiveInv

(* A backup that goes to another step changes nothing else of its row. *)
LEMMA GoesTyped ==
  ASSUME FileTypes, NEW b \in Backups, NEW step \in BackupSteps, BackupGoes(b, step)
  PROVE  /\ backup' \in [Backups -> BackupRow]
         /\ backup'[b].at = step /\ backup'[b].copied = backup[b].copied
         /\ \A c \in Backups \ {b} : backup'[c] = backup[c]
<1>1. backup[b] \in BackupRow /\ [backup[b] EXCEPT !.at = step] \in BackupRow
  BY DEF FileTypes, BackupRow
<1>2. backup' = [backup EXCEPT ![b] = [backup[b] EXCEPT !.at = step]]
  BY DEF BackupGoes
<1>3. [backup[b] EXCEPT !.at = step].at = step /\ [backup[b] EXCEPT !.at = step].copied = backup[b].copied
  BY <1>1 DEF BackupRow
<1> QED BY <1>1, <1>2, <1>3 DEF FileTypes

(* Steps that leave archives and answers alone, and take no backup behind   *)
(* its copy, keep the invariant.                                            *)
Aside ==
  /\ UNCHANGED <<archive, promised>> /\ day' \in Nat /\ day' >= day
  /\ backup' \in [Backups -> BackupRow]
  /\ \A b \in Backups :
       \/ backup'[b].at = backup[b].at /\ (backup'[b].copied = backup[b].copied \/ backup[b].at = "copy")
       \/ backup[b].at # "done" /\ backup'[b].at \in {"copy", "failed"}
(* Such a step keeps the invariant. *)
LEMMA AsideKeeps ==
  ASSUME ArchiveInv, Aside, Retention \in Nat
  PROVE  ArchiveInv'
<1> USE DEF ArchiveInv, Aside
<1>1. FileTypes'
  BY DEF FileTypes
<1>2. OnTheWay'
  BY DEF OnTheWay, Paired
<1>3. AnsweredStays'
  BY DEF AnsweredStays, FileTypes, Visible
<1>4. VisibleIsComplete'
  BY DEF VisibleIsComplete, Visible
<1>5. PromisedIsKept'
  BY DEF PromisedIsKept, Visible, FileTypes
<1> QED BY <1>1, <1>2, <1>3, <1>4, <1>5

(* The clock, the secret store, staging, copying, a failed clean-up and a   *)
(* crash are such steps.                                                    *)
LEMMA AsideSteps ==
  ASSUME ArchiveInv,
         \/ DayPasses \/ ControllerCrashes
         \/ \E s \in StoredSecrets : CreateSecretFiles(s) \/ DeleteSecretFiles(s)
         \/ \E b \in Backups : StageBackup(b) \/ CopySecretFile(b) \/ PruneFails(b)
         \/ UNCHANGED fileVars
  PROVE  Aside
<1> USE DEF ArchiveInv, FileTypes, Aside
<1>1. CASE DayPasses \/ UNCHANGED fileVars
  BY <1>1 DEF DayPasses, fileVars
<1>2. CASE ControllerCrashes
  <2> DEFINE ended == [NotStarted EXCEPT !.at = "failed"]
  <2>1. NotStarted \in BackupRow
    BY DEF NotStarted, BackupRow, BackupSteps
  <2>2. ended \in BackupRow /\ ended.at = "failed"
    BY <2>1 DEF BackupRow, BackupSteps
  <2> HIDE DEF ended
  <2>3. backup' = [b \in Backups |-> IF backup[b].at \in {"new", "done"} THEN backup[b] ELSE ended]
    BY <1>2 DEF ControllerCrashes, ended
  <2>4. UNCHANGED <<day, archive, promised>>
    BY <1>2 DEF ControllerCrashes
  <2> QED BY <2>2, <2>3, <2>4
<1>3. ASSUME NEW s \in StoredSecrets, CreateSecretFiles(s) \/ DeleteSecretFiles(s) PROVE Aside
  <2>1. PICK stage : FilesBecome(s, stage)
    BY <1>3 DEF CreateSecretFiles, DeleteSecretFiles
  <2>2. \A b \in Backups : /\ backup'[b] \in BackupRow
                           /\ backup'[b].at = backup[b].at /\ backup'[b].copied = backup[b].copied
    BY <2>1 DEF FilesBecome, BackupRow
  <2> QED BY <2>1, <2>2 DEF FilesBecome
<1>4. ASSUME NEW b \in Backups, StageBackup(b) PROVE Aside
  <2>1. SecretDir \in SUBSET SecretFiles
    BY DEF SecretDir, SecretFiles
  <2>2. \A c \in Backups : /\ backup'[c] \in BackupRow
                           /\ IF c = b THEN backup'[c].at = "copy" /\ backup[c].at = "new" ELSE backup'[c] = backup[c]
    BY <1>4, <2>1 DEF StageBackup, BackupAt, BackupRow, BackupSteps
  <2> QED BY <1>4, <2>2 DEF StageBackup
<1>5. ASSUME NEW b \in Backups, CopySecretFile(b) PROVE Aside
  <2>1. PICK f \in SecretFiles : backup' = [backup EXCEPT ![b].copied = @ \cup {f}, ![b].must = @ \ {f}]
    BY <1>5 DEF CopySecretFile, SecretDir, SecretFiles
  <2> QED BY <1>5, <2>1 DEF CopySecretFile, BackupAt, BackupRow
<1>6. ASSUME NEW b \in Backups, PruneFails(b) PROVE Aside
  BY <1>6 DEF PruneFails, BackupAt, BackupRow
<1> QED BY <1>1, <1>2, <1>3, <1>4, <1>5, <1>6

(* The comparison of the two sets of ids is what lets a copy pass. *)
LEMMA CopyEndsKeeps ==
  ASSUME ArchiveInv, NEW b \in Backups, CopyEnds(b)
  PROVE  ArchiveInv'
<1> USE DEF ArchiveInv
<1>0. PICK step \in {"encrypt", "failed"} :
        /\ BackupGoes(b, step) /\ (step = "encrypt" => PairsMatch(b))
        /\ backup[b].at = "copy" /\ UNCHANGED <<day, archive, promised>>
  BY DEF CopyEnds, BackupAt
<1>a. /\ backup' \in [Backups -> BackupRow]
      /\ backup'[b].at = step /\ backup'[b].copied = backup[b].copied
      /\ \A c \in Backups \ {b} : backup'[c] = backup[c]
  BY <1>0, GoesTyped DEF BackupSteps
<1>1. FileTypes'
  BY <1>0, <1>a DEF FileTypes
<1>2. PairsMatch(b) => Paired(backup[b].copied)
  BY DEF PairsMatch, CopiedIds, Paired
<1>3. OnTheWay'
  BY <1>0, <1>a, <1>2 DEF OnTheWay, Paired
<1>4. AnsweredStays'
  BY <1>0, <1>a DEF AnsweredStays, FileTypes, Visible
<1>5. VisibleIsComplete' /\ PromisedIsKept'
  BY <1>0 DEF VisibleIsComplete, PromisedIsKept, Visible
<1> QED BY <1>1, <1>3, <1>4, <1>5

(* Nobody but its own backup writes an archive, and that only before it is  *)
(* answered for.                                                            *)
LEMMA EncryptKeeps ==
  ASSUME ArchiveInv, NEW b \in Backups, EncryptStarts(b) \/ EncryptEnds(b) \/ FileStepFails(b)
  PROVE  ArchiveInv'
<1> USE DEF ArchiveInv
<1>0. /\ backup[b].at # "done" /\ backup'[b].at # "done"
      /\ \A c \in Backups \ {b} : archive'[c] = archive[c] /\ backup'[c] = backup[c]
      /\ archive'[b].name = "lxcup" => archive[b].name = "lxcup" /\ backup[b].at = "encrypting"
      /\ UNCHANGED <<day, promised>>
  BY DEF EncryptStarts, EncryptEnds, FileStepFails, BackupAt, BackupGoes, FileTypes, BackupRow, ArchiveFile, NoArchive
<1>a. /\ backup' \in [Backups -> BackupRow] /\ backup'[b].copied = backup[b].copied
      /\ backup'[b].at = IF EncryptStarts(b) THEN "encrypting" ELSE IF EncryptEnds(b) THEN "rename" ELSE "failed"
  BY GoesTyped DEF BackupSteps, EncryptStarts, EncryptEnds, FileStepFails
<1>b. archive' \in [Backups -> ArchiveFile]
  <2>1. CASE EncryptStarts(b)
    <3>1. [name |-> "partial", whole |-> FALSE, modified |-> day, secrets |-> backup[b].copied] \in ArchiveFile
      BY DEF ArchiveFile, FileTypes, BackupRow
    <3> QED BY <2>1, <3>1 DEF EncryptStarts, FileTypes
  <2>2. CASE EncryptEnds(b)
    BY <2>2 DEF EncryptEnds, FileTypes, ArchiveFile
  <2>3. CASE FileStepFails(b)
    <3>1. NoArchive \in ArchiveFile
      BY DEF ArchiveFile, NoArchive
    <3> QED BY <2>3, <3>1 DEF FileStepFails, FileTypes
  <2> QED BY <2>1, <2>2, <2>3
<1>1. FileTypes'
  BY <1>0, <1>a, <1>b DEF FileTypes
<1>c. /\ backup'[b].at = "encrypting" =>
           /\ backup[b].at = "encrypt" /\ archive'[b].name = "partial" /\ archive'[b].secrets = backup[b].copied
      /\ backup'[b].at = "rename" =>
           /\ backup[b].at = "encrypting" /\ archive'[b].name = archive[b].name
           /\ archive'[b].secrets = archive[b].secrets /\ archive'[b].whole
      /\ backup'[b].at # "encrypt"
  BY <1>a DEF EncryptStarts, EncryptEnds, FileStepFails, BackupAt, FileTypes, ArchiveFile
<1>2. OnTheWay'
  BY <1>0, <1>a, <1>c DEF OnTheWay, Paired
<1>3. \A p \in promised : p[1] \in Backups \ {b}
  BY <1>0 DEF AnsweredStays, FileTypes
<1>4. AnsweredStays'
  BY <1>0, <1>3 DEF AnsweredStays, Visible
<1>5. VisibleIsComplete'
  BY <1>0 DEF VisibleIsComplete, Visible, OnTheWay
<1>6. PromisedIsKept'
  BY <1>0, <1>3 DEF PromisedIsKept, Visible
<1> QED BY <1>1, <1>2, <1>4, <1>5, <1>6

(* What is renamed was encrypted to its end from a copy that passed. *)
LEMMA RenameKeeps ==
  ASSUME ArchiveInv, NEW b \in Backups, RenameArchive(b)
  PROVE  ArchiveInv'
<1> USE DEF ArchiveInv, RenameArchive, BackupAt
<1>0. /\ backup[b].at = "rename" /\ backup'[b].at = "prune"
      /\ \A c \in Backups \ {b} : archive'[c] = archive[c] /\ backup'[c] = backup[c]
      /\ archive'[b].whole = archive[b].whole /\ archive'[b].secrets = archive[b].secrets
      /\ UNCHANGED <<day, promised>>
  BY DEF FileTypes, BackupRow, ArchiveFile
<1>1. FileTypes'
  <2>1. backup' \in [Backups -> BackupRow]
    <3> DEFINE new == [backup[b] EXCEPT !.at = "prune", !.prune = Visible \cup {b}]
    <3>1. backup[b] \in BackupRow /\ Visible \cup {b} \in SUBSET Backups
      BY DEF FileTypes, Visible
    <3>2. new \in BackupRow
      BY <3>1 DEF BackupRow, BackupSteps
    <3>3. backup' = [backup EXCEPT ![b] = new]
      OBVIOUS
    <3> QED BY <3>2, <3>3 DEF FileTypes
  <2>2. archive' \in [Backups -> ArchiveFile]
    BY DEF FileTypes, ArchiveFile
  <2> QED BY <1>0, <2>1, <2>2 DEF FileTypes
<1>2. OnTheWay'
  BY <1>0 DEF OnTheWay
<1>3. \A p \in promised : p[1] \in Backups \ {b}
  BY <1>0 DEF AnsweredStays, FileTypes
<1>4. AnsweredStays'
  BY <1>0, <1>3 DEF AnsweredStays, Visible
<1>5. VisibleIsComplete'
  BY <1>0 DEF VisibleIsComplete, Visible, OnTheWay, Paired
<1>6. PromisedIsKept'
  BY <1>0, <1>3 DEF PromisedIsKept, Visible
<1> QED BY <1>1, <1>2, <1>4, <1>5, <1>6

(* Pruning takes what is older than the retention, by the age that was      *)
(* answered.                                                                *)
LEMMA PruneKeeps ==
  ASSUME ArchiveInv, NEW b \in Backups, PruneOne(b)
  PROVE  ArchiveInv'
<1> USE DEF ArchiveInv
<1>0. PICK f \in Backups :
        /\ \A c \in Backups : /\ backup'[c].at = backup[c].at /\ backup'[c].copied = backup[c].copied
                              /\ c # f => archive'[c] = archive[c]
        /\ \/ archive'[f] = archive[f]
           \/ archive'[f] = NoArchive /\ f \in Visible /\ Expired(f)
        /\ UNCHANGED <<day, promised>>
  BY DEF PruneOne, BackupAt, FileTypes, BackupRow
<1>1. FileTypes'
  <2>1. backup' \in [Backups -> BackupRow]
    BY DEF FileTypes, BackupRow, PruneOne
  <2>2. NoArchive \in ArchiveFile
    BY DEF NoArchive, ArchiveFile
  <2>3. archive' \in [Backups -> ArchiveFile]
    BY <2>2 DEF FileTypes, PruneOne
  <2> QED BY <1>0, <2>1, <2>3 DEF FileTypes
<1>2. OnTheWay'
  BY <1>0 DEF OnTheWay, Visible, NoArchive
<1>4. AnsweredStays'
  BY <1>0 DEF AnsweredStays, Visible, FileTypes, NoArchive
<1>5. VisibleIsComplete'
  BY <1>0 DEF VisibleIsComplete, Visible, NoArchive
<1>6. PromisedIsKept'
  BY <1>0 DEF PromisedIsKept, AnsweredStays, Visible, Expired, FileTypes, NoArchive
<1> QED BY <1>1, <1>2, <1>4, <1>5, <1>6

(* The answer promises the archive as it is. *)
LEMMA AnswerKeeps ==
  ASSUME ArchiveInv, NEW b \in Backups, AnswerBackup(b)
  PROVE  ArchiveInv'
<1> USE DEF ArchiveInv
<1>0. PICK step \in {"done", "failed"} :
        /\ BackupGoes(b, step) /\ backup[b].at = "prune" /\ UNCHANGED <<day, archive>>
        /\ IF step = "done" THEN b \in Visible /\ promised' = promised \cup {<<b, archive[b].modified>>}
           ELSE UNCHANGED promised
  BY DEF AnswerBackup, BackupAt
<1>a. /\ backup' \in [Backups -> BackupRow]
      /\ backup'[b].at = step /\ backup'[b].copied = backup[b].copied
      /\ \A c \in Backups \ {b} : backup'[c] = backup[c]
  BY <1>0, GoesTyped DEF BackupSteps
<1>1. FileTypes'
  <2>1. archive[b].modified \in Nat
    BY DEF FileTypes, ArchiveFile
  <2> QED BY <1>0, <1>a, <2>1 DEF FileTypes
<1>2. OnTheWay'
  BY <1>0, <1>a DEF OnTheWay
<1>4. AnsweredStays'
  BY <1>0, <1>a DEF AnsweredStays, Visible, FileTypes
<1>5. VisibleIsComplete'
  BY <1>0 DEF VisibleIsComplete, Visible
<1>6. PromisedIsKept'
  BY <1>0 DEF PromisedIsKept, Visible
<1> QED BY <1>1, <1>2, <1>4, <1>5, <1>6

(* Every step keeps the invariant. *)
LEMMA ArchiveStep == ArchiveInv /\ [FilesNext]_fileVars => ArchiveInv'
<1> SUFFICES ASSUME ArchiveInv, [FilesNext]_fileVars PROVE ArchiveInv'
  OBVIOUS
<1>1. ASSUME NEW b \in Backups, BackupStep(b) PROVE ArchiveInv'
  BY <1>1, AsideSteps, AsideKeeps, CopyEndsKeeps, EncryptKeeps, RenameKeeps, PruneKeeps, AnswerKeeps,
     RetentionAssumption DEF BackupStep
<1> QED BY <1>1, AsideSteps, AsideKeeps, RetentionAssumption DEF FilesNext

(* However backups overlap, fail or are cut off by a crash, an archive that *)
(* list_backups shows or download_backup serves was encrypted to its end    *)
(* and holds both files of a secret or neither; and one that create_backup  *)
(* answered with success is there until it is older than                    *)
(* LXCUP_BACKUP_RETENTION_DAYS, whoever prunes.                             *)
THEOREM ArchivesAreSafe == FilesSpec => []ArchivesSafe
<1>1. ArchiveInv => ArchivesSafe
  BY DEF ArchiveInv, ArchivesSafe
<1> QED BY <1>1, InitArchives, ArchiveStep, PTL DEF FilesSpec

-----------------------------------------------------------------------------
(***************************************************************************)
(* The two stores of a backup                                              *)
(***************************************************************************)

(* Backups and changes are not cut off; a request to delete a target may be. *)
UndroppedBackups == Droppable \subseteq {"delete_target"}

InGate(t) ==
  \/ task[t].pc \in {"enter", "backup"}
  \/ t \in Requests /\ task[t].pc \in {"lock", "change", "half", "delete"}

(* The step of a task, its kind, its guard and its blocking task belong    *)
(* together.                                                               *)
TaskSound(t) ==
  /\ t \in gate <=> InGate(t)
  /\ task[t].pc \in {"gate", "enter"} => task[t].kind # "none" /\ (t \in Requests \/ task[t].kind = "backup")
  /\ task[t].pc \in {"change", "half"} => t \in Requests /\ task[t].kind = "change"
  /\ task[t].pc = "lock" => task[t].kind = IF t \in Requests THEN "delete_target" ELSE "none"
  /\ task[t].pc = "delete" => task[t].kind = "delete_target"
  /\ task[t].pc = "backup" => task[t].kind = "backup"
  /\ task[t].pc \in {"idle", "due", "onboard"} => task[t].kind = "none"
  /\ job[t].pc # "none" => task[t].pc = "backup"
  /\ job[t].pc = "copy" => job[t].db = db
WaitersSound ==
  /\ \A i \in 1..Len(gateQ) : task[gateQ[i]].pc = "gate"
  /\ \A i \in 1..Len(lockQ) : task[lockQ[i]].pc = "lock"
(* A backup is alone behind the gate. *)
WriterAlone == \A t, u \in gate : Writes(t) => u = t

(* The changes the secret store has and the database has not yet, and      *)
(* those that are still to come.                                           *)
Halves == {t \in Tasks : task[t].pc = "half"}
Coming == {t \in Tasks : task[t].kind = "change" /\ task[t].pc \in {"gate", "enter", "change"}}
StoresDiffer ==
  /\ IsFiniteSet(Halves) /\ store = db + Cardinality(Halves)
  /\ IsFiniteSet(Coming) /\ store + Cardinality(Coming) <= changes

GateInv ==
  /\ ArchivesAgree
  /\ \A t \in Tasks : TaskSound(t)
  /\ WaitersSound /\ WriterAlone /\ StoresDiffer

GateRow == [pc : Steps, kind : Kinds \cup {"none", "backup"}]
JobRow == [pc : {"none", "dump", "copy", "ended"}, db : 0..MaxChanges]
Alone(t) == \A u \in Tasks \ {t} : task'[u] = task[u]

(* A task that goes on keeps its kind, and the others keep their step. *)
LEMMA TaskGoes ==
  ASSUME GateTypeOK, NEW t \in Tasks, NEW pc \in Steps, Goto(t, pc)
  PROVE  /\ task' \in [Tasks -> GateRow] /\ Alone(t)
         /\ task'[t].pc = pc /\ task'[t].kind = task[t].kind
<1>1. task[t] \in GateRow /\ [task[t] EXCEPT !.pc = pc] \in GateRow
  BY DEF GateTypeOK, GateRow
<1>2. task' = [task EXCEPT ![t] = [task[t] EXCEPT !.pc = pc]]
  BY DEF Goto
<1>3. [task[t] EXCEPT !.pc = pc].pc = pc /\ [task[t] EXCEPT !.pc = pc].kind = task[t].kind
  BY <1>1 DEF GateRow
<1> QED BY <1>1, <1>2, <1>3 DEF GateTypeOK, GateRow, Alone

LEMMA TaskSet ==
  ASSUME GateTypeOK, NEW t \in Tasks, NEW row \in GateRow, task' = [task EXCEPT ![t] = row]
  PROVE  task' \in [Tasks -> GateRow] /\ Alone(t) /\ task'[t] = row
BY DEF GateTypeOK, GateRow, Alone

(* The other tasks stay sound when their guards and their blocking tasks   *)
(* stay and no dump is out of date.                                        *)
LEMMA OthersSound ==
  ASSUME NEW t \in Tasks, Alone(t), \A u \in Tasks : TaskSound(u),
         \A u \in Tasks \ {t} : (u \in gate' <=> u \in gate) /\ job'[u] = job[u] /\ (db' = db \/ job[u].pc # "copy")
  PROVE  \A u \in Tasks \ {t} : TaskSound(u)'
<1> SUFFICES ASSUME NEW u \in Tasks \ {t} PROVE TaskSound(u)'
  OBVIOUS
<1> QED BY DEF Alone, TaskSound, InGate

(* The queues stay sound when a task goes on that does not wait. *)
LEMMA WaitersStay ==
  ASSUME GateTypeOK, WaitersSound, NEW t \in Tasks, Alone(t), task[t].pc \notin {"gate", "lock"},
         gateQ' = gateQ, lockQ' = lockQ
  PROVE  WaitersSound'
<1>1. \A i \in 1..Len(gateQ) : gateQ[i] \in Tasks \ {t} /\ task'[gateQ[i]].pc = "gate"
  BY DEF GateTypeOK, WaitersSound, Alone
<1>2. \A i \in 1..Len(lockQ) : lockQ[i] \in Tasks \ {t} /\ task'[lockQ[i]].pc = "lock"
  BY DEF GateTypeOK, WaitersSound, Alone
<1> QED BY <1>1, <1>2 DEF WaitersSound

(* A writer stays alone as long as nobody comes in or changes its kind. *)
LEMMA WriterStays ==
  ASSUME GateTypeOK, WriterAlone, gate' \subseteq gate, \A u \in gate' : task'[u].kind = task[u].kind
  PROVE  WriterAlone'
BY DEF GateTypeOK, WriterAlone, Writes

(* The stores keep their distance when no task enters or leaves the state  *)
(* between its two writes and no change comes in.                          *)
LEMMA DistanceStays ==
  ASSUME GateTypeOK, StoresDiffer, NEW t \in Tasks, Alone(t), store' = store, db' = db, changes' = changes,
         task'[t].pc = "half" <=> task[t].pc = "half", t \in Coming' => t \in Coming
  PROVE  StoresDiffer'
<1>1. Halves' = Halves /\ Coming' \subseteq Coming
  BY DEF Halves, Coming, Alone
<1>2. IsFiniteSet(Coming') /\ Cardinality(Coming') <= Cardinality(Coming)
  BY <1>1, FS_Subset DEF StoresDiffer
<1>3. Cardinality(Coming) \in Nat /\ Cardinality(Coming') \in Nat
  BY <1>2, FS_CardinalityType DEF StoresDiffer
<1> QED BY <1>1, <1>2, <1>3 DEF StoresDiffer, GateTypeOK

(* No task, no change and no counter of the stores moves. *)
LEMMA DistanceFixed ==
  ASSUME StoresDiffer, UNCHANGED <<task, store, db, changes>>
  PROVE  StoresDiffer'
BY DEF StoresDiffer, Halves, Coming

(* Idle tasks and closed locks satisfy the invariant. *)
LEMMA InitGate == GateInit => GateInv
<1> SUFFICES ASSUME GateInit PROVE GateInv
  OBVIOUS
<1>1. Idle \in GateRow /\ NoJob \in JobRow
  BY BoundAssumption DEF Idle, NoJob, GateRow, JobRow, Steps
<1>2. GateTypeOK
  BY <1>1, BoundAssumption DEF GateInit, GateTypeOK, GateRow, JobRow, Once
<1>3. \A t \in Tasks : TaskSound(t)
  BY DEF GateInit, TaskSound, InGate, Idle, NoJob
<1>4. Halves = {} /\ Coming = {}
  BY DEF GateInit, Halves, Coming, Idle
<1>5. StoresDiffer
  BY <1>4, FS_EmptySet DEF StoresDiffer, GateInit
<1> QED BY <1>2, <1>3, <1>5 DEF GateInv, GateInit, ArchivesAgree, WaitersSound, WriterAlone

(* A task joins the end of a queue it is not in, and waits there. *)
LEMMA Joins ==
  ASSUME NEW q \in Seq(Tasks), Once(q), NEW t \in Tasks, \A i \in 1..Len(q) : q[i] # t
  PROVE  /\ Append(q, t) \in Seq(Tasks) /\ Once(Append(q, t))
         /\ \A i \in 1..Len(Append(q, t)) : Append(q, t)[i] = t \/ \E j \in 1..Len(q) : Append(q, t)[i] = q[j]
BY DEF Once

(* The head of a queue leaves it for good. *)
LEMMA HeadLeaves ==
  ASSUME NEW q \in Seq(Tasks), Once(q), q # <<>>
  PROVE  /\ Head(q) \in Tasks /\ Tail(q) \in Seq(Tasks) /\ Once(Tail(q)) /\ 1 \in 1..Len(q) /\ Head(q) = q[1]
         /\ \A i \in 1..Len(Tail(q)) : Tail(q)[i] # Head(q) /\ \E j \in 1..Len(q) : Tail(q)[i] = q[j]
<1>1. \A i \in 1..Len(Tail(q)) : i + 1 \in 1..Len(q) /\ Tail(q)[i] = q[i + 1]
  OBVIOUS
<1>2. Head(q) = q[1] /\ 1 \in 1..Len(q) /\ Tail(q) \in Seq(Tasks)
  OBVIOUS
<1>3. \A i \in 1..Len(Tail(q)) : Tail(q)[i] # Head(q)
  BY <1>1, <1>2 DEF Once
<1>4. Once(Tail(q))
  BY <1>1, <1>2 DEF Once
<1> QED BY <1>1, <1>2, <1>3, <1>4

(* The task that leaves is gone, and everybody else keeps the place. *)
LEMMA LeaverGone ==
  ASSUME NEW q \in Seq(Tasks), Once(q), NEW r \in Tasks
  PROVE  /\ Leave(q, r) \in Seq(Tasks) /\ Once(Leave(q, r))
         /\ \A i \in 1..Len(Leave(q, r)) : Leave(q, r)[i] # r /\ \E j \in 1..Len(q) : Leave(q, r)[i] = q[j]
<1>1. CASE \A i \in 1..Len(q) : q[i] # r
  BY <1>1 DEF Leave
<1>2. CASE \E i \in 1..Len(q) : q[i] = r
  <2>1. PICK i \in 1..Len(q) : i = CHOOSE j \in 1..Len(q) : q[j] = r
    BY <1>2
  <2>2. q[i] = r /\ Leave(q, r) = SubSeq(q, 1, i - 1) \o SubSeq(q, i + 1, Len(q))
    BY <1>2, <2>1 DEF Leave
  <2>3. /\ SubSeq(q, 1, i - 1) \in Seq(Tasks) /\ Len(SubSeq(q, 1, i - 1)) = i - 1
        /\ \A j \in 1..(i - 1) : SubSeq(q, 1, i - 1)[j] = q[j]
    OBVIOUS
  <2>4. /\ SubSeq(q, i + 1, Len(q)) \in Seq(Tasks) /\ Len(SubSeq(q, i + 1, Len(q))) = Len(q) - i
        /\ \A j \in 1..(Len(q) - i) : SubSeq(q, i + 1, Len(q))[j] = q[i + j]
    OBVIOUS
  <2>5. /\ Leave(q, r) \in Seq(Tasks) /\ Len(Leave(q, r)) = Len(q) - 1
        /\ \A j \in 1..(Len(q) - 1) : Leave(q, r)[j] = IF j < i THEN q[j] ELSE q[j + 1]
    <3>1. ASSUME NEW a \in Seq(Tasks), NEW b \in Seq(Tasks)
          PROVE  /\ a \o b \in Seq(Tasks) /\ Len(a \o b) = Len(a) + Len(b)
                 /\ \A j \in 1..(Len(a) + Len(b)) : (a \o b)[j] = IF j <= Len(a) THEN a[j] ELSE b[j - Len(a)]
      OBVIOUS
    <3> DEFINE a == SubSeq(q, 1, i - 1)
               b == SubSeq(q, i + 1, Len(q))
    <3> HIDE DEF a, b
    <3>2. a \in Seq(Tasks) /\ Len(a) = i - 1 /\ \A j \in 1..(i - 1) : a[j] = q[j]
      BY <2>3 DEF a
    <3>3. b \in Seq(Tasks) /\ Len(b) = Len(q) - i /\ \A j \in 1..(Len(q) - i) : b[j] = q[i + j]
      BY <2>4 DEF b
    <3>4. Leave(q, r) = a \o b
      BY <2>2 DEF a, b
    <3>5. /\ a \o b \in Seq(Tasks) /\ Len(a \o b) = Len(q) - 1
          /\ \A j \in 1..(Len(q) - 1) : (a \o b)[j] = IF j <= i - 1 THEN a[j] ELSE b[j - (i - 1)]
      <4>1. /\ a \o b \in Seq(Tasks) /\ Len(a \o b) = Len(a) + Len(b)
            /\ \A j \in 1..(Len(a) + Len(b)) : (a \o b)[j] = IF j <= Len(a) THEN a[j] ELSE b[j - Len(a)]
        BY <3>1, <3>2, <3>3
      <4>2. Len(a) = i - 1 /\ Len(a) + Len(b) = Len(q) - 1
        BY <3>2, <3>3
      <4> QED BY <4>1, <4>2
    <3>6. ASSUME NEW j \in 1..(Len(q) - 1) PROVE (a \o b)[j] = IF j < i THEN q[j] ELSE q[j + 1]
      <4>1. CASE j < i
        BY <4>1, <3>2, <3>5
      <4>2. CASE ~(j < i)
        <5>1. j - (i - 1) \in 1..(Len(q) - i) /\ i + (j - (i - 1)) = j + 1
          BY <4>2
        <5>2. b[j - (i - 1)] = q[j + 1]
          BY <5>1, <3>3
        <5> QED BY <4>2, <5>2, <3>5
      <4> QED BY <4>1, <4>2
    <3> QED BY <3>4, <3>5, <3>6
  <2> DEFINE l == Leave(q, r)
  <2> HIDE DEF l
  <2>6. l \in Seq(Tasks) /\ Len(l) = Len(q) - 1 /\ \A j \in 1..Len(l) : l[j] = IF j < i THEN q[j] ELSE q[j + 1]
    BY <2>5 DEF l
  <2>7. \A j \in 1..Len(l) : l[j] # r /\ \E k \in 1..Len(q) : l[j] = q[k]
    BY <2>2, <2>6 DEF Once
  <2>8. Once(l)
    BY <2>6 DEF Once
  <2> QED BY <2>6, <2>7, <2>8 DEF l
<1> QED BY <1>1, <1>2

(* What a task that does not wait leaves alone when it is answered. *)
LEMMA TaskAnswered ==
  ASSUME GateInv, NEW t \in Tasks, Answer(t), task[t].pc \notin {"half", "gate", "lock"},
         job' \in [Tasks -> JobRow], job'[t].pc = "none", \A u \in Tasks \ {t} : job'[u] = job[u],
         UNCHANGED <<gateQ, lockQ, store, db, archives, counts>>
  PROVE  GateInv'
<1> USE DEF GateInv, ArchivesAgree
<1>1. Idle \in GateRow /\ Idle.pc = "idle" /\ Idle.kind = "none"
  BY DEF Idle, GateRow, Steps
<1>2. task' \in [Tasks -> GateRow] /\ Alone(t) /\ task'[t] = Idle
  BY <1>1, TaskSet DEF Answer
<1>3. gate' \subseteq Tasks /\ lock' \in Tasks \cup {Nobody}
  BY DEF Answer, GateTypeOK
<1>4. GateTypeOK'
  BY <1>2, <1>3 DEF GateTypeOK, GateRow, JobRow, counts
<1>5. TaskSound(t)'
  BY <1>1, <1>2 DEF TaskSound, InGate, Answer
<1>6. \A u \in Tasks \ {t} : TaskSound(u)'
  <2>1. \A u \in Tasks \ {t} : u \in gate' <=> u \in gate
    BY DEF Answer
  <2> QED BY <1>2, <2>1, OthersSound
<1>7. WaitersSound'
  BY <1>2, WaitersStay
<1>8. WriterAlone'
  BY <1>2, WriterStays DEF Answer, Alone, GateTypeOK
<1>9. StoresDiffer'
  <2>1. t \notin Coming' /\ task'[t].pc # "half"
    BY <1>1, <1>2 DEF Coming
  <2> QED BY <1>2, <2>1, DistanceStays DEF counts
<1> QED BY <1>4, <1>5, <1>6, <1>7, <1>8, <1>9

(* A request comes and waits for the gate, and so does a scheduled backup. *)
LEMMA WaitsKeeps ==
  ASSUME GateInv, NEW t \in Tasks, NEW k \in Kinds \cup {"backup"}, k # "none",
         t \in Requests \/ k = "backup", task[t].pc \in {"idle", "due"}, Counted(k),
         task' = [task EXCEPT ![t] = [pc |-> "gate", kind |-> k]], gateQ' = Append(gateQ, t),
         UNCHANGED <<gate, lock, lockQ, data>>
  PROVE  GateInv'
<1> USE DEF GateInv, ArchivesAgree
<1> DEFINE row == [pc |-> "gate", kind |-> k]
<1>1. row \in GateRow /\ row.pc = "gate" /\ row.kind = k
  BY DEF GateRow, Steps
<1>2. task' \in [Tasks -> GateRow] /\ Alone(t) /\ task'[t].pc = "gate" /\ task'[t].kind = k
  BY <1>1, TaskSet
<1>3. /\ gateQ' \in Seq(Tasks) /\ Once(gateQ')
      /\ \A i \in 1..Len(gateQ') : gateQ'[i] = t \/ \E j \in 1..Len(gateQ) : gateQ'[i] = gateQ[j]
  <2>1. gateQ \in Seq(Tasks) /\ Once(gateQ) /\ \A i \in 1..Len(gateQ) : gateQ[i] # t
    BY DEF GateTypeOK, WaitersSound
  <2> QED BY <2>1, Joins
<1>4. /\ changes' \in 0..MaxChanges /\ backups' \in 0..MaxBackups /\ drops' = drops
      /\ changes' = IF k = "change" THEN changes + 1 ELSE changes
  BY BoundAssumption DEF Counted, GateTypeOK
<1>5. GateTypeOK'
  BY <1>2, <1>3, <1>4 DEF GateTypeOK, GateRow, data
<1>6. TaskSound(t)'
  BY <1>2 DEF TaskSound, InGate, data
<1>7. \A u \in Tasks \ {t} : TaskSound(u)'
  BY <1>2, OthersSound DEF data
<1>8. WaitersSound'
  <2>1. \A j \in 1..Len(gateQ) : gateQ[j] \in Tasks \ {t} /\ task'[gateQ[j]].pc = "gate"
    BY <1>2 DEF GateTypeOK, WaitersSound, Alone
  <2>2. \A j \in 1..Len(lockQ) : lockQ[j] \in Tasks \ {t} /\ task'[lockQ[j]].pc = "lock"
    BY <1>2 DEF GateTypeOK, WaitersSound, Alone
  <2>3. \A i \in 1..Len(gateQ') : task'[gateQ'[i]].pc = "gate"
    BY <1>2, <1>3, <2>1
  <2> QED BY <2>2, <2>3 DEF WaitersSound
<1>9. WriterAlone'
  <2>1. t \notin gate
    BY DEF TaskSound, InGate
  <2> QED BY <1>2, <2>1, WriterStays DEF Alone, GateTypeOK
<1>10. StoresDiffer'
  <2>1. Halves' = Halves
    BY <1>2 DEF Halves, Alone
  <2>2. CASE k = "change"
    <3>1. Coming' = Coming \cup {t} /\ t \notin Coming
      BY <1>2, <2>2 DEF Coming, Alone
    <3>2. IsFiniteSet(Coming') /\ Cardinality(Coming') = Cardinality(Coming) + 1
      BY <3>1, FS_AddElement DEF StoresDiffer
    <3>3. Cardinality(Coming) \in Nat
      BY FS_CardinalityType DEF StoresDiffer
    <3> QED BY <2>1, <2>2, <3>2, <3>3, <1>4 DEF StoresDiffer, data, GateTypeOK
  <2>3. CASE k # "change"
    <3>1. Coming' = Coming
      BY <1>2, <2>3 DEF Coming, Alone
    <3> QED BY <2>1, <2>3, <3>1, <1>4 DEF StoresDiffer, data
  <2> QED BY <2>2, <2>3
<1> QED BY <1>5, <1>6, <1>7, <1>8, <1>9, <1>10 DEF data

(* The head of the gate's queue comes in, a backup only alone. *)
LEMMA GrantGateKeeps == GateInv /\ GrantGate => GateInv'
<1> SUFFICES ASSUME GateInv, GrantGate PROVE GateInv'
  OBVIOUS
<1> USE DEF GateInv, ArchivesAgree
<1>1. PICK t \in Tasks : t = Head(gateQ)
  BY HeadLeaves DEF GrantGate, GateTypeOK
<1>2. /\ IF Writes(t) THEN gate = {} ELSE \A h \in gate : ~Writes(h)
      /\ gate' = gate \cup {t} /\ Goto(t, "enter") /\ gateQ' = Tail(gateQ)
      /\ UNCHANGED <<lock, lockQ, data, counts>>
  BY <1>1 DEF GrantGate
<1>3. task' \in [Tasks -> GateRow] /\ Alone(t) /\ task'[t].pc = "enter" /\ task'[t].kind = task[t].kind
  BY <1>2, TaskGoes DEF Steps
<1>4. gateQ \in Seq(Tasks) /\ Once(gateQ) /\ gateQ # <<>>
  BY DEF GrantGate, GateTypeOK
<1>5. /\ gateQ' \in Seq(Tasks) /\ Once(gateQ') /\ 1 \in 1..Len(gateQ) /\ t = gateQ[1]
      /\ \A i \in 1..Len(gateQ') : gateQ'[i] # t /\ \E j \in 1..Len(gateQ) : gateQ'[i] = gateQ[j]
  BY <1>1, <1>2, <1>4, HeadLeaves
<1>6. task[t].pc = "gate"
  BY <1>5 DEF WaitersSound
<1>7. GateTypeOK'
  BY <1>2, <1>3, <1>5 DEF GateTypeOK, GateRow, data, counts
<1>8. TaskSound(t)'
  BY <1>2, <1>3, <1>6 DEF TaskSound, InGate, data
<1>9. \A u \in Tasks \ {t} : TaskSound(u)'
  BY <1>2, <1>3, OthersSound DEF data
<1>10. WaitersSound'
  <2>1. \A j \in 1..Len(gateQ) : gateQ[j] # t => gateQ[j] \in Tasks \ {t} /\ task'[gateQ[j]].pc = "gate"
    BY <1>3 DEF GateTypeOK, WaitersSound, Alone
  <2>2. \A j \in 1..Len(lockQ) : lockQ[j] \in Tasks \ {t} /\ task'[lockQ[j]].pc = "lock"
    BY <1>3, <1>6 DEF GateTypeOK, WaitersSound, Alone
  <2>3. \A i \in 1..Len(gateQ') : task'[gateQ'[i]].pc = "gate"
    BY <1>5, <2>1
  <2> QED BY <1>2, <2>2, <2>3 DEF WaitersSound
<1>11. WriterAlone'
  <2>1. \A u \in gate' : Writes(u)' = Writes(u)
    BY <1>2, <1>3 DEF Writes, Alone, GateTypeOK
  <2> QED BY <1>2, <2>1 DEF WriterAlone
<1>12. StoresDiffer'
  <2>1. t \in Coming' => t \in Coming
    BY <1>3, <1>6 DEF Coming
  <2> QED BY <1>2, <1>3, <1>6, <2>1, DistanceStays DEF data, counts
<1> QED BY <1>2, <1>7, <1>8, <1>9, <1>10, <1>11, <1>12 DEF data

(* The head of the other queue gets scheduler_lock. *)
LEMMA GrantLockKeeps == GateInv /\ GrantLock => GateInv'
<1> SUFFICES ASSUME GateInv, GrantLock PROVE GateInv'
  OBVIOUS
<1> USE DEF GateInv, ArchivesAgree
<1>1. PICK t \in Tasks : t = Head(lockQ)
  BY HeadLeaves DEF GrantLock, GateTypeOK
<1>2. PICK pc \in Steps : pc = CASE t = Scheduler -> "due" [] t = Onboarding -> "onboard"
                                 [] task[t].kind = "delete_target" -> "delete" [] OTHER -> "change"
  BY DEF Steps
<1>3. /\ lock' = t /\ Goto(t, pc) /\ lockQ' = Tail(lockQ)
      /\ UNCHANGED <<gate, gateQ, data, counts>>
  BY <1>1, <1>2 DEF GrantLock
<1>4. task' \in [Tasks -> GateRow] /\ Alone(t) /\ task'[t].pc = pc /\ task'[t].kind = task[t].kind
  BY <1>3, TaskGoes
<1>5. lockQ \in Seq(Tasks) /\ Once(lockQ) /\ lockQ # <<>>
  BY DEF GrantLock, GateTypeOK
<1>6. /\ lockQ' \in Seq(Tasks) /\ Once(lockQ') /\ 1 \in 1..Len(lockQ) /\ t = lockQ[1]
      /\ \A i \in 1..Len(lockQ') : lockQ'[i] # t /\ \E j \in 1..Len(lockQ) : lockQ'[i] = lockQ[j]
  BY <1>1, <1>3, <1>5, HeadLeaves
<1>7. task[t].pc = "lock"
  BY <1>6 DEF WaitersSound
<1>8. \/ t \in Requests /\ pc = "delete" /\ task[t].kind = "delete_target"
      \/ t \notin Requests /\ pc \in {"due", "onboard"} /\ task[t].kind = "none"
  BY <1>2, <1>7, TaskAssumption DEF TaskSound, Tasks
<1>9. GateTypeOK'
  BY <1>3, <1>4, <1>6 DEF GateTypeOK, GateRow, data, counts
<1>10. TaskSound(t)'
  BY <1>3, <1>4, <1>7, <1>8 DEF TaskSound, InGate, data
<1>11. \A u \in Tasks \ {t} : TaskSound(u)'
  BY <1>3, <1>4, OthersSound DEF data
<1>12. WaitersSound'
  <2>1. \A j \in 1..Len(lockQ) : lockQ[j] # t => lockQ[j] \in Tasks \ {t} /\ task'[lockQ[j]].pc = "lock"
    BY <1>4 DEF GateTypeOK, WaitersSound, Alone
  <2>2. \A j \in 1..Len(gateQ) : gateQ[j] \in Tasks \ {t} /\ task'[gateQ[j]].pc = "gate"
    BY <1>4, <1>7 DEF GateTypeOK, WaitersSound, Alone
  <2>3. \A i \in 1..Len(lockQ') : task'[lockQ'[i]].pc = "lock"
    BY <1>6, <2>1
  <2> QED BY <1>3, <2>2, <2>3 DEF WaitersSound
<1>13. WriterAlone'
  BY <1>3, <1>4, WriterStays DEF Alone, GateTypeOK
<1>14. StoresDiffer'
  <2>1. task'[t].pc # "half" /\ task[t].pc # "half" /\ t \notin Coming'
    BY <1>4, <1>7, <1>8 DEF Coming
  <2> QED BY <1>3, <1>4, <2>1, DistanceStays DEF data, counts
<1> QED BY <1>3, <1>9, <1>10, <1>11, <1>12, <1>13, <1>14 DEF data

(* delete_target goes on to wait for scheduler_lock, and so does the       *)
(* scheduler or the onboarding poller.                                     *)
LEMMA WaitsForLockKeeps ==
  ASSUME GateInv, NEW t \in Tasks, Goto(t, "lock"), lockQ' = Append(lockQ, t),
         \/ t \in Requests /\ task[t].pc = "enter" /\ task[t].kind = "delete_target"
         \/ t \notin Requests /\ task[t].pc = "idle",
         UNCHANGED <<gate, gateQ, lock, data, counts>>
  PROVE  GateInv'
<1> USE DEF GateInv, ArchivesAgree
<1>1. task' \in [Tasks -> GateRow] /\ Alone(t) /\ task'[t].pc = "lock" /\ task'[t].kind = task[t].kind
  BY TaskGoes DEF Steps
<1>2. /\ lockQ' \in Seq(Tasks) /\ Once(lockQ')
      /\ \A i \in 1..Len(lockQ') : lockQ'[i] = t \/ \E j \in 1..Len(lockQ) : lockQ'[i] = lockQ[j]
  <2>1. lockQ \in Seq(Tasks) /\ Once(lockQ) /\ \A i \in 1..Len(lockQ) : lockQ[i] # t
    BY DEF GateTypeOK, WaitersSound
  <2> QED BY <2>1, Joins
<1>3. GateTypeOK'
  BY <1>1, <1>2 DEF GateTypeOK, GateRow, data, counts
<1>4. TaskSound(t)'
  BY <1>1 DEF TaskSound, InGate, data
<1>5. \A u \in Tasks \ {t} : TaskSound(u)'
  BY <1>1, OthersSound DEF data
<1>6. WaitersSound'
  <2>1. \A j \in 1..Len(gateQ) : gateQ[j] \in Tasks \ {t} /\ task'[gateQ[j]].pc = "gate"
    BY <1>1 DEF GateTypeOK, WaitersSound, Alone
  <2>2. \A j \in 1..Len(lockQ) : lockQ[j] \in Tasks \ {t} /\ task'[lockQ[j]].pc = "lock"
    BY <1>1 DEF GateTypeOK, WaitersSound, Alone
  <2>3. \A i \in 1..Len(lockQ') : task'[lockQ'[i]].pc = "lock"
    BY <1>1, <1>2, <2>2
  <2> QED BY <2>1, <2>3 DEF WaitersSound
<1>7. WriterAlone'
  BY <1>1, WriterStays DEF Alone, GateTypeOK
<1>8. StoresDiffer'
  <2>1. task'[t].pc # "half" /\ task[t].pc # "half" /\ t \notin Coming'
    BY <1>1 DEF Coming
  <2> QED BY <1>1, <2>1, DistanceStays DEF data, counts
<1> QED BY <1>3, <1>4, <1>5, <1>6, <1>7, <1>8 DEF data

(* The handler of a change or of a backup starts its work. *)
LEMMA StartsKeeps ==
  ASSUME GateInv, NEW t \in Tasks, task[t].pc = "enter", NEW pc \in {"change", "backup"}, Goto(t, pc),
         IF pc = "change" THEN task[t].kind = "change" /\ job' = job
         ELSE Writes(t) /\ job' = [job EXCEPT ![t] = [pc |-> "dump", db |-> 0]],
         UNCHANGED <<locks, store, db, archives, counts>>
  PROVE  GateInv'
<1> USE DEF GateInv, ArchivesAgree
<1>1. task' \in [Tasks -> GateRow] /\ Alone(t) /\ task'[t].pc = pc /\ task'[t].kind = task[t].kind
  BY TaskGoes DEF Steps
<1>2. [pc |-> "dump", db |-> 0] \in JobRow /\ job \in [Tasks -> JobRow]
  BY BoundAssumption DEF JobRow, GateTypeOK
<1>3. job' \in [Tasks -> JobRow] /\ \A u \in Tasks \ {t} : job'[u] = job[u]
  BY <1>2
<1>4. GateTypeOK'
  BY <1>1, <1>3 DEF GateTypeOK, GateRow, JobRow, locks, counts
<1>5. TaskSound(t)'
  <2>1. job'[t].pc # "copy" /\ (job'[t].pc # "none" => pc = "backup")
    BY <1>2 DEF TaskSound
  <2> QED BY <1>1, <2>1, TaskAssumption DEF TaskSound, InGate, locks, Writes
<1>6. \A u \in Tasks \ {t} : TaskSound(u)'
  BY <1>1, <1>3, OthersSound DEF locks
<1>7. WaitersSound'
  BY <1>1, WaitersStay DEF locks
<1>8. WriterAlone'
  BY <1>1, WriterStays DEF Alone, GateTypeOK, locks
<1>9. StoresDiffer'
  <2>1. task'[t].pc # "half" /\ task[t].pc # "half" /\ (t \in Coming' => t \in Coming)
    BY <1>1 DEF Coming
  <2> QED BY <1>1, <2>1, DistanceStays DEF counts
<1> QED BY <1>4, <1>5, <1>6, <1>7, <1>8, <1>9

(* What a request kind can be behind the gate. *)
LEMMA EnterHandlerKeeps == ASSUME GateInv, NEW t \in Tasks, EnterHandler(t) PROVE GateInv'
<1>1. task[t].kind # "delete_target" => task[t].kind = "change"
  BY BoundAssumption DEF EnterHandler, Writes, GateInv, TaskSound, ArchivesAgree, GateTypeOK
<1>2. t \in Requests
  BY DEF EnterHandler, Writes, GateInv, TaskSound
<1>3. CASE task[t].kind = "delete_target"
  BY <1>2, <1>3, WaitsForLockKeeps DEF EnterHandler
<1>4. CASE task[t].kind # "delete_target"
  <2>1. Goto(t, "change") /\ task[t].kind = "change" /\ task[t].pc = "enter" /\ job' = job
        /\ UNCHANGED <<locks, store, db, archives, counts>>
    BY <1>1, <1>4 DEF EnterHandler, locks, data
  <2> QED BY <2>1, StartsKeeps
<1> QED BY <1>3, <1>4

LEMMA StartBackupKeeps == ASSUME GateInv, NEW t \in Tasks, StartBackup(t) PROVE GateInv'
BY StartsKeeps DEF StartBackup

(* The first write of a change: the secret store is one further ahead. *)
LEMMA ChangeSecretStoreKeeps == ASSUME GateInv, NEW t \in Tasks, ChangeSecretStore(t) PROVE GateInv'
<1> USE DEF GateInv, ArchivesAgree
<1>1. task' \in [Tasks -> GateRow] /\ Alone(t) /\ task'[t].pc = "half" /\ task'[t].kind = task[t].kind
  BY TaskGoes DEF Steps, ChangeSecretStore
<1>2. task[t].pc = "change" /\ task[t].kind = "change" /\ t \in Requests
  BY DEF ChangeSecretStore, TaskSound
<1>3. store' = store + 1 /\ UNCHANGED <<locks, job, db, archives, counts>>
  BY DEF ChangeSecretStore
<1>4. Halves' = Halves \cup {t} /\ t \notin Halves /\ Coming' = Coming \ {t} /\ t \in Coming
  BY <1>1, <1>2 DEF Halves, Coming, Alone
<1>5. /\ IsFiniteSet(Halves') /\ Cardinality(Halves') = Cardinality(Halves) + 1
      /\ IsFiniteSet(Coming') /\ Cardinality(Coming') = Cardinality(Coming) - 1
  BY <1>4, FS_AddElement, FS_RemoveElement DEF StoresDiffer
<1>6. Cardinality(Halves) \in Nat /\ Cardinality(Coming) \in Nat /\ Cardinality(Coming') \in Nat
  BY <1>5, FS_CardinalityType DEF StoresDiffer
<1>7. store' \in 0..MaxChanges /\ StoresDiffer'
  <2>1. PICK half, coming \in Nat : half = Cardinality(Halves) /\ coming = Cardinality(Coming)
    BY <1>6
  <2>2. store = db + half /\ store + coming <= changes /\ coming - 1 \in Nat
    BY <1>5, <1>6, <2>1 DEF StoresDiffer
  <2>3. store \in Nat /\ db \in Nat /\ changes \in Nat /\ changes <= MaxChanges /\ MaxChanges \in Nat
    BY BoundAssumption DEF GateTypeOK
  <2>4. store' \in 0..MaxChanges /\ store' = db + (half + 1) /\ store' + (coming - 1) <= changes
    BY <1>3, <2>2, <2>3
  <2>5. db' = db /\ changes' = changes
    BY <1>3 DEF counts
  <2> QED BY <1>5, <2>1, <2>4, <2>5 DEF StoresDiffer
<1>8. StoresDiffer'
  BY <1>7
<1>9. GateTypeOK'
  BY <1>1, <1>3, <1>7 DEF GateTypeOK, GateRow, locks, counts
<1>10. TaskSound(t)'
  BY <1>1, <1>2, <1>3 DEF TaskSound, InGate, locks
<1>11. \A u \in Tasks \ {t} : TaskSound(u)'
  BY <1>1, <1>3, OthersSound DEF locks
<1>12. WaitersSound'
  BY <1>1, <1>2, <1>3, WaitersStay DEF locks
<1>13. WriterAlone'
  BY <1>1, <1>3, WriterStays DEF Alone, GateTypeOK, locks
<1> QED BY <1>3, <1>8, <1>9, <1>10, <1>11, <1>12, <1>13

(* The second: the database catches up.  No backup has dumped it, because  *)
(* a backup would be alone behind the gate.                                *)
LEMMA ChangeDatabaseKeeps == ASSUME GateInv, NEW t \in Tasks, ChangeDatabase(t) PROVE GateInv'
<1> USE DEF GateInv, ArchivesAgree
<1>1. Idle \in GateRow /\ Idle.pc = "idle" /\ Idle.kind = "none"
  BY DEF Idle, GateRow, Steps
<1>2. task' \in [Tasks -> GateRow] /\ Alone(t) /\ task'[t] = Idle
  BY <1>1, TaskSet DEF Answer, ChangeDatabase
<1>3. /\ task[t].pc = "half" /\ db' = db + 1 /\ gate' = gate \ {t} /\ lock' \in Tasks \cup {Nobody}
      /\ UNCHANGED <<gateQ, lockQ, job, store, archives, counts>>
  BY DEF ChangeDatabase, Answer, GateTypeOK
<1>4. t \in gate /\ job[t].pc = "none"
  BY <1>3 DEF TaskSound, InGate, GateTypeOK
<1>5. \A u \in Tasks : job[u].pc # "copy"
  <2> SUFFICES ASSUME NEW u \in Tasks, job[u].pc = "copy" PROVE FALSE
    OBVIOUS
  <2>1. task[u].pc = "backup" /\ Writes(u) /\ u \in gate
    BY DEF TaskSound, InGate, Writes
  <2>2. t = u
    BY <1>4, <2>1 DEF WriterAlone
  <2> QED BY <1>3, <2>1, <2>2
<1>6. Halves' = Halves \ {t} /\ t \in Halves /\ Coming' = Coming
  BY <1>1, <1>2, <1>3 DEF Halves, Coming, Alone
<1>7. IsFiniteSet(Halves') /\ Cardinality(Halves') = Cardinality(Halves) - 1
  BY <1>6, FS_RemoveElement DEF StoresDiffer
<1>8. Cardinality(Halves) \in Nat /\ Cardinality(Halves') \in Nat
  BY <1>7, FS_CardinalityType DEF StoresDiffer
<1>9. db' \in 0..MaxChanges
  BY <1>3, <1>7, <1>8, BoundAssumption DEF StoresDiffer, GateTypeOK
<1>10. StoresDiffer'
  BY <1>3, <1>6, <1>7, <1>8 DEF StoresDiffer, GateTypeOK, counts
<1>11. GateTypeOK'
  BY <1>2, <1>3, <1>9 DEF GateTypeOK, GateRow, counts
<1>12. TaskSound(t)'
  BY <1>1, <1>2, <1>3, <1>4, <1>5 DEF TaskSound, InGate
<1>13. \A u \in Tasks \ {t} : TaskSound(u)'
  <2>1. \A u \in Tasks \ {t} : u \in gate' <=> u \in gate
    BY <1>3
  <2> QED BY <1>2, <1>3, <1>5, <2>1, OthersSound
<1>14. WaitersSound'
  BY <1>2, <1>3, WaitersStay
<1>15. WriterAlone'
  BY <1>2, <1>3, WriterStays DEF Alone, GateTypeOK
<1> QED BY <1>3, <1>10, <1>11, <1>12, <1>13, <1>14, <1>15

(* A blocking task that fails or copies ends. *)
LEMMA JobKeeps ==
  ASSUME GateInv, NEW t \in Tasks, NEW row \in JobRow, job[t].pc \in {"dump", "copy"},
         job' = [job EXCEPT ![t] = row], row.pc = "copy" => row.db = db,
         archives' \subseteq [db : 0..MaxChanges, store : 0..MaxChanges], \A a \in archives' : a.db = a.store,
         UNCHANGED <<task, locks, store, db, counts>>
  PROVE  GateInv'
<1> USE DEF GateInv, ArchivesAgree
<1>1. job' \in [Tasks -> JobRow] /\ job'[t] = row /\ \A u \in Tasks \ {t} : job'[u] = job[u]
  BY DEF GateTypeOK, JobRow
<1>2. GateTypeOK'
  BY <1>1 DEF GateTypeOK, JobRow, locks, counts
<1>3. TaskSound(t)'
  BY <1>1 DEF TaskSound, InGate, locks
<1>4. \A u \in Tasks \ {t} : TaskSound(u)'
  BY <1>1, OthersSound DEF locks, Alone
<1>5. WaitersSound' /\ WriterAlone'
  BY DEF WaitersSound, WriterAlone, Writes, locks
<1>6. StoresDiffer'
  BY DistanceFixed DEF counts
<1> QED BY <1>2, <1>3, <1>4, <1>5, <1>6

LEMMA JobStepKeeps == ASSUME GateInv, NEW t \in Tasks, Job(t) PROVE GateInv'
<1> USE DEF GateInv, ArchivesAgree
<1>1. CASE DumpDatabase(t)
  <2>1. [pc |-> "copy", db |-> db] \in JobRow
    BY DEF JobRow, GateTypeOK
  <2> QED BY <1>1, <2>1, JobKeeps DEF DumpDatabase, GateTypeOK
<1>2. CASE CopySecrets(t)
  <2>1. [pc |-> "ended", db |-> 0] \in JobRow
    BY BoundAssumption DEF JobRow
  <2>2. task[t].pc = "backup" /\ Writes(t) /\ t \in gate /\ job[t].db = db
    BY <1>2 DEF CopySecrets, TaskSound, InGate, Writes
  <2>3. Halves = {}
    <3> SUFFICES ASSUME NEW u \in Tasks, task[u].pc = "half" PROVE FALSE
      BY DEF Halves
    <3>1. u \in gate
      BY DEF TaskSound, InGate
    <3> QED BY <2>2, <3>1 DEF WriterAlone
  <2>4. store = db
    BY <2>3, FS_EmptySet DEF StoresDiffer, GateTypeOK
  <2>5. /\ archives' \subseteq [db : 0..MaxChanges, store : 0..MaxChanges]
        /\ \A a \in archives' : a.db = a.store
    BY <1>2, <2>2, <2>4 DEF CopySecrets, GateTypeOK
  <2> QED BY <1>2, <2>1, <2>5, JobKeeps DEF CopySecrets
<1>3. CASE BackupFails(t)
  <2>1. [pc |-> "ended", db |-> 0] \in JobRow
    BY BoundAssumption DEF JobRow
  <2> QED BY <1>3, <2>1, JobKeeps DEF BackupFails, GateTypeOK
<1> QED BY <1>1, <1>2, <1>3 DEF Job

(* The end of a backup: the guard is dropped and a request is answered. *)
LEMMA FinishBackupKeeps == ASSUME GateInv, NEW t \in Tasks, FinishBackup(t) PROVE GateInv'
<1> USE DEF GateInv, ArchivesAgree
<1>1. NoJob \in JobRow /\ NoJob.pc = "none"
  BY BoundAssumption DEF NoJob, JobRow
<1>2. job' \in [Tasks -> JobRow] /\ job'[t].pc = "none" /\ \A u \in Tasks \ {t} : job'[u] = job[u]
  BY <1>1 DEF FinishBackup, GateTypeOK, JobRow
<1>3. task[t].pc = "backup"
  BY DEF FinishBackup, TaskSound
<1>4. CASE t # Scheduler
  <2>1. Answer(t) /\ UNCHANGED <<gateQ, lockQ, store, db, archives, counts>>
    BY <1>3, <1>4 DEF FinishBackup
  <2> QED BY <1>2, <1>3, <2>1, TaskAnswered
<1>5. CASE t = Scheduler
  <2>1. /\ task' = [task EXCEPT ![t] = [pc |-> "due", kind |-> "none"]]
        /\ gate' = gate \ {t} /\ UNCHANGED <<lock, gateQ, lockQ, store, db, archives, counts>>
    BY <1>3, <1>5 DEF FinishBackup
  <2>2. [pc |-> "due", kind |-> "none"] \in GateRow
    BY DEF GateRow, Steps
  <2>3. task' \in [Tasks -> GateRow] /\ Alone(t) /\ task'[t].pc = "due" /\ task'[t].kind = "none"
    BY <2>1, <2>2, TaskSet
  <2>4. GateTypeOK'
    BY <1>2, <2>1, <2>3 DEF GateTypeOK, GateRow, JobRow, counts
  <2>5. TaskSound(t)'
    BY <1>2, <2>1, <2>3 DEF TaskSound, InGate
  <2>6. \A u \in Tasks \ {t} : TaskSound(u)'
    <3>1. \A u \in Tasks \ {t} : u \in gate' <=> u \in gate
      BY <2>1
    <3> QED BY <1>2, <2>1, <2>3, <3>1, OthersSound
  <2>7. WaitersSound'
    BY <1>3, <2>1, <2>3, WaitersStay
  <2>8. WriterAlone'
    BY <2>1, <2>3, WriterStays DEF Alone, GateTypeOK
  <2>9. StoresDiffer'
    <3>1. task'[t].pc # "half" /\ t \notin Coming'
      BY <2>3 DEF Coming
    <3> QED BY <1>3, <2>1, <2>3, <3>1, DistanceStays DEF counts
  <2> QED BY <2>1, <2>4, <2>5, <2>6, <2>7, <2>8, <2>9
<1> QED BY <1>4, <1>5

(* The client of a deletion goes away: its place in the queues and its     *)
(* guards go with it.                                                      *)
LEMMA DropKeeps == ASSUME UndroppedBackups, GateInv, NEW t \in Requests, Drop(t) PROVE GateInv'
<1> USE DEF GateInv, ArchivesAgree
<1>1. t \in Tasks /\ task[t].kind = "delete_target"
  BY DEF UndroppedBackups, Drop, Tasks
<1>2. task[t].pc \notin {"half", "backup"} /\ job[t].pc = "none"
  BY <1>1 DEF TaskSound, GateTypeOK
<1>3. /\ gateQ' = Leave(gateQ, t) /\ lockQ' = Leave(lockQ, t) /\ drops' \in 0..MaxDrops
      /\ gate' = gate \ {t} /\ lock' \in Tasks \cup {Nobody}
      /\ UNCHANGED <<job, store, db, archives, changes, backups>>
  BY BoundAssumption DEF Drop, Answer, data, GateTypeOK
<1>4. Idle \in GateRow /\ Idle.pc = "idle" /\ Idle.kind = "none"
  BY DEF Idle, GateRow, Steps
<1>5. task' \in [Tasks -> GateRow] /\ Alone(t) /\ task'[t] = Idle
  BY <1>1, <1>4, TaskSet DEF Answer, Drop
<1>6. /\ gateQ' \in Seq(Tasks) /\ Once(gateQ')
      /\ \A i \in 1..Len(gateQ') : gateQ'[i] # t /\ \E j \in 1..Len(gateQ) : gateQ'[i] = gateQ[j]
  <2>1. PICK q \in Seq(Tasks) : q = gateQ /\ Once(q)
    BY DEF GateTypeOK
  <2>2. /\ Leave(q, t) \in Seq(Tasks) /\ Once(Leave(q, t))
        /\ \A i \in 1..Len(Leave(q, t)) : Leave(q, t)[i] # t /\ \E j \in 1..Len(q) : Leave(q, t)[i] = q[j]
    BY <1>1, <2>1, LeaverGone
  <2>3. gateQ' = Leave(q, t)
    BY <1>3, <2>1
  <2> QED BY <2>1, <2>2, <2>3
<1>7. /\ lockQ' \in Seq(Tasks) /\ Once(lockQ')
      /\ \A i \in 1..Len(lockQ') : lockQ'[i] # t /\ \E j \in 1..Len(lockQ) : lockQ'[i] = lockQ[j]
  <2>1. PICK q \in Seq(Tasks) : q = lockQ /\ Once(q)
    BY DEF GateTypeOK
  <2>2. /\ Leave(q, t) \in Seq(Tasks) /\ Once(Leave(q, t))
        /\ \A i \in 1..Len(Leave(q, t)) : Leave(q, t)[i] # t /\ \E j \in 1..Len(q) : Leave(q, t)[i] = q[j]
    BY <1>1, <2>1, LeaverGone
  <2>3. lockQ' = Leave(q, t)
    BY <1>3, <2>1
  <2> QED BY <2>1, <2>2, <2>3
<1>8. GateTypeOK'
  BY <1>3, <1>5, <1>6, <1>7 DEF GateTypeOK, GateRow
<1>9. TaskSound(t)'
  BY <1>2, <1>3, <1>4, <1>5 DEF TaskSound, InGate
<1>10. \A u \in Tasks \ {t} : TaskSound(u)'
  <2>1. \A u \in Tasks \ {t} : u \in gate' <=> u \in gate
    BY <1>3
  <2> QED BY <1>1, <1>3, <1>5, <2>1, OthersSound
<1>11. WaitersSound'
  <2>1. \A j \in 1..Len(gateQ) : gateQ[j] # t => gateQ[j] \in Tasks \ {t} /\ task'[gateQ[j]].pc = "gate"
    BY <1>5 DEF GateTypeOK, WaitersSound, Alone
  <2>2. \A j \in 1..Len(lockQ) : lockQ[j] # t => lockQ[j] \in Tasks \ {t} /\ task'[lockQ[j]].pc = "lock"
    BY <1>5 DEF GateTypeOK, WaitersSound, Alone
  <2>3. \A i \in 1..Len(gateQ') : task'[gateQ'[i]].pc = "gate"
    BY <1>6, <2>1
  <2>4. \A i \in 1..Len(lockQ') : task'[lockQ'[i]].pc = "lock"
    BY <1>7, <2>2
  <2> QED BY <2>3, <2>4 DEF WaitersSound
<1>12. WriterAlone'
  BY <1>3, <1>5, WriterStays DEF Alone, GateTypeOK
<1>13. StoresDiffer'
  <2>1. task'[t].pc # "half" /\ task[t].pc # "half" /\ t \notin Coming'
    BY <1>2, <1>4, <1>5 DEF Coming
  <2> QED BY <1>1, <1>3, <1>5, <2>1, DistanceStays
<1> QED BY <1>3, <1>8, <1>9, <1>10, <1>11, <1>12, <1>13

LEMMA GateNextKeeps == UndroppedBackups /\ GateInv /\ [GateNext]_gateVars => GateInv'
<1> SUFFICES ASSUME UndroppedBackups, GateInv, [GateNext]_gateVars PROVE GateInv'
  OBVIOUS
<1>1. ASSUME NEW t \in Tasks, Answer(t), task[t].pc \in {"delete", "due", "onboard"},
             UNCHANGED <<gateQ, lockQ, data, counts>>
      PROVE  GateInv'
  <2>1. job \in [Tasks -> JobRow] /\ job[t].pc = "none" /\ UNCHANGED <<job, store, db, archives>>
    BY <1>1 DEF GateInv, ArchivesAgree, GateTypeOK, JobRow, TaskSound, data
  <2> QED BY <1>1, <2>1, TaskAnswered
<1>2. ASSUME NEW r \in Requests, NEW k \in Kinds, Arrive(r, k) PROVE GateInv'
  <2>1. r \in Tasks /\ k # "none" /\ task[r].pc = "idle"
    BY <1>2, BoundAssumption DEF Tasks, Arrive, Idle
  <2> QED BY <1>2, <2>1, WaitsKeeps DEF Arrive
<1>3. ASSUME NEW t \in Tasks, Step(t) PROVE GateInv'
  <2>1. CASE DeleteTarget(t)
    BY <1>1, <2>1 DEF DeleteTarget
  <2> QED BY <1>3, <2>1, EnterHandlerKeeps, ChangeSecretStoreKeeps, ChangeDatabaseKeeps, StartBackupKeeps,
              FinishBackupKeeps DEF Step
<1>4. ASSUME NEW t \in Tasks, Tick(t) PROVE GateInv'
  <2>1. t \notin Requests /\ task[t].pc = "idle"
    BY <1>4, TaskAssumption DEF Tick, Idle
  <2> QED BY <1>4, <2>1, WaitsForLockKeeps DEF Tick
<1>5. Scheduler \in Tasks /\ Onboarding \in Tasks
  BY DEF Tasks
<1>6. CASE ScheduledBackup
  BY <1>5, <1>6, WaitsKeeps DEF ScheduledBackup
<1>7. CASE EndPoll
  BY <1>1, <1>5, <1>7 DEF EndPoll
<1>8. CASE EndOnboarding
  BY <1>1, <1>5, <1>8 DEF EndOnboarding
<1>9. CASE UNCHANGED gateVars
  <2>1. UNCHANGED <<task, gate, gateQ, lock, lockQ, job, store, db, archives, changes, backups, drops>>
    BY <1>9 DEF gateVars, locks, data, counts
  <2>2. StoresDiffer'
    BY <2>1, DistanceFixed DEF GateInv
  <2>3. ArchivesAgree'
    BY <2>1 DEF GateInv, ArchivesAgree, GateTypeOK, Once
  <2>4. \A t \in Tasks : TaskSound(t)'
    BY <2>1 DEF GateInv, TaskSound, InGate
  <2>5. WaitersSound' /\ WriterAlone'
    BY <2>1 DEF GateInv, WaitersSound, WriterAlone, Writes
  <2> QED BY <2>2, <2>3, <2>4, <2>5 DEF GateInv
<1> QED BY <1>2, <1>3, <1>4, <1>6, <1>7, <1>8, <1>9, JobStepKeeps, DropKeeps, GrantGateKeeps, GrantLockKeeps DEF GateNext

(* For any number of requests, changes and backups, whatever the order in  *)
(* which the two locks are handed on, a finished backup holds the database *)
(* and the secret store of one moment, as long as only deletions are cut   *)
(* off by their client (request_middleware and create_backup, whose guard  *)
(* lives as long as the request).                                          *)
THEOREM ArchivesAgreeUndropped == UndroppedBackups => (GateSpec => []ArchivesAgree)
<1>1. GateInv => ArchivesAgree
  BY DEF GateInv
<1>2. ASSUME UndroppedBackups PROVE GateInv /\ [GateNext]_gateVars => GateInv'
  BY <1>2, GateNextKeeps
<1>3. ASSUME UndroppedBackups PROVE GateSpec => []ArchivesAgree
  BY <1>1, <1>2, <1>3, InitGate, PTL DEF GateSpec
<1> QED BY <1>3
=============================================================================
