---------------------------- MODULE BackupFiles ----------------------------
(* The archives of a controller, as files.  A backup runs on a blocking     *)
(* thread: it stages a dump and a copy of the secret files, encrypts them   *)
(* under a hidden name, renames the result and removes what is older than   *)
(* the retention.  A second backup may overlap it, and the secret files may *)
(* change beside the copy, when the request that holds the gate was dropped *)
(* (BackupGate).                                                            *)
EXTENDS Integers, FiniteSets

CONSTANTS
  Backups,        \* backups of a behaviour
  StoredSecrets,  \* secrets whose files come and go
  Retention,      \* LXCUP_BACKUP_RETENTION_DAYS
  MaxDays,        \* bound: days that pass
  MaxHitches      \* bound: file operations that fail, and crashes
ASSUME RetentionAssumption == Retention \in Nat \ {0} /\ {MaxDays, MaxHitches} \subseteq Nat

VARIABLES
  day,        \* the clock
  life,       \* where the two files of each secret stand
  backup,     \* step of each backup, files it copied, must still meet and may still prune
  archive,    \* its file: name, age and content
  promised,   \* history: backups answered with success, and the age they were given
  hitches
fileVars == <<day, life, backup, archive, promised, hitches>>

\* Files of a secret in the secret store; identifiers are not used again.
FilesOf(stage) ==
  CASE stage \in {"new", "gone"} -> {} [] stage = "kept" -> {"json", "enc"}
    [] stage \in {"creating", "deleting", "half"} -> {"json"} [] stage = "torn" -> {"enc"}
SecretDir == {f \in StoredSecrets \X {"json", "enc"} : f[2] \in FilesOf(life[f[1]])}
NoArchive == [name |-> "none", whole |-> FALSE, modified |-> 0, secrets |-> {}]
NotStarted == [at |-> "new", copied |-> {}, must |-> {}, prune |-> {}]

FilesInit ==
  /\ day = 0 /\ life = [s \in StoredSecrets |-> "new"]
  /\ backup = [b \in Backups |-> NotStarted] /\ archive = [b \in Backups |-> NoArchive]
  /\ promised = {} /\ hitches = 0

BackupAt(b, step) == backup[b].at = step
BackupGoes(b, step) == backup' = [backup EXCEPT ![b].at = step]
Hitch == hitches < MaxHitches /\ hitches' = hitches + 1

DayPasses ==
  /\ day < MaxDays /\ day' = day + 1
  /\ UNCHANGED <<life, backup, archive, promised, hitches>>

\* An open directory stream need not meet a file that goes.
FilesBecome(s, stage) ==
  /\ life' = [life EXCEPT ![s] = stage]
  /\ backup' = [b \in Backups |-> [backup[b] EXCEPT !.must = {f \in @ : f[1] # s \/ f[2] \in FilesOf(stage)}]]
  /\ UNCHANGED <<day, archive, promised>>
\* create: the metadata, then the value; a value that cannot be written
\* takes the metadata with it, and may leave a cut-off file.
CreateSecretFiles(s) ==
  \/ life[s] = "new" /\ FilesBecome(s, "creating") /\ UNCHANGED hitches
  \/ life[s] = "creating" /\ FilesBecome(s, "kept") /\ UNCHANGED hitches
  \/ life[s] = "creating" /\ Hitch /\ \E stage \in {"gone", "torn"} : FilesBecome(s, stage)
\* delete: the value, then the metadata.
DeleteSecretFiles(s) ==
  \/ life[s] = "kept" /\ FilesBecome(s, "deleting") /\ UNCHANGED hitches
  \/ life[s] = "deleting" /\ FilesBecome(s, "gone") /\ UNCHANGED hitches
  \/ life[s] = "deleting" /\ Hitch /\ FilesBecome(s, "half")

\* create_encrypted_backup_with: staging directory and dump.
StageBackup(b) ==
  /\ BackupAt(b, "new")
  /\ backup' = [backup EXCEPT ![b].at = "copy", ![b].must = SecretDir]
  /\ UNCHANGED <<day, life, archive, promised, hitches>>

\* copy_encrypted_secrets, file by file in the order of the directory.
CopySecretFile(b) ==
  /\ BackupAt(b, "copy")
  /\ \E f \in SecretDir \ backup[b].copied :
       backup' = [backup EXCEPT ![b].copied = @ \cup {f}, ![b].must = @ \ {f}]
  /\ UNCHANGED <<day, life, archive, promised, hitches>>

CopiedIds(b, extension) == {s \in StoredSecrets : <<s, extension>> \in backup[b].copied}
\* metadata_ids = ciphertext_ids
PairsMatch(b) == CopiedIds(b, "json") = CopiedIds(b, "enc")
CopyEnds(b) ==
  /\ BackupAt(b, "copy") /\ backup[b].must = {}
  /\ BackupGoes(b, IF PairsMatch(b) THEN "encrypt" ELSE "failed")
  /\ UNCHANGED <<day, life, archive, promised, hitches>>

\* Mutant: the archive is written under its final name.
EncryptInPlace(b) ==
  /\ BackupAt(b, "encrypt") /\ BackupGoes(b, "encrypting")
  /\ archive' = [archive EXCEPT ![b] = [name |-> "lxcup", whole |-> FALSE, modified |-> day, secrets |-> backup[b].copied]]
  /\ UNCHANGED <<day, life, promised, hitches>>
\* encrypt_archive creates the .partial file and fills it.
EncryptStarts(b) ==
  /\ BackupAt(b, "encrypt") /\ BackupGoes(b, "encrypting")
  /\ archive' = [archive EXCEPT ![b] = [name |-> "partial", whole |-> FALSE, modified |-> day, secrets |-> backup[b].copied]]
  /\ UNCHANGED <<day, life, promised, hitches>>
EncryptEnds(b) ==
  /\ BackupAt(b, "encrypting") /\ BackupGoes(b, "rename")
  /\ archive' = [archive EXCEPT ![b].whole = TRUE, ![b].modified = day]
  /\ UNCHANGED <<day, life, promised, hitches>>

\* list_backup_files and download_backup go by the name; the limit of the
\* list hides the oldest and keeps their files.
Visible == {b \in Backups : archive[b].name = "lxcup"}
RenameArchive(b) ==
  /\ BackupAt(b, "rename")
  /\ archive' = [archive EXCEPT ![b].name = "lxcup"]
  /\ backup' = [backup EXCEPT ![b].at = "prune", ![b].prune = Visible \cup {b}]
  /\ UNCHANGED <<day, life, promised, hitches>>

\* modified < cutoff
Expired(b) == archive[b].modified < day - Retention
\* prune_expired_backups; a file another backup has removed ends it, and the
\* backup succeeds all the same.
PruneOne(b) ==
  /\ BackupAt(b, "prune")
  /\ \E f \in backup[b].prune :
       /\ backup' = [backup EXCEPT ![b].prune = IF f \in Visible THEN @ \ {f} ELSE {}]
       /\ archive' = IF f \in Visible /\ Expired(f) THEN [archive EXCEPT ![f] = NoArchive] ELSE archive
  /\ UNCHANGED <<day, life, promised, hitches>>
PruneFails(b) ==
  /\ BackupAt(b, "prune") /\ backup[b].prune # {} /\ Hitch
  /\ backup' = [backup EXCEPT ![b].prune = {}]
  /\ UNCHANGED <<day, life, archive, promised>>

\* info_for_file
AnswerBackup(b) ==
  /\ BackupAt(b, "prune") /\ backup[b].prune = {}
  /\ BackupGoes(b, IF b \in Visible THEN "done" ELSE "failed")
  /\ promised' = IF b \in Visible THEN promised \cup {<<b, archive[b].modified>>} ELSE promised
  /\ UNCHANGED <<day, life, archive, hitches>>

\* A step fails: the staging directory goes with PrivateDirectory, and the
\* .partial file is removed.
FileStepFails(b) ==
  /\ backup[b].at \in {"copy", "encrypt", "encrypting", "rename"} /\ Hitch
  /\ BackupGoes(b, "failed") /\ archive' = [archive EXCEPT ![b] = NoArchive]
  /\ UNCHANGED <<day, life, promised>>
\* The process stops: staging and .partial files stay behind.
ControllerCrashes ==
  /\ Hitch
  /\ life' = [s \in StoredSecrets |-> IF life[s] \in {"creating", "deleting"} THEN "half" ELSE life[s]]
  /\ backup' = [b \in Backups |-> IF backup[b].at \in {"new", "done"} THEN backup[b]
                                  ELSE [NotStarted EXCEPT !.at = "failed"]]
  /\ UNCHANGED <<day, archive, promised>>

BackupStep(b) ==
  \/ StageBackup(b) \/ CopySecretFile(b) \/ CopyEnds(b) \/ EncryptStarts(b) \/ EncryptEnds(b)
  \/ RenameArchive(b) \/ PruneOne(b) \/ PruneFails(b) \/ AnswerBackup(b) \/ FileStepFails(b)
FilesNext ==
  \/ DayPasses \/ ControllerCrashes
  \/ \E s \in StoredSecrets : CreateSecretFiles(s) \/ DeleteSecretFiles(s)
  \/ \E b \in Backups : BackupStep(b)
FilesSpec == FilesInit /\ [][FilesNext]_fileVars

----------------------------------------------------------------------------
(* Properties *)

(* Whatever failed, crashed or overlapped: a backup that can be listed or   *)
(* downloaded is written to its end and holds of every secret both files or *)
(* neither: that is what a restored controller starts from.                 *)
VisibleIsComplete ==
  \A b \in Visible :
    /\ archive[b].whole
    /\ \A s \in StoredSecrets : <<s, "json">> \in archive[b].secrets <=> <<s, "enc">> \in archive[b].secrets

(* A backup answered with success stays for the days of the retention,      *)
(* although every later backup, also one that overlaps it, prunes.          *)
PromisedIsKept == \A p \in promised : p[1] \in Visible \/ p[2] < day - Retention

(* What a restore needs is there: every backup that can be listed is whole, *)
(* and one answered with success is not pruned before its time.             *)
ArchivesSafe == VisibleIsComplete /\ PromisedIsKept
=============================================================================
