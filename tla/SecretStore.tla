---------------------------- MODULE SecretStore ----------------------------
(* The encrypted file provider of lxcup-secrets (EncryptedFileSecretStore), *)
(* used by the controller and the worker from several threads and without   *)
(* a lock.  A secret is two files, its metadata and its encrypted value;    *)
(* fs::write empties a file and then fills it, so an operation is a row of  *)
(* file steps that others may fall between, that may fail or be cut off by  *)
(* a crash.  A payload cut short fails its authentication: what a value     *)
(* file holds is the payload of one write or `Torn'.                        *)
EXTENDS Naturals, FiniteSets

CONSTANTS
  Holders,    \* threads that use the store
  Entries,    \* secrets
  Payloads,   \* secret values
  Absent,     \* no file, or no value
  MaxOps,     \* bound: operations in a behaviour
  MaxMishaps  \* bound: file operations that fail, and crashes
\* The marks of a missing, a torn and a readable file differ, and none is a value.
ASSUME PayloadAssumption ==
  Absent \notin Payloads \cup {"torn", "active", "revoked"} /\ "torn" \notin Payloads

VARIABLES
  meta,     \* the metadata file of a secret: Absent, "torn", or its status
  value,    \* the value file: Absent, "torn" or a payload
  op,       \* what each holder is doing
  given,    \* history: payloads that were written for a secret
  spoiled,  \* history: secrets whose changes overlapped or stopped half-way
  window,   \* history: values the secret had, active, during a holder's read
  left      \* operations and mishaps left
storeVars == <<meta, value, op, given, spoiled, window, left>>

Rest == [kind |-> "none", sec |-> Absent, new |-> Absent, at |-> "done", copy |-> Absent, got |-> Absent]
Changes == {"create", "update", "rewrap", "revoke", "delete"}
FileSteps == {"done", "meta", "get", "emptyValue", "fillValue", "emptyMeta", "fillMeta", "removeValue", "removeMeta"}

StoreInit ==
  /\ meta = [s \in Entries |-> Absent] /\ value = [s \in Entries |-> Absent]
  /\ op = [h \in Holders |-> Rest]
  /\ given = [s \in Entries |-> {}] /\ spoiled = {}
  /\ window = [h \in Holders |-> {}]
  /\ left = [ops |-> MaxOps, mishaps |-> MaxMishaps]

Changing(h, s) == op[h].sec = s /\ op[h].kind \in Changes /\ op[h].at # "done"
Goes(h, step) == op' = [op EXCEPT ![h].at = step]
Ends(h) == Goes(h, "done")

\* An operation is called; SecretMetadata::new draws an unused identifier.
Begin(h, kind, s, v) ==
  /\ op[h].at = "done" /\ left.ops > 0
  /\ left' = [left EXCEPT !.ops = @ - 1]
  /\ (kind = "create") = (given[s] = {})
  /\ kind \in {"create", "update"} \/ v = Absent
  /\ v = Absent => kind \notin {"create", "update"}
  /\ op' = [op EXCEPT ![h] = [Rest EXCEPT !.kind = kind, !.sec = s, !.new = v,
                                          !.at = IF kind = "create" THEN "emptyMeta" ELSE "meta",
                                          !.copy = IF kind = "create" THEN "active" ELSE Absent]]
  /\ given' = [given EXCEPT ![s] = @ \cup ({v} \ {Absent})]
  /\ spoiled' = IF kind \in Changes /\ \E g \in Holders : Changing(g, s) THEN spoiled \cup {s} ELSE spoiled
  /\ UNCHANGED <<meta, value>>

AfterMetadata(kind) ==
  CASE kind \in {"read", "rewrap"} -> "get" [] kind = "update" -> "emptyValue"
    [] kind = "revoke" -> "emptyMeta" [] kind = "delete" -> "removeValue"

\* read_metadata, and the test of the status in read and update.
ReadMetadata(h) ==
  LET found == meta[op[h].sec]  kind == op[h].kind IN
  /\ op[h].at = "meta"
  /\ IF found \in {Absent, "torn"} \/ (kind \in {"read", "rewrap", "update"} /\ found # "active")
       THEN Ends(h)
       ELSE op' = [op EXCEPT ![h].copy = found, ![h].at = AfterMetadata(kind)]
  /\ UNCHANGED <<meta, value, given, spoiled, left>>

\* The payload as the value of a read; rewrap goes on to write it again.
Decrypt(h) ==
  LET found == value[op[h].sec] IN
  /\ op[h].at = "get"
  /\ IF found \in {Absent, "torn"} THEN Ends(h)
     ELSE IF op[h].kind = "rewrap" THEN op' = [op EXCEPT ![h].new = found, ![h].at = "emptyValue"]
     ELSE op' = [op EXCEPT ![h].got = found, ![h].at = "done"]
  /\ UNCHANGED <<meta, value, given, spoiled, left>>

\* write_encrypted and write_secret_bytes: the two halves of fs::write.
WriteEncrypted(h) ==
  LET s == op[h].sec IN
  /\ \/ op[h].at = "emptyValue" /\ value' = [value EXCEPT ![s] = "torn"] /\ Goes(h, "fillValue")
     \/ op[h].at = "fillValue" /\ value' = [value EXCEPT ![s] = op[h].new]
          /\ IF op[h].kind = "update" THEN Goes(h, "emptyMeta") ELSE Ends(h)
  /\ UNCHANGED <<meta, given, spoiled, left>>

\* write_metadata: the copy the operation read, revoked if that is the call.
WriteMetadata(h) ==
  LET s == op[h].sec IN
  /\ \/ op[h].at = "emptyMeta" /\ meta' = [meta EXCEPT ![s] = "torn"] /\ Goes(h, "fillMeta")
     \/ op[h].at = "fillMeta"
          /\ meta' = [meta EXCEPT ![s] = IF op[h].kind = "revoke" THEN "revoked" ELSE op[h].copy]
          /\ IF op[h].kind = "create" THEN Goes(h, "emptyValue") ELSE Ends(h)
  /\ UNCHANGED <<value, given, spoiled, left>>

\* Mutant: the metadata is removed first.
RemoveMetadataFirst(h) ==
  LET s == op[h].sec IN
  /\ \/ op[h].at = "removeValue" /\ meta' = [meta EXCEPT ![s] = Absent] /\ Goes(h, "removeMeta") /\ UNCHANGED value
     \/ op[h].at = "removeMeta" /\ value' = [value EXCEPT ![s] = Absent] /\ Ends(h) /\ UNCHANGED meta
  /\ UNCHANGED <<given, spoiled, left>>

\* delete: the value first; a missing file is an error and ends it.
RemoveFiles(h) ==
  LET s == op[h].sec IN
  /\ \/ op[h].at = "removeValue"
          /\ value' = [value EXCEPT ![s] = Absent] /\ UNCHANGED meta
          /\ IF value[s] = Absent THEN Ends(h) ELSE Goes(h, "removeMeta")
     \/ op[h].at = "removeMeta" /\ meta' = [meta EXCEPT ![s] = Absent] /\ Ends(h) /\ UNCHANGED value
  /\ UNCHANGED <<given, spoiled, left>>

\* A file operation fails: what a write left is torn, or whole when only the
\* permissions failed; a creation takes its metadata back.
FileFails(h) ==
  LET s == op[h].sec IN
  /\ op[h].at \notin {"done", "meta", "get"} /\ left.mishaps > 0
  /\ left' = [left EXCEPT !.mishaps = @ - 1]
  /\ \E kept \in {value[s]} \cup IF op[h].at = "fillValue" THEN {op[h].new} ELSE {} :
       value' = [value EXCEPT ![s] = kept]
  /\ meta' = IF op[h].kind = "create" /\ op[h].at \in {"emptyValue", "fillValue"}
               THEN [meta EXCEPT ![s] = Absent] ELSE meta
  /\ Ends(h) /\ spoiled' = spoiled \cup {s}
  /\ UNCHANGED given

\* The processes stop and start again; the files stay as they are.
StoreCrash ==
  /\ left.mishaps > 0 /\ \E h \in Holders : op[h].at # "done"
  /\ left' = [left EXCEPT !.mishaps = @ - 1]
  /\ op' = [h \in Holders |-> Rest]
  /\ spoiled' = spoiled \cup {s \in Entries : \E h \in Holders : Changing(h, s) /\ op[h].at # "meta"}
  /\ UNCHANGED <<meta, value, given>>

----------------------------------------------------------------------------
(* The record the two files stand for.  A torn file stands for what its     *)
(* writer is about to put there: a change takes effect when it empties the  *)
(* file, and readers fail until it has filled it.                           *)
Pending(s, step) == CHOOSE h \in Holders : op[h].sec = s /\ op[h].at = step
RecordStatus(s) ==
  IF meta[s] # "torn" THEN meta[s]
  ELSE LET h == Pending(s, "fillMeta") IN IF op[h].kind = "revoke" THEN "revoked" ELSE op[h].copy
RecordOf(s) ==
  IF s \in spoiled THEN [status |-> "unspecified", value |-> Absent]
  ELSE IF value[s] = Absent
         THEN [status |-> IF given[s] = {} \/ \E h \in Holders : Changing(h, s) /\ op[h].kind = "create"
                          THEN "unused" ELSE "deleted", value |-> Absent]
  ELSE [status |-> RecordStatus(s),
        value |-> IF value[s] = "torn" THEN op[Pending(s, "fillValue")].new ELSE value[s]]

ActiveValue(s) == IF RecordOf(s).status = "active" THEN {RecordOf(s).value} ELSE {}

\* History: what a reader could rightly be answered.
Observed ==
  window' = [h \in Holders |->
               IF op'[h].kind # "read" THEN {}
               ELSE IF op[h] = op'[h] /\ op[h].at = "done" THEN window[h]
               ELSE (IF op[h].at = "done" THEN {} ELSE window[h])
                      \cup UNION {ActiveValue(s)' : s \in {op'[h].sec}}]

StoreStep ==
  \/ \E h \in Holders, s \in Entries, v \in Payloads \cup {Absent}, kind \in Changes \cup {"read"} :
       Begin(h, kind, s, v)
  \/ \E h \in Holders :
       \/ ReadMetadata(h) \/ Decrypt(h) \/ WriteEncrypted(h) \/ WriteMetadata(h)
       \/ RemoveFiles(h) \/ FileFails(h)
  \/ StoreCrash
StoreNext == StoreStep /\ Observed
StoreSpec == StoreInit /\ [][StoreNext]_storeVars

----------------------------------------------------------------------------
(* The types of the store's files and operations.                           *)
StoreTypeOK ==
  /\ meta \in [Entries -> {Absent, "torn", "active", "revoked"}]
  /\ value \in [Entries -> Payloads \cup {Absent, "torn"}]
  /\ \A h \in Holders : op[h].at \in FileSteps /\ op[h].kind \in Changes \cup {"none", "read"}
                          /\ op[h].got \in Payloads \cup {Absent}
  /\ given \in [Entries -> SUBSET Payloads] /\ spoiled \subseteq Entries
  /\ window \in [Holders -> SUBSET Payloads]

(* What read answers is a payload someone stored for that secret, whatever  *)
(* else went wrong; and unless changes of the secret overlapped or stopped, *)
(* it is the value the secret had, while it was active, at a moment of that *)
(* very read: no mixture of one moment's status and another one's value.    *)
ReadsAnswerTrue ==
  \A h \in Holders : op[h].got # Absent =>
    /\ op[h].got \in given[op[h].sec]
    /\ op[h].sec \in spoiled \/ op[h].got \in window[h]

(* The two files without a lock implement the store of one record per       *)
(* secret: readers beside one change at a time see only the steps of        *)
(* SecretRegister, and each is answered as if it had read the register at a *)
(* moment of its own.                                                       *)
Register == INSTANCE SecretRegister
              WITH Secrets <- Entries, Values <- Payloads, NoValue <- Absent,
                   record <- [s \in Entries |-> RecordOf(s)]
ImplementsRegister == Register!RegisterSpec /\ [](StoreTypeOK /\ ReadsAnswerTrue)
=============================================================================
