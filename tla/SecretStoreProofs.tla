-------------------------- MODULE SecretStoreProofs --------------------------
(***************************************************************************)
(* The two files of a secret, written without a lock, implement the store  *)
(* of one record per secret, for any number of threads, secrets, values,   *)
(* failures and crashes.  The mapping RecordOf is only meaningful because  *)
(* of StoreInv: of a secret that is not spoiled one thread at most is      *)
(* changing the files (OneChanger), the files are at the place that        *)
(* thread's step says (HalfWay) or whole (Settled), and a reader that has  *)
(* seen the metadata may be answered with the value that is there          *)
(* (ReadersAhead).  The second part is about the agent clients built from  *)
(* the secrets of that store.                                              *)
(***************************************************************************)
EXTENDS SecretStore, AgentRegistration, FiniteSetTheorems, TLAPS

Operation ==
  [kind : Changes \cup {"none", "read"}, sec : Entries \cup {Absent},
   new : Payloads \cup {Absent}, at : FileSteps, copy : {Absent, "active", "revoked"},
   got : Payloads \cup {Absent}]

FilesTyped ==
  /\ meta \in [Entries -> {Absent, "torn", "active", "revoked"}]
  /\ value \in [Entries -> Payloads \cup {Absent, "torn"}]
  /\ op \in [Holders -> Operation]
  /\ given \in [Entries -> SUBSET Payloads] /\ spoiled \subseteq Entries

(* What an operation at a step is and what it carries. *)
Sound(h) ==
  LET o == op[h] IN
  /\ o.kind # "none" => o.sec \in Entries
  /\ o.got # Absent => o.at = "done" /\ o.kind = "read"
  /\ o.at # "done" => /\ o.kind # "none" /\ given[o.sec] # {}
                      /\ o.new \in given[o.sec] \cup {Absent}
  /\ o.at = "meta" => o.kind \in {"read", "update", "rewrap", "revoke", "delete"}
  /\ o.at \in {"meta", "get"} /\ o.kind = "update" => o.new \in Payloads
  /\ o.at = "get" => o.kind \in {"read", "rewrap"}
  /\ o.at \in {"emptyValue", "fillValue"} =>
       o.kind \in {"create", "update", "rewrap"} /\ o.new \in Payloads
  /\ o.at \in {"emptyValue", "fillValue"} /\ o.kind = "update" => o.copy = "active"
  /\ o.at \in {"emptyMeta", "fillMeta"} =>
       /\ o.kind \in {"create", "update", "revoke"} /\ o.copy \in {"active", "revoked"}
       /\ o.kind # "revoke" => o.copy = "active"
  /\ o.at \in {"emptyMeta", "fillMeta"} /\ o.kind = "create" => o.new \in Payloads
  /\ o.at \in {"removeValue", "removeMeta"} => o.kind = "delete"
OperationsSound == \A h \in Holders : Sound(h)

(* Value files hold what was given; nothing was done for a secret that     *)
(* nobody created.                                                         *)
ValuesGiven ==
  \A s \in Entries :
    /\ value[s] \in given[s] \cup {Absent, "torn"}
    /\ given[s] = {} => s \notin spoiled /\ meta[s] = Absent /\ value[s] = Absent

OneChanger ==
  \A s \in Entries \ spoiled : \A g, h \in Holders : Changing(g, s) /\ Changing(h, s) => g = h

Settled(s) ==
  \/ meta[s] = Absent /\ value[s] = Absent
  \/ meta[s] \in {"active", "revoked"} /\ value[s] \in Payloads

HalfWay(h, s) ==
  LET o == op[h] IN
  /\ o.at \in {"meta", "get"} => Settled(s)
  /\ o.at = "get" => meta[s] = "active"
  /\ o.at = "emptyValue" => /\ meta[s] = "active"
                            /\ o.kind = "create" => value[s] = Absent
                            /\ o.kind # "create" => value[s] \in Payloads
                            /\ o.kind = "rewrap" => value[s] = o.new
  /\ o.at = "fillValue" => meta[s] = "active" /\ value[s] = "torn"
  /\ o.at = "emptyMeta" => /\ o.kind = "create" => meta[s] = Absent /\ value[s] = Absent
                           /\ o.kind # "create" => meta[s] = o.copy /\ value[s] \in Payloads
  /\ o.at = "fillMeta" => /\ meta[s] = "torn"
                          /\ o.kind = "create" => value[s] = Absent
                          /\ o.kind # "create" => value[s] \in Payloads
  /\ o.at = "removeValue" => meta[s] \in {"active", "revoked"} /\ value[s] \in Payloads
  /\ o.at = "removeMeta" => meta[s] \in {"active", "revoked"} /\ value[s] = Absent

FilesAgree ==
  \A s \in Entries \ spoiled :
    /\ \A h \in Holders : Changing(h, s) => HalfWay(h, s)
    /\ (\A h \in Holders : ~ Changing(h, s)) => Settled(s)

(* A reader past the metadata has seen the value it is going to find. *)
ReadersAhead ==
  \A h \in Holders :
    op[h].kind = "read" /\ op[h].at = "get" /\ op[h].sec \notin spoiled
      /\ RecordOf(op[h].sec).status \in {"active", "revoked"}
    => RecordOf(op[h].sec).value \in window[h]

FilesInv == FilesTyped /\ OperationsSound /\ ValuesGiven /\ OneChanger /\ FilesAgree
StoreInv ==
  /\ FilesInv /\ window \in [Holders -> SUBSET Payloads]
  /\ ReadersAhead /\ ReadsAnswerTrue

----------------------------------------------------------------------------
(* The record of a secret that is not spoiled, by the step of the thread   *)
(* that changes it.                                                        *)

LEMMA PendingIs ==
  ASSUME FilesInv, NEW s \in Entries \ spoiled, NEW h \in Holders,
         op[h].sec = s, NEW step \in {"fillMeta", "fillValue"}, op[h].at = step
  PROVE  Pending(s, step) = h
<1>1. \A g \in Holders : op[g].sec = s /\ op[g].at = step => Changing(g, s)
  BY DEF FilesInv, OperationsSound, Sound, Changing, Changes
<1>2. \A g \in Holders : op[g].sec = s /\ op[g].at = step => g = h
  BY <1>1 DEF FilesInv, OneChanger
<1> QED BY <1>2 DEF Pending

(* Whole files stand for themselves. *)
LEMMA WholeRecord ==
  ASSUME FilesInv, NEW s \in Entries \ spoiled, meta[s] # "torn", value[s] \in Payloads
  PROVE  RecordOf(s) = [status |-> meta[s], value |-> value[s]]
BY PayloadAssumption DEF RecordOf, RecordStatus

LEMMA EmptiedMetadata ==
  ASSUME FilesInv, NEW s \in Entries \ spoiled, NEW h \in Holders,
         op[h].sec = s, op[h].at = "fillMeta", op[h].kind # "create"
  PROVE  RecordOf(s) = [status |-> IF op[h].kind = "revoke" THEN "revoked" ELSE op[h].copy,
                        value |-> value[s]]
<1>1. Changing(h, s)
  BY DEF FilesInv, OperationsSound, Sound, Changing, Changes
<1>2. meta[s] = "torn" /\ value[s] \in Payloads
  BY <1>1 DEF FilesInv, FilesAgree, HalfWay
<1>3. Pending(s, "fillMeta") = h
  BY PendingIs
<1> QED BY <1>2, <1>3, PayloadAssumption DEF RecordOf, RecordStatus

LEMMA EmptiedValue ==
  ASSUME FilesInv, NEW s \in Entries \ spoiled, NEW h \in Holders,
         op[h].sec = s, op[h].at = "fillValue"
  PROVE  RecordOf(s) = [status |-> "active", value |-> op[h].new]
<1>1. Changing(h, s)
  BY DEF FilesInv, OperationsSound, Sound, Changing, Changes
<1>2. meta[s] = "active" /\ value[s] = "torn"
  BY <1>1 DEF FilesInv, FilesAgree, HalfWay
<1>3. Pending(s, "fillValue") = h
  BY PendingIs
<1> QED BY <1>2, <1>3, PayloadAssumption DEF RecordOf, RecordStatus

LEMMA NoValueFile ==
  ASSUME NEW s \in Entries \ spoiled, value[s] = Absent
  PROVE  RecordOf(s) = [status |-> IF given[s] = {} \/ \E h \in Holders : Changing(h, s) /\ op[h].kind = "create"
                                   THEN "unused" ELSE "deleted", value |-> Absent]
BY DEF RecordOf

(* All of it, for the states before and after a step. *)
RecordsRead ==
  /\ \A s \in Entries \ spoiled : meta[s] # "torn" /\ value[s] \in Payloads =>
       RecordOf(s) = [status |-> meta[s], value |-> value[s]]
  /\ \A s \in Entries \ spoiled, h \in Holders :
       op[h].sec = s /\ op[h].at = "fillMeta" /\ op[h].kind # "create" =>
         RecordOf(s) = [status |-> IF op[h].kind = "revoke" THEN "revoked" ELSE op[h].copy,
                        value |-> value[s]]
  /\ \A s \in Entries \ spoiled, h \in Holders :
       op[h].sec = s /\ op[h].at = "fillValue" =>
         RecordOf(s) = [status |-> "active", value |-> op[h].new]
  /\ \A s \in Entries \ spoiled : value[s] = Absent =>
       RecordOf(s) = [status |-> IF given[s] = {} \/ \E h \in Holders : Changing(h, s) /\ op[h].kind = "create"
                                 THEN "unused" ELSE "deleted", value |-> Absent]
  /\ \A s \in spoiled : RecordOf(s) = [status |-> "unspecified", value |-> Absent]

LEMMA RecordsBefore == FilesInv => RecordsRead
<1> SUFFICES ASSUME FilesInv PROVE RecordsRead
  OBVIOUS
<1>1. \A s \in spoiled : RecordOf(s) = [status |-> "unspecified", value |-> Absent]
  BY DEF RecordOf
<1> QED BY <1>1, WholeRecord, EmptiedMetadata, EmptiedValue, NoValueFile DEF RecordsRead

LEMMA RecordsAfter == FilesInv' => RecordsRead'
BY RecordsBefore, PTL

(* A torn file has a writer; a value that is there has metadata. *)
LEMMA TornFiles ==
  ASSUME FilesInv, NEW s \in Entries \ spoiled
  PROVE  /\ meta[s] = "torn" => \E h \in Holders : op[h].sec = s /\ op[h].at = "fillMeta"
         /\ value[s] = "torn" => \E h \in Holders : op[h].sec = s /\ op[h].at = "fillValue"
         /\ value[s] \in Payloads => meta[s] # Absent
         /\ \A h \in Holders : op[h].sec = s /\ op[h].at = "fillMeta" /\ op[h].kind = "create" =>
              value[s] = Absent
<1>1. ASSUME NEW h \in Holders, Changing(h, s)
      PROVE  /\ meta[s] = "torn" => op[h].at = "fillMeta"
             /\ value[s] = "torn" => op[h].at = "fillValue"
             /\ value[s] \in Payloads => meta[s] # Absent
  <2>1. HalfWay(h, s) /\ Sound(h) /\ op[h] \in Operation /\ op[h].at \in FileSteps /\ op[h].sec = s
    BY <1>1 DEF FilesInv, FilesAgree, OperationsSound, Changing, FilesTyped, Operation
  <2> QED BY <1>1, <2>1, PayloadAssumption DEF HalfWay, Sound, Settled, FileSteps, Changing
<1>2. ASSUME \A h \in Holders : ~ Changing(h, s)
      PROVE  meta[s] # "torn" /\ value[s] # "torn" /\ (value[s] \in Payloads => meta[s] # Absent)
  BY <1>2, PayloadAssumption DEF FilesInv, FilesAgree, Settled
<1>3. ASSUME NEW h \in Holders, op[h].sec = s, op[h].at = "fillMeta", op[h].kind = "create"
      PROVE  value[s] = Absent
  BY <1>3 DEF FilesInv, FilesAgree, HalfWay, Changing, Changes
<1> QED BY <1>1, <1>2, <1>3 DEF Changing

(* What a record can be. *)
LEMMA RecordKinds ==
  ASSUME FilesInv, NEW s \in Entries
  PROVE  /\ RecordOf(s) \in [status : {"unused", "active", "revoked", "deleted", "unspecified"},
                             value : Payloads \cup {Absent}]
         /\ RecordOf(s).status \in {"active", "revoked"} => RecordOf(s).value \in Payloads
         /\ value[s] \in Payloads /\ s \notin spoiled =>
              /\ RecordOf(s).status \in {"active", "revoked"}
              /\ RecordOf(s).value = value[s]
<1>0. RecordsRead
  BY RecordsBefore
<1>1. CASE s \in spoiled
  BY <1>0, <1>1, PayloadAssumption DEF RecordsRead
<1>2. CASE s \notin spoiled /\ value[s] = Absent
  BY <1>0, <1>2, PayloadAssumption DEF RecordsRead
<1>3. CASE s \notin spoiled /\ value[s] = "torn"
  <2>1. PICK h \in Holders : op[h].sec = s /\ op[h].at = "fillValue"
    BY <1>3, TornFiles
  <2>2. op[h].new \in Payloads
    BY <2>1 DEF FilesInv, OperationsSound, Sound
  <2> QED BY <1>0, <1>3, <2>1, <2>2, PayloadAssumption DEF RecordsRead
<1>4. CASE s \notin spoiled /\ value[s] \in Payloads
  <2>1. CASE meta[s] = "torn"
    <3>1. PICK h \in Holders : op[h].sec = s /\ op[h].at = "fillMeta"
      BY <1>4, <2>1, TornFiles
    <3>2. op[h].kind # "create" /\ op[h].copy \in {"active", "revoked"}
      BY <1>4, <3>1, TornFiles, PayloadAssumption DEF FilesInv, OperationsSound, Sound
    <3> QED BY <1>0, <1>4, <3>1, <3>2 DEF RecordsRead
  <2>2. CASE meta[s] # "torn"
    <3>1. meta[s] \in {"active", "revoked"}
      BY <1>4, <2>2, TornFiles DEF FilesInv, FilesTyped
    <3> QED BY <1>0, <1>4, <2>2, <3>1 DEF RecordsRead
  <2> QED BY <2>1, <2>2
<1> QED BY <1>1, <1>2, <1>3, <1>4 DEF FilesInv, FilesTyped

(* A step that leaves the files and the writers of a secret alone leaves   *)
(* its record.                                                             *)
LEMMA SameRecord ==
  ASSUME FilesInv, FilesInv', NEW s \in Entries,
         meta'[s] = meta[s], value'[s] = value[s], s \in spoiled' <=> s \in spoiled,
         given'[s] = {} <=> given[s] = {},
         \A g \in Holders : op[g].sec = s /\ op[g].at \in {"fillMeta", "fillValue"} => op'[g] = op[g],
         (\E g \in Holders : Changing(g, s) /\ op[g].kind = "create")
           <=> (\E g \in Holders : Changing(g, s)' /\ op'[g].kind = "create")
  PROVE  RecordOf(s)' = RecordOf(s)
<1>0. RecordsRead /\ RecordsRead'
  BY RecordsBefore, RecordsAfter
<1>1. CASE s \in spoiled
  BY <1>0, <1>1 DEF RecordsRead
<1>2. CASE s \notin spoiled /\ value[s] = Absent
  BY <1>0, <1>2 DEF RecordsRead
<1>3. CASE s \notin spoiled /\ value[s] = "torn"
  <2>1. PICK h \in Holders : op[h].sec = s /\ op[h].at = "fillValue"
    BY <1>3, TornFiles
  <2> QED BY <1>0, <1>3, <2>1 DEF RecordsRead
<1>4. CASE s \notin spoiled /\ value[s] \in Payloads
  <2>1. CASE meta[s] = "torn"
    <3>1. PICK h \in Holders : op[h].sec = s /\ op[h].at = "fillMeta"
      BY <1>4, <2>1, TornFiles
    <3>2. op[h].kind # "create"
      BY <1>4, <3>1, TornFiles, PayloadAssumption
    <3> QED BY <1>0, <1>4, <3>1, <3>2 DEF RecordsRead
  <2>2. CASE meta[s] # "torn"
    BY <1>0, <1>4, <2>2 DEF RecordsRead
  <2> QED BY <2>1, <2>2
<1> QED BY <1>1, <1>2, <1>3, <1>4 DEF FilesInv, FilesTyped

----------------------------------------------------------------------------
(* Steps of one thread *)

(* Thread h works on secret s: other threads and other secrets rest. *)
WorksOn(h, s) ==
  /\ op' \in [Holders -> Operation]
  /\ op'[h].sec = s
  /\ op[h].sec = s \/ op[h].at = "done"
  /\ \A g \in Holders \ {h} : op'[g] = op[g]
  /\ \A t \in Entries \ {s} :
       /\ meta'[t] = meta[t] /\ value'[t] = value[t] /\ given'[t] = given[t]
       /\ t \in spoiled' <=> t \in spoiled
  /\ given[s] \subseteq given'[s]
  /\ s \in spoiled => s \in spoiled'

(* The files of s after it: spoiled, or only h changes them. *)
Keeps(h, s) ==
  \/ s \in spoiled'
  \/ /\ ~ Changing(h, s) /\ ~ Changing(h, s)' /\ meta'[s] = meta[s] /\ value'[s] = value[s]
  \/ /\ \A g \in Holders \ {h} : ~ Changing(g, s)
     /\ Changing(h, s)' => HalfWay(h, s)'
     /\ ~ Changing(h, s)' => Settled(s)'

LEMMA OneThread ==
  ASSUME FilesInv, NEW h \in Holders, NEW s \in Entries, FilesTyped', WorksOn(h, s), Sound(h)',
         value'[s] \in given'[s] \cup {Absent, "torn"}, given'[s] # {}, Keeps(h, s)
  PROVE  FilesInv'
<1>1. OperationsSound'
  <2> SUFFICES ASSUME NEW g \in Holders, g # h PROVE Sound(g)'
    BY DEF OperationsSound
  <2>1. op'[g] = op[g] /\ Sound(g)
    BY DEF WorksOn, FilesInv, OperationsSound
  <2>2. op[g].sec \in Entries => given[op[g].sec] \subseteq given'[op[g].sec]
    BY DEF WorksOn
  <2> QED BY <2>1, <2>2 DEF Sound
<1>2. ValuesGiven'
  BY DEF FilesInv, ValuesGiven, WorksOn
<1>3. \A t \in Entries \ {s}, g \in Holders : Changing(g, t)' <=> Changing(g, t)
  BY DEF WorksOn, Changing
<1>4. \A g \in Holders \ {h} : Changing(g, s)' <=> Changing(g, s)
  BY DEF WorksOn, Changing
<1>5. OneChanger'
  <2> SUFFICES ASSUME NEW t \in Entries, t \notin spoiled', NEW f \in Holders, NEW g \in Holders,
                      Changing(f, t)', Changing(g, t)'
               PROVE  f = g
    BY DEF OneChanger
  <2>1. CASE t # s
    BY <1>3, <2>1 DEF WorksOn, FilesInv, OneChanger
  <2>2. CASE t = s
    BY <1>4, <2>2 DEF WorksOn, Keeps, FilesInv, OneChanger
  <2> QED BY <2>1, <2>2
<1>6. FilesAgree'
  <2> SUFFICES ASSUME NEW t \in Entries, t \notin spoiled'
               PROVE  /\ \A g \in Holders : Changing(g, t)' => HalfWay(g, t)'
                      /\ (\A g \in Holders : ~ Changing(g, t)') => Settled(t)'
    BY DEF FilesAgree
  <2>1. CASE t # s
    <3>1. /\ t \notin spoiled /\ meta'[t] = meta[t] /\ value'[t] = value[t]
          /\ \A g \in Holders : Changing(g, t)' => Changing(g, t) /\ op'[g] = op[g]
      BY <1>3, <2>1 DEF WorksOn, Changing
    <3> QED BY <1>3, <2>1, <3>1 DEF FilesInv, FilesAgree, HalfWay, Settled
  <2>2. CASE t = s /\ ~ Changing(h, s) /\ ~ Changing(h, s)' /\ meta'[s] = meta[s] /\ value'[s] = value[s]
    <3>1. /\ s \notin spoiled
          /\ \A g \in Holders : Changing(g, s)' => Changing(g, s) /\ op'[g] = op[g]
          /\ \A g \in Holders : Changing(g, s) => Changing(g, s)'
      BY <1>4, <2>2 DEF WorksOn, Changing
    <3> QED BY <2>2, <3>1 DEF FilesInv, FilesAgree, HalfWay, Settled
  <2>3. CASE /\ t = s /\ \A g \in Holders \ {h} : ~ Changing(g, s)
             /\ Changing(h, s)' => HalfWay(h, s)'
             /\ ~ Changing(h, s)' => Settled(s)'
    BY <1>4, <2>3
  <2> QED BY <2>1, <2>2, <2>3 DEF Keeps
<1> QED BY <1>1, <1>2, <1>5, <1>6 DEF FilesInv

(* The records of the other secrets. *)
LEMMA OtherRecords ==
  ASSUME FilesInv, FilesInv', NEW h \in Holders, NEW s \in Entries, WorksOn(h, s)
  PROVE  \A t \in Entries \ {s} : RecordOf(t)' = RecordOf(t)
<1> SUFFICES ASSUME NEW t \in Entries, t # s PROVE RecordOf(t)' = RecordOf(t)
  OBVIOUS
<1>1. /\ meta'[t] = meta[t] /\ value'[t] = value[t] /\ given'[t] = given[t]
      /\ t \in spoiled' <=> t \in spoiled
  BY DEF WorksOn
<1>2. \A g \in Holders : op[g].sec = t /\ op[g].at \in {"fillMeta", "fillValue"} => op'[g] = op[g]
  BY DEF WorksOn
<1>3. \A g \in Holders : Changing(g, t) /\ op[g].kind = "create"
                           <=> Changing(g, t)' /\ op'[g].kind = "create"
  BY DEF WorksOn, Changing
<1> QED BY <1>1, <1>2, <1>3, SameRecord

(* The step the register sees of a secret. *)
Advances(s) ==
  \/ RecordOf(s)' = RecordOf(s)
  \/ s \in spoiled'
  \/ /\ RecordOf(s).status = "unused"
     /\ \E v \in Payloads : RecordOf(s)' = [status |-> "active", value |-> v]
  \/ /\ RecordOf(s).status = "active"
     /\ \E v \in Payloads : RecordOf(s)' = [status |-> "active", value |-> v]
  \/ /\ RecordOf(s).status \in {"active", "revoked"}
     /\ RecordOf(s)' = [status |-> "revoked", value |-> RecordOf(s).value]
  \/ /\ RecordOf(s).status \in {"active", "revoked"}
     /\ RecordOf(s)' = [status |-> "deleted", value |-> Absent]

OneAdvances == \E h \in Holders, s \in Entries : WorksOn(h, s) /\ Advances(s)

(* The effect of moving an operation on. *)
LEMMA GoesEffect ==
  ASSUME FilesInv, NEW h \in Holders, NEW step \in FileSteps, Goes(h, step)
  PROVE  /\ op' \in [Holders -> Operation]
         /\ op'[h].at = step
         /\ op'[h].kind = op[h].kind /\ op'[h].sec = op[h].sec /\ op'[h].new = op[h].new
         /\ op'[h].copy = op[h].copy /\ op'[h].got = op[h].got
         /\ \A g \in Holders \ {h} : op'[g] = op[g]
BY DEF FilesInv, FilesTyped, Goes, Operation

(* A step of h that leaves the files of its secret alone. *)
LEMMA FilesRest ==
  ASSUME FilesInv, NEW h \in Holders, op[h].at # "done",
         op' \in [Holders -> Operation],
         \A g \in Holders \ {h} : op'[g] = op[g],
         op'[h].kind = op[h].kind, op'[h].sec = op[h].sec,
         op[h].at \in {"meta", "get"}, Sound(h)',
         Keeps(h, op[h].sec),
         UNCHANGED <<meta, value, given, spoiled>>
  PROVE  FilesInv' /\ OneAdvances
<1> DEFINE s == op[h].sec
<1>1. s \in Entries /\ given[s] # {}
  BY DEF FilesInv, OperationsSound, Sound
<1>2. WorksOn(h, s)
  BY DEF WorksOn
<1>3. FilesTyped'
  BY DEF FilesInv, FilesTyped
<1>4. FilesInv'
  BY <1>1, <1>2, <1>3, OneThread DEF FilesInv, ValuesGiven
<1>5. RecordOf(s)' = RecordOf(s)
  <2>1. op[h].kind # "create"
    BY DEF FilesInv, OperationsSound, Sound
  <2>2. \A g \in Holders : Changing(g, s) /\ op[g].kind = "create"
                             <=> Changing(g, s)' /\ op'[g].kind = "create"
    BY <2>1 DEF Changing
  <2>3. \A g \in Holders : op[g].sec = s /\ op[g].at \in {"fillMeta", "fillValue"} => op'[g] = op[g]
    OBVIOUS
  <2> QED BY <1>1, <1>4, <2>2, <2>3, SameRecord
<1> QED BY <1>1, <1>2, <1>4, <1>5 DEF OneAdvances, Advances

LEMMA ReadMetadataStep ==
  ASSUME FilesInv, NEW h \in Holders, ReadMetadata(h)
  PROVE  FilesInv' /\ OneAdvances
<1> DEFINE s == op[h].sec
           found == meta[s]
<1>0. op[h].at = "meta" /\ UNCHANGED <<meta, value, given, spoiled>>
  BY DEF ReadMetadata
<1>1. /\ Sound(h) /\ s \in Entries /\ op[h] \in Operation
      /\ op[h].kind \in {"read", "update", "rewrap", "revoke", "delete"}
  BY <1>0 DEF FilesInv, OperationsSound, Sound, FilesTyped
<1>2. s \notin spoiled /\ Changing(h, s) =>
        (\A g \in Holders \ {h} : ~ Changing(g, s)) /\ HalfWay(h, s) /\ Settled(s)
  BY <1>0, <1>1 DEF FilesInv, OneChanger, FilesAgree, HalfWay
<1>3. op[h].kind # "read" => Changing(h, s)
  BY <1>0, <1>1 DEF Changing, Changes
<1>4. CASE Ends(h)
  <2>1. /\ op' \in [Holders -> Operation]
        /\ op'[h].at = "done"
        /\ op'[h].kind = op[h].kind /\ op'[h].sec = op[h].sec /\ op'[h].got = op[h].got
        /\ \A g \in Holders \ {h} : op'[g] = op[g]
    BY <1>4, GoesEffect DEF Ends, FileSteps
  <2>2. Sound(h)'
    BY <1>0, <1>1, <2>1 DEF Sound
  <2>3. ~ Changing(h, s)'
    BY <2>1 DEF Changing
  <2>4. Keeps(h, s)
    BY <1>0, <1>2, <2>1, <2>3 DEF Keeps, Settled
  <2> QED BY <1>0, <2>1, <2>2, <2>4, FilesRest
<1>5. CASE /\ found \notin {Absent, "torn"}
           /\ op[h].kind \in {"read", "rewrap", "update"} => found = "active"
           /\ op' = [op EXCEPT ![h].copy = found, ![h].at = AfterMetadata(op[h].kind)]
  <2> DEFINE step == AfterMetadata(op[h].kind)
  <2>1. /\ op[h].kind \in {"read", "rewrap"} => step = "get"
        /\ op[h].kind = "update" => step = "emptyValue"
        /\ op[h].kind = "revoke" => step = "emptyMeta"
        /\ op[h].kind = "delete" => step = "removeValue"
    BY DEF AfterMetadata
  <2>2. found \in {"active", "revoked"}
    BY <1>1, <1>5 DEF FilesInv, FilesTyped
  <2>3. step \in FileSteps
    BY <1>1, <2>1 DEF FileSteps
  <2> HIDE DEF step
  <2>4. /\ op' \in [Holders -> Operation]
        /\ op'[h].at = step /\ op'[h].copy = found
        /\ op'[h].kind = op[h].kind /\ op'[h].sec = op[h].sec /\ op'[h].new = op[h].new
        /\ op'[h].got = op[h].got
        /\ \A g \in Holders \ {h} : op'[g] = op[g]
    <3>1. op' = [op EXCEPT ![h].copy = found, ![h].at = step]
      BY <1>5 DEF step
    <3> QED BY <2>2, <2>3, <3>1 DEF FilesInv, FilesTyped, Operation
  <2>5. Sound(h)'
    BY <1>0, <1>1, <1>5, <2>1, <2>2, <2>4 DEF Sound
  <2>6. CASE op[h].kind = "read"
    <3>1. ~ Changing(h, s) /\ ~ Changing(h, s)'
      BY <2>4, <2>6 DEF Changing, Changes
    <3> QED BY <1>0, <2>4, <2>5, <3>1, FilesRest DEF Keeps
  <2>7. CASE op[h].kind # "read"
    <3>1. CASE s \in spoiled
      BY <1>0, <2>4, <2>5, <3>1, FilesRest DEF Keeps
    <3>2. CASE s \notin spoiled
      <4>1. /\ \A g \in Holders \ {h} : ~ Changing(g, s)
            /\ value[s] \in Payloads
        BY <1>2, <1>3, <2>2, <2>7, <3>2, PayloadAssumption DEF Settled
      <4>2. Settled(s)'
        BY <1>0, <2>2, <2>4, <4>1 DEF Settled
      <4>3. HalfWay(h, s)'
        BY <1>0, <1>1, <1>5, <2>1, <2>2, <2>4, <2>7, <4>1, <4>2 DEF HalfWay
      <4> QED BY <1>0, <2>4, <2>5, <4>1, <4>2, <4>3, FilesRest DEF Keeps
    <3> QED BY <3>1, <3>2
  <2> QED BY <2>6, <2>7
<1> QED BY <1>4, <1>5 DEF ReadMetadata

LEMMA DecryptStep ==
  ASSUME FilesInv, NEW h \in Holders, Decrypt(h)
  PROVE  FilesInv' /\ OneAdvances
<1> DEFINE s == op[h].sec
           found == value[s]
<1>0. op[h].at = "get" /\ UNCHANGED <<meta, value, given, spoiled>>
  BY DEF Decrypt
<1>1. /\ Sound(h) /\ s \in Entries /\ op[h] \in Operation /\ op[h].kind \in {"read", "rewrap"}
      /\ op[h].got = Absent
  BY <1>0 DEF FilesInv, OperationsSound, Sound, FilesTyped
<1>2. s \notin spoiled /\ Changing(h, s) =>
        (\A g \in Holders \ {h} : ~ Changing(g, s)) /\ HalfWay(h, s) /\ Settled(s)
  BY <1>0, <1>1 DEF FilesInv, OneChanger, FilesAgree, HalfWay
<1>3. CASE Ends(h)
  <2>1. /\ op' \in [Holders -> Operation]
        /\ op'[h].at = "done"
        /\ op'[h].kind = op[h].kind /\ op'[h].sec = op[h].sec /\ op'[h].got = op[h].got
        /\ \A g \in Holders \ {h} : op'[g] = op[g]
    BY <1>3, GoesEffect DEF Ends, FileSteps
  <2>2. Sound(h)' /\ ~ Changing(h, s)'
    BY <1>0, <1>1, <2>1 DEF Sound, Changing
  <2>3. Keeps(h, s)
    BY <1>0, <1>2, <2>1, <2>2 DEF Keeps, Settled
  <2> QED BY <1>0, <2>1, <2>2, <2>3, FilesRest
<1>4. CASE /\ found \notin {Absent, "torn"} /\ op[h].kind = "rewrap"
           /\ op' = [op EXCEPT ![h].new = found, ![h].at = "emptyValue"]
  <2>1. found \in Payloads /\ found \in given[s]
    BY <1>1, <1>4 DEF FilesInv, FilesTyped, ValuesGiven
  <2>2. /\ op' \in [Holders -> Operation]
        /\ op'[h].at = "emptyValue" /\ op'[h].new = found
        /\ op'[h].kind = op[h].kind /\ op'[h].sec = op[h].sec /\ op'[h].copy = op[h].copy
        /\ op'[h].got = op[h].got
        /\ \A g \in Holders \ {h} : op'[g] = op[g]
    BY <1>4, <2>1 DEF FilesInv, FilesTyped, Operation, FileSteps
  <2>3. Sound(h)'
    BY <1>0, <1>1, <1>4, <2>1, <2>2 DEF Sound
  <2>4. Changing(h, s)
    BY <1>0, <1>4 DEF Changing, Changes
  <2>5. s \notin spoiled => HalfWay(h, s)'
    BY <1>0, <1>2, <1>4, <2>1, <2>2, <2>4 DEF HalfWay
  <2>6. Changing(h, s)'
    BY <1>4, <2>2 DEF Changing, Changes
  <2>7. Keeps(h, s)
    BY <1>0, <1>2, <2>4, <2>5, <2>6 DEF Keeps
  <2> QED BY <1>0, <2>2, <2>3, <2>7, FilesRest
<1>5. CASE /\ found \notin {Absent, "torn"} /\ op[h].kind = "read"
           /\ op' = [op EXCEPT ![h].got = found, ![h].at = "done"]
  <2>1. found \in Payloads
    BY <1>1, <1>5 DEF FilesInv, FilesTyped
  <2>2. /\ op' \in [Holders -> Operation]
        /\ op'[h].at = "done" /\ op'[h].got = found
        /\ op'[h].kind = op[h].kind /\ op'[h].sec = op[h].sec
        /\ \A g \in Holders \ {h} : op'[g] = op[g]
    <3>1. [op[h] EXCEPT !.got = found, !.at = "done"] \in Operation
      BY <1>1, <2>1 DEF Operation, FileSteps
    <3>2. op' = [op EXCEPT ![h] = [op[h] EXCEPT !.got = found, !.at = "done"]]
      BY <1>5
    <3> QED BY <1>1, <3>1, <3>2 DEF FilesInv, FilesTyped, Operation
  <2>3. Sound(h)' /\ ~ Changing(h, s) /\ ~ Changing(h, s)'
    BY <1>0, <1>1, <1>5, <2>2 DEF Sound, Changing, Changes
  <2> QED BY <1>0, <2>2, <2>3, FilesRest DEF Keeps
<1> QED BY <1>1, <1>3, <1>4, <1>5 DEF Decrypt

(* What is known of a thread that writes or removes a file. *)
LEMMA WriterFacts ==
  ASSUME FilesInv, NEW h \in Holders, op[h].at \notin {"done", "meta", "get"}
  PROVE  /\ op[h].sec \in Entries /\ Sound(h) /\ op[h] \in Operation
         /\ given[op[h].sec] # {} /\ op[h].got = Absent
         /\ op[h].kind \in Changes /\ Changing(h, op[h].sec)
         /\ op[h].sec \notin spoiled => /\ HalfWay(h, op[h].sec)
                                        /\ \A g \in Holders \ {h} : ~ Changing(g, op[h].sec)
<1>1. op[h] \in Operation /\ op[h].at \in FileSteps
  BY DEF FilesInv, FilesTyped, Operation
<1>2. Sound(h)
  BY DEF FilesInv, OperationsSound
<1>3. /\ op[h].sec \in Entries /\ given[op[h].sec] # {} /\ op[h].got = Absent
      /\ op[h].kind \in Changes
  BY <1>1, <1>2 DEF Sound, FileSteps, Changes
<1>4. Changing(h, op[h].sec)
  BY <1>3 DEF Changing
<1> QED BY <1>1, <1>2, <1>3, <1>4 DEF FilesInv, FilesAgree, OneChanger

(* A write of one file by the thread at that step. *)
LEMMA WriteKeepsFiles ==
  ASSUME FilesInv, NEW h \in Holders, NEW s \in Entries, op[h].sec = s,
         op[h].at \notin {"done", "meta", "get"},
         NEW step \in FileSteps, Goes(h, step),
         meta' \in [Entries -> {Absent, "torn", "active", "revoked"}],
         value' \in [Entries -> Payloads \cup {Absent, "torn"}],
         \A t \in Entries \ {s} : meta'[t] = meta[t] /\ value'[t] = value[t],
         value'[s] \in given[s] \cup {Absent, "torn"},
         UNCHANGED <<given, spoiled>>,
         Sound(h)', s \notin spoiled => IF step = "done" THEN Settled(s)' ELSE HalfWay(h, s)'
  PROVE  FilesInv' /\ WorksOn(h, s)
<1>1. /\ op' \in [Holders -> Operation]
      /\ op'[h].at = step /\ op'[h].kind = op[h].kind /\ op'[h].sec = s
      /\ \A g \in Holders \ {h} : op'[g] = op[g]
  BY GoesEffect
<1>2. WorksOn(h, s)
  BY <1>1 DEF WorksOn
<1>3. FilesTyped'
  BY <1>1 DEF FilesInv, FilesTyped
<1>4. Changing(h, s)' <=> step # "done"
  BY <1>1, WriterFacts DEF Changing
<1>5. Keeps(h, s)
  <2>1. CASE s \in spoiled
    BY <2>1 DEF Keeps
  <2>2. CASE s \notin spoiled
    BY <1>4, <2>2, WriterFacts DEF Keeps
  <2> QED BY <2>1, <2>2
<1>6. given'[s] # {}
  BY WriterFacts
<1> QED BY <1>2, <1>3, <1>5, <1>6, OneThread

(* The records of a secret while it is created, around one of its steps. *)
LEMMA CreatingRecord ==
  ASSUME FilesInv, NEW h \in Holders, NEW s \in Entries \ spoiled, op[h].sec = s,
         op[h].kind = "create", op[h].at # "done", value[s] = Absent
  PROVE  RecordOf(s) = [status |-> "unused", value |-> Absent]
<1>1. Changing(h, s)
  BY DEF Changing, Changes
<1> QED BY <1>1, RecordsBefore DEF RecordsRead

LEMMA CreatingAfter ==
  ASSUME FilesInv', NEW h \in Holders, NEW s \in Entries, s \notin spoiled', op'[h].sec = s,
         op'[h].kind = "create", op'[h].at # "done", value'[s] = Absent
  PROVE  RecordOf(s)' = [status |-> "unused", value |-> Absent]
<1>1. Changing(h, s)'
  BY DEF Changing, Changes
<1> QED BY <1>1, RecordsAfter DEF RecordsRead

LEMMA WriteEncryptedStep ==
  ASSUME FilesInv, NEW h \in Holders, WriteEncrypted(h)
  PROVE  FilesInv' /\ OneAdvances
<1>0. PICK s : s = op[h].sec
  OBVIOUS
<1>1. UNCHANGED <<meta, given, spoiled>> /\ op[h].at \in {"emptyValue", "fillValue"}
  BY DEF WriteEncrypted
<1>2. /\ s \in Entries /\ Sound(h) /\ op[h] \in Operation /\ op[h].got = Absent
      /\ given[s] # {}
      /\ s \notin spoiled => HalfWay(h, s)
  BY <1>0, <1>1, WriterFacts
<1>3. op[h].kind \in {"create", "update", "rewrap"} /\ op[h].new \in Payloads /\ op[h].new \in given[s]
  BY <1>0, <1>1, <1>2, PayloadAssumption DEF Sound
<1>4. meta' \in [Entries -> {Absent, "torn", "active", "revoked"}] /\ RecordsRead
  BY <1>1, RecordsBefore DEF FilesInv, FilesTyped
<1>5. CASE op[h].at = "emptyValue"
  <2>1. value' = [value EXCEPT ![s] = "torn"] /\ Goes(h, "fillValue")
    BY <1>0, <1>5 DEF WriteEncrypted
  <2>2. /\ value' \in [Entries -> Payloads \cup {Absent, "torn"}] /\ value'[s] = "torn"
        /\ \A t \in Entries \ {s} : value'[t] = value[t]
    BY <1>2, <2>1 DEF FilesInv, FilesTyped
  <2>3. /\ op'[h].at = "fillValue" /\ op'[h].kind = op[h].kind /\ op'[h].sec = s
        /\ op'[h].new = op[h].new /\ op'[h].copy = op[h].copy /\ op'[h].got = op[h].got
    BY <1>0, <2>1, GoesEffect DEF FileSteps
  <2>4. Sound(h)'
    BY <1>0, <1>1, <1>2, <1>3, <1>5, <2>3 DEF Sound
  <2>5. s \notin spoiled => HalfWay(h, s)'
    BY <1>1, <1>2, <1>5, <2>2, <2>3 DEF HalfWay
  <2>6. FilesInv' /\ WorksOn(h, s)
    BY <1>0, <1>1, <1>2, <1>4, <1>5, <2>1, <2>2, <2>4, <2>5, WriteKeepsFiles DEF FileSteps
  <2>7. Advances(s)
    <3>1. CASE s \in spoiled
      BY <1>1, <3>1 DEF Advances
    <3>2. CASE s \notin spoiled /\ op[h].kind = "create"
      <4>1. RecordOf(s) = [status |-> "unused", value |-> Absent]
        BY <1>0, <1>2, <1>5, <3>2, CreatingRecord DEF HalfWay
      <4>2. RecordOf(s)' = [status |-> "active", value |-> op[h].new]
        BY <1>1, <1>2, <2>3, <2>6, <3>2, RecordsAfter DEF RecordsRead
      <4> QED BY <1>3, <4>1, <4>2 DEF Advances
    <3>3. CASE s \notin spoiled /\ op[h].kind # "create"
      <4>1. RecordOf(s) = [status |-> "active", value |-> value[s]]
        BY <1>2, <1>4, <1>5, <3>3 DEF RecordsRead, HalfWay
      <4>2. RecordOf(s)' = [status |-> "active", value |-> op[h].new]
        BY <1>1, <1>2, <2>3, <2>6, <3>3, RecordsAfter DEF RecordsRead
      <4> QED BY <1>3, <4>1, <4>2 DEF Advances
    <3> QED BY <3>1, <3>2, <3>3
  <2> QED BY <1>2, <2>6, <2>7 DEF OneAdvances
<1>6. CASE op[h].at = "fillValue"
  <2>1. PICK step \in {"emptyMeta", "done"} :
          /\ value' = [value EXCEPT ![s] = op[h].new] /\ Goes(h, step)
          /\ step = "emptyMeta" <=> op[h].kind = "update"
    BY <1>0, <1>6 DEF WriteEncrypted, Ends
  <2>2. /\ value' \in [Entries -> Payloads \cup {Absent, "torn"}] /\ value'[s] = op[h].new
        /\ \A t \in Entries \ {s} : value'[t] = value[t]
    BY <1>2, <1>3, <2>1 DEF FilesInv, FilesTyped
  <2>3. /\ op'[h].at = step /\ op'[h].kind = op[h].kind /\ op'[h].sec = s
        /\ op'[h].new = op[h].new /\ op'[h].copy = op[h].copy /\ op'[h].got = op[h].got
    BY <1>0, <2>1, GoesEffect DEF FileSteps
  <2>4. Sound(h)'
    BY <1>0, <1>1, <1>2, <1>3, <1>6, <2>1, <2>3 DEF Sound
  <2>5. s \notin spoiled => IF step = "done" THEN Settled(s)' ELSE HalfWay(h, s)'
    <3>1. s \notin spoiled => meta'[s] = "active"
      BY <1>1, <1>2, <1>6 DEF HalfWay
    <3>2. op[h].kind = "update" => op[h].copy = "active"
      BY <1>2, <1>6 DEF Sound
    <3> QED BY <1>3, <2>1, <2>2, <2>3, <3>1, <3>2 DEF HalfWay, Settled
  <2>6. FilesInv' /\ WorksOn(h, s)
    <3>1. step \in FileSteps
      BY <2>1 DEF FileSteps
    <3> QED BY <1>0, <1>1, <1>2, <1>3, <1>4, <1>6, <2>1, <2>2, <2>4, <2>5, <3>1, WriteKeepsFiles
  <2>7. Advances(s)
    <3>1. CASE s \in spoiled
      BY <1>1, <3>1 DEF Advances
    <3>2. CASE s \notin spoiled
      <4>1. RecordOf(s) = [status |-> "active", value |-> op[h].new]
        BY <1>0, <1>2, <1>4, <1>6, <3>2 DEF RecordsRead
      <4>2. meta'[s] = "active" /\ s \notin spoiled'
        BY <1>1, <1>2, <1>6, <3>2 DEF HalfWay
      <4>3. RecordOf(s)' = [status |-> "active", value |-> op[h].new]
        BY <1>2, <1>3, <2>2, <2>6, <4>2, RecordsAfter DEF RecordsRead
      <4> QED BY <4>1, <4>3 DEF Advances
    <3> QED BY <3>1, <3>2
  <2> QED BY <1>2, <2>6, <2>7 DEF OneAdvances
<1> QED BY <1>1, <1>5, <1>6

LEMMA WriteMetadataStep ==
  ASSUME FilesInv, NEW h \in Holders, WriteMetadata(h)
  PROVE  FilesInv' /\ OneAdvances
<1>0. PICK s : s = op[h].sec
  OBVIOUS
<1>1. UNCHANGED <<value, given, spoiled>> /\ op[h].at \in {"emptyMeta", "fillMeta"}
  BY DEF WriteMetadata
<1>2. /\ s \in Entries /\ Sound(h) /\ op[h] \in Operation /\ op[h].got = Absent
      /\ given[s] # {}
      /\ s \notin spoiled => HalfWay(h, s)
  BY <1>0, <1>1, WriterFacts
<1>3. /\ op[h].kind \in {"create", "update", "revoke"} /\ op[h].copy \in {"active", "revoked"}
      /\ op[h].kind # "revoke" => op[h].copy = "active"
      /\ op[h].kind = "create" => op[h].new \in Payloads
  BY <1>1, <1>2 DEF Sound
<1>4. /\ value' \in [Entries -> Payloads \cup {Absent, "torn"}] /\ RecordsRead
      /\ value'[s] \in given[s] \cup {Absent, "torn"}
  BY <1>1, <1>2, RecordsBefore DEF FilesInv, FilesTyped, ValuesGiven
<1>5. CASE op[h].at = "emptyMeta"
  <2>1. meta' = [meta EXCEPT ![s] = "torn"] /\ Goes(h, "fillMeta")
    BY <1>0, <1>5 DEF WriteMetadata
  <2>2. /\ meta' \in [Entries -> {Absent, "torn", "active", "revoked"}] /\ meta'[s] = "torn"
        /\ \A t \in Entries \ {s} : meta'[t] = meta[t]
    BY <1>2, <2>1 DEF FilesInv, FilesTyped
  <2>3. /\ op'[h].at = "fillMeta" /\ op'[h].kind = op[h].kind /\ op'[h].sec = s
        /\ op'[h].new = op[h].new /\ op'[h].copy = op[h].copy /\ op'[h].got = op[h].got
    BY <1>0, <2>1, GoesEffect DEF FileSteps
  <2>4. Sound(h)'
    BY <1>0, <1>1, <1>2, <1>3, <1>5, <2>3 DEF Sound
  <2>5. s \notin spoiled => HalfWay(h, s)'
    BY <1>1, <1>2, <1>5, <2>2, <2>3 DEF HalfWay
  <2>6. FilesInv' /\ WorksOn(h, s)
    BY <1>0, <1>1, <1>2, <1>4, <1>5, <2>1, <2>2, <2>4, <2>5, WriteKeepsFiles DEF FileSteps
  <2>7. Advances(s)
    <3>1. CASE s \in spoiled
      BY <1>1, <3>1 DEF Advances
    <3>2. CASE s \notin spoiled /\ op[h].kind = "create"
      <4>1. value[s] = Absent /\ value'[s] = Absent /\ s \notin spoiled'
        BY <1>1, <1>2, <1>5, <3>2 DEF HalfWay
      <4>2. RecordOf(s) = [status |-> "unused", value |-> Absent]
        BY <1>0, <1>2, <1>5, <3>2, <4>1, CreatingRecord
      <4>3. RecordOf(s)' = [status |-> "unused", value |-> Absent]
        BY <1>2, <2>3, <2>6, <3>2, <4>1, CreatingAfter
      <4> QED BY <4>2, <4>3 DEF Advances
    <3>3. CASE s \notin spoiled /\ op[h].kind # "create"
      <4>1. meta[s] = op[h].copy /\ value[s] \in Payloads /\ s \notin spoiled'
        BY <1>1, <1>2, <1>5, <3>3 DEF HalfWay
      <4>2. RecordOf(s) = [status |-> op[h].copy, value |-> value[s]]
        BY <1>2, <1>3, <1>4, <3>3, <4>1 DEF RecordsRead
      <4>3. RecordOf(s)' = [status |-> IF op[h].kind = "revoke" THEN "revoked" ELSE op[h].copy,
                            value |-> value[s]]
        BY <1>1, <1>2, <2>3, <2>6, <3>3, <4>1, RecordsAfter DEF RecordsRead
      <4> QED BY <1>3, <4>2, <4>3 DEF Advances
    <3> QED BY <3>1, <3>2, <3>3
  <2> QED BY <1>2, <2>6, <2>7 DEF OneAdvances
<1>6. CASE op[h].at = "fillMeta"
  <2> DEFINE status == IF op[h].kind = "revoke" THEN "revoked" ELSE op[h].copy
  <2>1. PICK step \in {"emptyValue", "done"} :
          /\ meta' = [meta EXCEPT ![s] = status] /\ Goes(h, step)
          /\ step = "emptyValue" <=> op[h].kind = "create"
    BY <1>0, <1>6 DEF WriteMetadata, Ends
  <2>2. /\ meta' \in [Entries -> {Absent, "torn", "active", "revoked"}] /\ meta'[s] = status
        /\ \A t \in Entries \ {s} : meta'[t] = meta[t]
    BY <1>2, <1>3, <2>1 DEF FilesInv, FilesTyped
  <2>3. /\ op'[h].at = step /\ op'[h].kind = op[h].kind /\ op'[h].sec = s
        /\ op'[h].new = op[h].new /\ op'[h].copy = op[h].copy /\ op'[h].got = op[h].got
    BY <1>0, <2>1, GoesEffect DEF FileSteps
  <2>4. Sound(h)'
    BY <1>0, <1>1, <1>2, <1>3, <1>6, <2>1, <2>3 DEF Sound
  <2>5. s \notin spoiled => IF step = "done" THEN Settled(s)' ELSE HalfWay(h, s)'
    <3>1. /\ s \notin spoiled /\ op[h].kind = "create" => value'[s] = Absent
          /\ s \notin spoiled /\ op[h].kind # "create" => value'[s] \in Payloads
      BY <1>1, <1>2, <1>6 DEF HalfWay
    <3> QED BY <1>3, <2>1, <2>2, <2>3, <3>1 DEF HalfWay, Settled
  <2>6. FilesInv' /\ WorksOn(h, s)
    <3>1. step \in FileSteps
      BY <2>1 DEF FileSteps
    <3> QED BY <1>0, <1>1, <1>2, <1>4, <1>6, <2>1, <2>2, <2>4, <2>5, <3>1, WriteKeepsFiles
  <2>7. Advances(s)
    <3>1. CASE s \in spoiled
      BY <1>1, <3>1 DEF Advances
    <3>2. CASE s \notin spoiled /\ op[h].kind = "create"
      <4>1. value[s] = Absent /\ value'[s] = Absent /\ s \notin spoiled'
        BY <1>1, <1>2, <1>6, <3>2 DEF HalfWay
      <4>2. RecordOf(s) = [status |-> "unused", value |-> Absent]
        BY <1>0, <1>2, <1>6, <3>2, <4>1, CreatingRecord
      <4>3. RecordOf(s)' = [status |-> "unused", value |-> Absent]
        BY <1>2, <2>1, <2>3, <2>6, <3>2, <4>1, CreatingAfter
      <4> QED BY <4>2, <4>3 DEF Advances
    <3>3. CASE s \notin spoiled /\ op[h].kind # "create"
      <4>1. value'[s] = value[s] /\ value[s] \in Payloads /\ s \notin spoiled'
        BY <1>1, <1>2, <1>6, <3>3 DEF HalfWay
      <4>2. RecordOf(s) = [status |-> status, value |-> value[s]]
        BY <1>0, <1>2, <1>4, <1>6, <3>3 DEF RecordsRead
      <4>3. RecordOf(s)' = [status |-> status, value |-> value[s]]
        BY <1>2, <1>3, <2>2, <2>6, <4>1, RecordsAfter DEF RecordsRead
      <4> QED BY <4>2, <4>3 DEF Advances
    <3> QED BY <3>1, <3>2, <3>3
  <2> QED BY <1>2, <2>6, <2>7 DEF OneAdvances
<1> QED BY <1>1, <1>5, <1>6

LEMMA RemoveFilesStep ==
  ASSUME FilesInv, NEW h \in Holders, RemoveFiles(h)
  PROVE  FilesInv' /\ OneAdvances
<1>0. PICK s : s = op[h].sec
  OBVIOUS
<1>1. UNCHANGED <<given, spoiled>> /\ op[h].at \in {"removeValue", "removeMeta"}
  BY DEF RemoveFiles
<1>2. /\ s \in Entries /\ Sound(h) /\ op[h] \in Operation /\ op[h].got = Absent
      /\ given[s] # {} /\ op[h].kind = "delete"
      /\ s \notin spoiled => HalfWay(h, s)
      /\ s \notin spoiled => \A g \in Holders \ {h} : ~ Changing(g, s)
  BY <1>0, <1>1, WriterFacts DEF Sound
<1>3. RecordsRead
  BY RecordsBefore
<1>4. CASE op[h].at = "removeValue"
  <2>1. PICK step \in {"removeMeta", "done"} :
          /\ value' = [value EXCEPT ![s] = Absent] /\ Goes(h, step) /\ UNCHANGED meta
          /\ step = "done" <=> value[s] = Absent
    BY <1>0, <1>4 DEF RemoveFiles, Ends
  <2>2. /\ value' \in [Entries -> Payloads \cup {Absent, "torn"}] /\ value'[s] = Absent
        /\ meta' \in [Entries -> {Absent, "torn", "active", "revoked"}]
        /\ \A t \in Entries \ {s} : value'[t] = value[t]
    BY <1>2, <2>1 DEF FilesInv, FilesTyped
  <2>3. /\ op'[h].at = step /\ op'[h].kind = op[h].kind /\ op'[h].sec = s
        /\ op'[h].new = op[h].new /\ op'[h].copy = op[h].copy /\ op'[h].got = op[h].got
        /\ \A g \in Holders \ {h} : op'[g] = op[g]
    BY <1>0, <2>1, GoesEffect DEF FileSteps
  <2>4. Sound(h)'
    BY <1>0, <1>1, <1>2, <1>4, <2>1, <2>3 DEF Sound
  <2>5. s \notin spoiled => /\ meta[s] \in {"active", "revoked"} /\ value[s] \in Payloads
                            /\ step = "removeMeta" /\ HalfWay(h, s)'
    <3>1. s \notin spoiled => meta[s] \in {"active", "revoked"} /\ value[s] \in Payloads
      BY <1>2, <1>4 DEF HalfWay
    <3> QED BY <2>1, <2>2, <2>3, <3>1, PayloadAssumption DEF HalfWay
  <2>6. FilesInv' /\ WorksOn(h, s)
    <3>1. step \in FileSteps
      BY <2>1 DEF FileSteps
    <3> QED BY <1>0, <1>1, <1>2, <1>4, <2>1, <2>2, <2>4, <2>5, <3>1, WriteKeepsFiles
  <2>7. Advances(s)
    <3>1. CASE s \in spoiled
      BY <1>1, <3>1 DEF Advances
    <3>2. CASE s \notin spoiled
      <4>1. RecordOf(s) = [status |-> meta[s], value |-> value[s]]
        BY <1>2, <1>3, <2>5, <3>2 DEF RecordsRead
      <4>2. \A g \in Holders : ~ (Changing(g, s)' /\ op'[g].kind = "create")
        BY <1>2, <2>3, <3>2 DEF Changing
      <4>3. RecordOf(s)' = [status |-> "deleted", value |-> Absent]
        BY <1>1, <1>2, <2>2, <2>6, <3>2, <4>2, RecordsAfter DEF RecordsRead
      <4> QED BY <2>5, <3>2, <4>1, <4>3 DEF Advances
    <3> QED BY <3>1, <3>2
  <2> QED BY <1>2, <2>6, <2>7 DEF OneAdvances
<1>5. CASE op[h].at = "removeMeta"
  <2>1. meta' = [meta EXCEPT ![s] = Absent] /\ Goes(h, "done") /\ UNCHANGED value
    BY <1>0, <1>5 DEF RemoveFiles, Ends
  <2>2. /\ meta' \in [Entries -> {Absent, "torn", "active", "revoked"}] /\ meta'[s] = Absent
        /\ value' \in [Entries -> Payloads \cup {Absent, "torn"}]
        /\ value'[s] \in given[s] \cup {Absent, "torn"}
        /\ \A t \in Entries \ {s} : meta'[t] = meta[t]
    BY <1>2, <2>1 DEF FilesInv, FilesTyped, ValuesGiven
  <2>3. /\ op'[h].at = "done" /\ op'[h].kind = op[h].kind /\ op'[h].sec = s
        /\ op'[h].got = op[h].got
        /\ \A g \in Holders \ {h} : op'[g] = op[g]
    BY <1>0, <2>1, GoesEffect DEF FileSteps
  <2>4. Sound(h)'
    BY <1>0, <1>1, <1>2, <2>3 DEF Sound
  <2>5. s \notin spoiled => value'[s] = Absent /\ Settled(s)'
    BY <1>2, <1>5, <2>1, <2>2 DEF HalfWay, Settled
  <2>6. FilesInv' /\ WorksOn(h, s)
    BY <1>0, <1>1, <1>2, <1>5, <2>1, <2>2, <2>4, <2>5, WriteKeepsFiles DEF FileSteps
  <2>7. Advances(s)
    <3>1. CASE s \in spoiled
      BY <1>1, <3>1 DEF Advances
    <3>2. CASE s \notin spoiled
      <4>1. \A g \in Holders : /\ ~ (Changing(g, s) /\ op[g].kind = "create")
                               /\ ~ (Changing(g, s)' /\ op'[g].kind = "create")
        BY <1>2, <2>3, <3>2 DEF Changing
      <4>2. RecordOf(s) = [status |-> "deleted", value |-> Absent]
        BY <1>2, <1>3, <2>1, <2>5, <3>2, <4>1 DEF RecordsRead
      <4>3. RecordOf(s)' = [status |-> "deleted", value |-> Absent]
        BY <1>1, <1>2, <2>5, <2>6, <3>2, <4>1, RecordsAfter DEF RecordsRead
      <4> QED BY <4>2, <4>3 DEF Advances
    <3> QED BY <3>1, <3>2
  <2> QED BY <1>2, <2>6, <2>7 DEF OneAdvances
<1> QED BY <1>1, <1>4, <1>5

LEMMA FileFailsStep ==
  ASSUME FilesInv, NEW h \in Holders, FileFails(h)
  PROVE  FilesInv' /\ OneAdvances
<1>0. PICK s : s = op[h].sec
  OBVIOUS
<1>1. op[h].at \notin {"done", "meta", "get"} /\ Ends(h) /\ spoiled' = spoiled \cup {s} /\ given' = given
  BY <1>0 DEF FileFails
<1>2. /\ s \in Entries /\ Sound(h) /\ op[h] \in Operation /\ op[h].got = Absent /\ given[s] # {}
  BY <1>0, <1>1, WriterFacts
<1>3. PICK kept \in {value[s]} \cup IF op[h].at = "fillValue" THEN {op[h].new} ELSE {} :
         value' = [value EXCEPT ![s] = kept]
  BY <1>0 DEF FileFails
<1>4. kept \in given[s] \cup {Absent, "torn"}
  BY <1>0, <1>1, <1>2, <1>3 DEF Sound, FilesInv, ValuesGiven
<1>5. /\ value' \in [Entries -> Payloads \cup {Absent, "torn"}] /\ value'[s] = kept
      /\ \A t \in Entries \ {s} : value'[t] = value[t]
  BY <1>2, <1>3, <1>4 DEF FilesInv, FilesTyped
<1>6. /\ meta' \in [Entries -> {Absent, "torn", "active", "revoked"}]
      /\ \A t \in Entries \ {s} : meta'[t] = meta[t]
  BY <1>0, <1>2 DEF FileFails, FilesInv, FilesTyped
<1>7. /\ op' \in [Holders -> Operation]
      /\ op'[h].at = "done" /\ op'[h].kind = op[h].kind /\ op'[h].sec = s
      /\ op'[h].got = op[h].got
      /\ \A g \in Holders \ {h} : op'[g] = op[g]
  BY <1>0, <1>1, GoesEffect DEF FileSteps, Ends
<1>8. Sound(h)'
  BY <1>0, <1>1, <1>2, <1>7 DEF Sound
<1>9. WorksOn(h, s)
  BY <1>0, <1>1, <1>5, <1>6, <1>7 DEF WorksOn
<1>10. FilesTyped'
  BY <1>1, <1>2, <1>5, <1>6, <1>7 DEF FilesInv, FilesTyped
<1>11. FilesInv'
  BY <1>1, <1>2, <1>4, <1>5, <1>8, <1>9, <1>10, OneThread DEF Keeps
<1> QED BY <1>1, <1>2, <1>9, <1>11 DEF OneAdvances, Advances

LEMMA BeginStep ==
  ASSUME FilesInv, NEW h \in Holders, NEW s \in Entries, NEW v \in Payloads \cup {Absent},
         NEW kind \in Changes \cup {"read"}, Begin(h, kind, s, v)
  PROVE  FilesInv' /\ OneAdvances
<1>0. PICK step, copy : /\ step = IF kind = "create" THEN "emptyMeta" ELSE "meta"
                        /\ copy = IF kind = "create" THEN "active" ELSE Absent
  OBVIOUS
<1>1. /\ op[h].at = "done" /\ UNCHANGED <<meta, value>>
      /\ kind = "create" <=> given[s] = {}
      /\ v \in Payloads <=> kind \in {"create", "update"}
      /\ given' = [given EXCEPT ![s] = @ \cup ({v} \ {Absent})]
      /\ spoiled' = IF kind \in Changes /\ \E g \in Holders : Changing(g, s) THEN spoiled \cup {s} ELSE spoiled
  BY PayloadAssumption DEF Begin
<1>2. PICK begun : begun = [Rest EXCEPT !.kind = kind, !.sec = s, !.new = v, !.at = step, !.copy = copy]
  OBVIOUS
<1>3. /\ begun \in Operation /\ begun.got = Absent
      /\ begun.kind = kind /\ begun.sec = s /\ begun.new = v /\ begun.at = step /\ begun.copy = copy
  BY <1>0, <1>2 DEF Rest, Operation, FileSteps
<1>4. /\ op' \in [Holders -> Operation] /\ op'[h] = begun
      /\ \A g \in Holders \ {h} : op'[g] = op[g]
  <2>1. op' = [op EXCEPT ![h] = begun]
    BY <1>0, <1>2, Zenon DEF Begin
  <2> QED BY <1>3, <2>1 DEF FilesInv, FilesTyped
<1>5. /\ given' \in [Entries -> SUBSET Payloads] /\ given'[s] # {} /\ given[s] \subseteq given'[s]
      /\ v \in given'[s] \cup {Absent}
      /\ \A t \in Entries \ {s} : given'[t] = given[t]
  BY <1>1, PayloadAssumption DEF FilesInv, FilesTyped
<1>6. FilesTyped'
  BY <1>1, <1>4, <1>5 DEF FilesInv, FilesTyped
<1>7. WorksOn(h, s)
  BY <1>1, <1>3, <1>4, <1>5 DEF WorksOn
<1>8. Sound(h)'
  <2>1. /\ op'[h].kind = kind /\ op'[h].sec = s /\ op'[h].new = v /\ op'[h].at = step
        /\ op'[h].copy = copy /\ op'[h].got = Absent
    BY <1>3, <1>4
  <2>2. kind \in {"create", "read", "update", "rewrap", "revoke", "delete"}
    BY DEF Changes
  <2>3. CASE kind = "create"
    BY <1>0, <1>1, <1>5, <2>1, <2>3 DEF Sound
  <2>4. CASE kind # "create"
    BY <1>0, <1>1, <1>5, <2>1, <2>2, <2>4 DEF Sound
  <2> QED BY <2>3, <2>4
<1>9. value'[s] \in given'[s] \cup {Absent, "torn"}
  BY <1>1, <1>5 DEF FilesInv, ValuesGiven
<1>10. ~ Changing(h, s)
  BY <1>1 DEF Changing
<1>11. s \notin spoiled' /\ kind \in Changes => \A g \in Holders : ~ Changing(g, s)
  BY <1>1
<1>12. s \notin spoiled' => s \notin spoiled
  BY <1>1
<1>13. s \notin spoiled' /\ kind \in Changes => Settled(s)
  BY <1>11, <1>12 DEF FilesInv, FilesAgree
<1>14. kind = "create" => meta[s] = Absent /\ value[s] = Absent
  BY <1>1 DEF FilesInv, ValuesGiven
<1>15. Keeps(h, s)
  <2>1. CASE s \in spoiled'
    BY <2>1 DEF Keeps
  <2>2. CASE kind = "read"
    <3>1. ~ Changing(h, s)'
      BY <1>3, <1>4, <2>2 DEF Changing, Changes
    <3> QED BY <1>1, <1>10, <3>1 DEF Keeps
  <2>3. CASE s \notin spoiled' /\ kind \in Changes
    <3>1. Settled(s)'
      BY <1>1, <1>13, <2>3 DEF Settled
    <3>2. HalfWay(h, s)'
      BY <1>0, <1>1, <1>3, <1>4, <1>14, <3>1 DEF HalfWay
    <3>3. Changing(h, s)'
      BY <1>0, <1>3, <1>4, <2>3 DEF Changing
    <3> QED BY <1>11, <2>3, <3>2, <3>3 DEF Keeps
  <2> QED BY <2>1, <2>2, <2>3
<1>16. FilesInv'
  BY <1>5, <1>6, <1>7, <1>8, <1>9, <1>15, OneThread
<1>17. Advances(s)
  <2>1. CASE s \in spoiled'
    BY <2>1 DEF Advances
  <2>2. CASE s \notin spoiled' /\ kind = "create"
    <3>1. RecordOf(s) = [status |-> "unused", value |-> Absent]
      BY <1>1, <1>12, <1>14, <2>2, NoValueFile
    <3>2. RecordOf(s)' = [status |-> "unused", value |-> Absent]
      BY <1>0, <1>1, <1>3, <1>4, <1>14, <1>16, <2>2, CreatingAfter
    <3> QED BY <3>1, <3>2 DEF Advances
  <2>3. CASE s \notin spoiled' /\ kind # "create"
    <3>1. \A g \in Holders : op[g].sec = s /\ op[g].at \in {"fillMeta", "fillValue"} => op'[g] = op[g]
      BY <1>1, <1>4
    <3>2. \A g \in Holders : Changing(g, s) /\ op[g].kind = "create"
                               <=> Changing(g, s)' /\ op'[g].kind = "create"
      BY <1>1, <1>3, <1>4, <2>3 DEF Changing
    <3>3. RecordOf(s)' = RecordOf(s)
      BY <1>1, <1>5, <1>12, <1>16, <2>3, <3>1, <3>2, SameRecord
    <3> QED BY <3>3 DEF Advances
  <2> QED BY <2>1, <2>2, <2>3
<1> QED BY <1>7, <1>16, <1>17 DEF OneAdvances

(* After a crash nobody is at work: a file that was being written is       *)
(* spoiled, and every other one was whole.                                 *)
Stopped ==
  /\ \A h \in Holders : op'[h] = Rest
  /\ \A s \in Entries : RecordOf(s)' = RecordOf(s) \/ s \in spoiled'
  /\ given' = given

LEMMA StoreCrashStep ==
  ASSUME FilesInv, StoreCrash
  PROVE  FilesInv' /\ Stopped
<1>1. /\ UNCHANGED <<meta, value, given>> /\ op' = [h \in Holders |-> Rest]
      /\ spoiled' = spoiled \cup {s \in Entries : \E h \in Holders : Changing(h, s) /\ op[h].at # "meta"}
  BY DEF StoreCrash
<1>2. Rest \in Operation
  BY DEF Rest, Operation, FileSteps
<1>3. FilesTyped'
  BY <1>1, <1>2 DEF FilesInv, FilesTyped
<1>4. \A h \in Holders : op'[h] = Rest
  BY <1>1
<1>5. OperationsSound'
  BY <1>4 DEF OperationsSound, Sound, Rest
<1>6. ValuesGiven'
  <2> SUFFICES ASSUME NEW s \in Entries, given[s] = {} PROVE s \notin spoiled'
    BY <1>1 DEF FilesInv, ValuesGiven
  <2>1. \A h \in Holders : ~ Changing(h, s)
    BY DEF FilesInv, OperationsSound, Sound, Changing
  <2> QED BY <1>1, <2>1 DEF FilesInv, ValuesGiven
<1>7. \A h \in Holders, s \in Entries : ~ Changing(h, s)'
  BY <1>4 DEF Changing, Rest
<1>8. OneChanger'
  BY <1>7 DEF OneChanger
<1>9. ASSUME NEW s \in Entries, s \notin spoiled'
      PROVE  Settled(s) /\ \A h \in Holders : Changing(h, s) => op[h].at = "meta"
  <2>1. s \notin spoiled /\ \A h \in Holders : Changing(h, s) => op[h].at = "meta"
    BY <1>1, <1>9
  <2>2. CASE \E h \in Holders : Changing(h, s)
    BY <2>1, <2>2 DEF FilesInv, FilesAgree, HalfWay
  <2>3. CASE \A h \in Holders : ~ Changing(h, s)
    BY <2>1, <2>3 DEF FilesInv, FilesAgree
  <2> QED BY <2>1, <2>2, <2>3
<1>10. FilesAgree'
  BY <1>1, <1>7, <1>9 DEF FilesAgree, Settled
<1>11. FilesInv'
  BY <1>3, <1>5, <1>6, <1>8, <1>10 DEF FilesInv
<1>12. ASSUME NEW s \in Entries, s \notin spoiled'
       PROVE  RecordOf(s)' = RecordOf(s)
  <2>1. s \notin spoiled
    BY <1>1, <1>12
  <2>2. \A g \in Holders : ~ (op[g].sec = s /\ op[g].at \in {"fillMeta", "fillValue"})
    BY <1>9, <1>12 DEF FilesInv, OperationsSound, Sound, Changing, Changes
  <2>3. \A g \in Holders : ~ (Changing(g, s) /\ op[g].kind = "create")
    BY <1>9, <1>12 DEF FilesInv, OperationsSound, Sound
  <2> QED BY <1>1, <1>7, <1>11, <1>12, <2>1, <2>2, <2>3, SameRecord
<1> QED BY <1>1, <1>4, <1>11, <1>12 DEF Stopped

LEMMA FilesStep ==
  ASSUME FilesInv, StoreStep
  PROVE  FilesInv' /\ (OneAdvances \/ Stopped)
BY BeginStep, ReadMetadataStep, DecryptStep, WriteEncryptedStep, WriteMetadataStep,
   RemoveFilesStep, FileFailsStep, StoreCrashStep DEF StoreStep

LEMMA FilesInitially == StoreInit => FilesInv
<1> SUFFICES ASSUME StoreInit PROVE FilesInv
  OBVIOUS
<1>1. Rest \in Operation
  BY DEF Rest, Operation, FileSteps
<1>2. FilesTyped
  BY <1>1 DEF StoreInit, FilesTyped
<1>3. OperationsSound
  BY DEF StoreInit, OperationsSound, Sound, Rest
<1>4. \A h \in Holders, s \in Entries : ~ Changing(h, s)
  BY DEF StoreInit, Changing, Rest
<1> QED BY <1>2, <1>3, <1>4 DEF FilesInv, StoreInit, ValuesGiven, OneChanger, FilesAgree, Settled

LEMMA FilesStutter == FilesInv /\ UNCHANGED storeVars => FilesInv'
BY DEF storeVars, FilesInv, FilesTyped, OperationsSound, Sound, ValuesGiven, OneChanger,
       Changing, FilesAgree, HalfWay, Settled

----------------------------------------------------------------------------
(* The register *)

Records == [s \in Entries |-> RecordOf(s)]

LEMMA NewValue ==
  ASSUME NEW S, NEW V, NEW r \in [status : S, value : V], NEW v
  PROVE  [r EXCEPT !.value = v] = [status |-> r.status, value |-> v]
OBVIOUS

LEMMA NewStatus ==
  ASSUME NEW S, NEW V, NEW r \in [status : S, value : V], NEW status
  PROVE  [r EXCEPT !.status = status] = [status |-> status, value |-> r.value]
OBVIOUS

(* Every step of the store is one of the register, or none. *)
LEMMA RegisterStep ==
  ASSUME FilesInv, FilesInv', OneAdvances \/ Stopped
  PROVE  [Register!RegisterNext]_Records
<1>1. \A s \in Entries : s \in spoiled' => RecordOf(s)' = [status |-> "unspecified", value |-> Absent]
  BY RecordsAfter DEF RecordsRead
<1>2. CASE OneAdvances
  <2>1. PICK h \in Holders, s \in Entries : WorksOn(h, s) /\ Advances(s)
    BY <1>2 DEF OneAdvances
  <2>2. \A t \in Entries \ {s} : RecordOf(t)' = RecordOf(t)
    BY <2>1, OtherRecords
  <2>3. Records' = [Records EXCEPT ![s] = RecordOf(s)']
    BY <2>2 DEF Records
  <2>4. Records[s] = RecordOf(s)
    BY DEF Records
  <2>5. RecordOf(s) \in [status : {"unused", "active", "revoked", "deleted", "unspecified"},
                         value : Payloads \cup {Absent}]
    BY RecordKinds
  <2>6. CASE RecordOf(s)' = RecordOf(s)
    BY <2>3, <2>6 DEF Records
  <2>7. CASE s \in spoiled'
    <3>1. Records' = [t \in Entries |-> IF t \in {s} THEN [status |-> "unspecified", value |-> Absent]
                                                     ELSE Records[t]]
      BY <1>1, <2>2, <2>7 DEF Records
    <3> QED BY <3>1 DEF Register!RegisterNext, Register!Spoil, Register!Blank, Records
  <2>8. CASE /\ RecordOf(s).status = "unused"
             /\ \E v \in Payloads : RecordOf(s)' = [status |-> "active", value |-> v]
    BY <2>3, <2>4, <2>8 DEF Register!RegisterNext, Register!CreateSecret, Register!Put, Records
  <2>9. CASE /\ RecordOf(s).status = "active"
             /\ \E v \in Payloads : RecordOf(s)' = [status |-> "active", value |-> v]
    <3>1. PICK v \in Payloads : RecordOf(s)' = [status |-> "active", value |-> v]
      BY <2>9
    <3>2. RecordOf(s)' = [RecordOf(s) EXCEPT !.value = v]
      BY <2>5, <2>9, <3>1, NewValue
    <3>3. Register!UpdateSecret(s, v)
      BY <2>3, <2>4, <2>9, <3>2 DEF Register!UpdateSecret, Register!Readable, Register!Put, Records
    <3> QED BY <3>3 DEF Register!RegisterNext
  <2>10. CASE /\ RecordOf(s).status \in {"active", "revoked"}
              /\ RecordOf(s)' = [status |-> "revoked", value |-> RecordOf(s).value]
    <3>1. RecordOf(s)' = [RecordOf(s) EXCEPT !.status = "revoked"]
      BY <2>5, <2>10, NewStatus
    <3> QED BY <2>3, <2>4, <2>10, <3>1 DEF Register!RegisterNext, Register!RevokeSecret, Register!Put, Records
  <2>11. CASE /\ RecordOf(s).status \in {"active", "revoked"}
              /\ RecordOf(s)' = [status |-> "deleted", value |-> Absent]
    BY <2>3, <2>4, <2>11 DEF Register!RegisterNext, Register!DeleteSecret, Register!Put, Register!Blank, Records
  <2> QED BY <2>1, <2>6, <2>7, <2>8, <2>9, <2>10, <2>11 DEF Advances
<1>3. CASE Stopped
  <2>1. Records' = [s \in Entries |-> IF s \in Entries \cap spoiled'
                                        THEN [status |-> "unspecified", value |-> Absent] ELSE Records[s]]
    BY <1>1, <1>3 DEF Stopped, Records
  <2> QED BY <2>1 DEF Register!RegisterNext, Register!Spoil, Register!Blank, Records
<1> QED BY <1>2, <1>3

----------------------------------------------------------------------------
(* What readers are answered *)

(* A reader that is moved to the value has just seen active metadata; and  *)
(* an answer comes only from Decrypt, which found that value.              *)
ReaderMoves ==
  \A h \in Holders :
    /\ op'[h].kind = "read" /\ op'[h].at = "get" /\ op'[h] # op[h] =>
         op[h].kind = "read" /\ op[h].at = "meta" /\ op'[h].sec = op[h].sec /\ meta[op[h].sec] = "active"
           /\ UNCHANGED <<meta, value, given, spoiled>>
    /\ op'[h].got # Absent /\ op'[h] # op[h] =>
         op[h].kind = "read" /\ op[h].at = "get" /\ op'[h].sec = op[h].sec /\ op'[h].kind = "read"
           /\ op'[h].got = value[op[h].sec] /\ value[op[h].sec] \in Payloads
           /\ UNCHANGED <<meta, value, given, spoiled>>

LEMMA ReadersMove ==
  ASSUME FilesInv, StoreStep
  PROVE  ReaderMoves
<1>0. \A h \in Holders : op[h] \in Operation /\ Sound(h)
  BY DEF FilesInv, FilesTyped, OperationsSound
<1>1. ASSUME NEW g \in Holders, NEW s \in Entries, NEW v \in Payloads \cup {Absent},
             NEW kind \in Changes \cup {"read"}, Begin(g, kind, s, v)
      PROVE  ReaderMoves
  <2>1. op'[g].got = Absent /\ op'[g].at # "get" /\ \A h \in Holders \ {g} : op'[h] = op[h]
    BY <1>1 DEF Begin, Rest, FilesInv, FilesTyped
  <2> QED BY <2>1 DEF ReaderMoves
<1>2. ASSUME NEW g \in Holders, NEW step \in FileSteps \ {"get"}, Goes(g, step), op[g].at # "done"
      PROVE  ReaderMoves
  <2>1. op'[g].got = Absent /\ op'[g].at # "get" /\ \A h \in Holders \ {g} : op'[h] = op[h]
    BY <1>0, <1>2, GoesEffect DEF Sound
  <2> QED BY <2>1 DEF ReaderMoves
<1>3. ASSUME NEW g \in Holders, ReadMetadata(g)
      PROVE  ReaderMoves
  <2>1. CASE Ends(g)
    BY <1>2, <1>3, <2>1 DEF ReadMetadata, Ends, FileSteps
  <2>2. CASE ~ Ends(g)
    <3>1. PICK found, step :
            /\ found = meta[op[g].sec] /\ op[g].at = "meta"
            /\ op[g].kind = "read" => found = "active"
            /\ op' = [op EXCEPT ![g].copy = found, ![g].at = step]
      BY <1>3, <2>2 DEF ReadMetadata
    <3>2. /\ op'[g].kind = op[g].kind /\ op'[g].sec = op[g].sec /\ op'[g].got = op[g].got
          /\ \A h \in Holders \ {g} : op'[h] = op[h]
      BY <1>0, <3>1 DEF FilesInv, FilesTyped, Operation
    <3>3. op[g].got = Absent
      BY <1>0, <3>1 DEF Sound
    <3>4. UNCHANGED <<meta, value, given, spoiled>>
      BY <1>3 DEF ReadMetadata
    <3> QED BY <3>1, <3>2, <3>3, <3>4 DEF ReaderMoves
  <2> QED BY <2>1, <2>2
<1>4. ASSUME NEW g \in Holders, Decrypt(g)
      PROVE  ReaderMoves
  <2>0. op[g].at = "get" /\ UNCHANGED <<meta, value, given, spoiled>>
    BY <1>4 DEF Decrypt
  <2>1. CASE Ends(g)
    BY <1>2, <2>0, <2>1 DEF Ends, FileSteps
  <2>2. CASE op[g].kind = "rewrap" /\ ~ Ends(g)
    <3>1. op' = [op EXCEPT ![g].new = value[op[g].sec], ![g].at = "emptyValue"]
      BY <1>4, <2>2 DEF Decrypt
    <3>2. op'[g].at # "get" /\ op'[g].got = op[g].got /\ \A h \in Holders \ {g} : op'[h] = op[h]
      BY <1>0, <3>1 DEF FilesInv, FilesTyped, Operation
    <3>3. op[g].got = Absent
      BY <1>0, <2>0 DEF Sound
    <3> QED BY <3>2, <3>3 DEF ReaderMoves
  <2>3. CASE op[g].kind # "rewrap" /\ ~ Ends(g)
    <3>1. /\ op' = [op EXCEPT ![g].got = value[op[g].sec], ![g].at = "done"]
          /\ value[op[g].sec] \notin {Absent, "torn"}
      BY <1>4, <2>3 DEF Decrypt
    <3>2. /\ op'[g].at = "done" /\ op'[g].kind = op[g].kind /\ op'[g].sec = op[g].sec
          /\ op'[g].got = value[op[g].sec] /\ \A h \in Holders \ {g} : op'[h] = op[h]
      BY <1>0, <3>1 DEF FilesInv, FilesTyped, Operation
    <3>3. op[g].kind = "read" /\ op[g].sec \in Entries
      BY <1>0, <2>0, <2>3 DEF Sound
    <3>4. value[op[g].sec] \in Payloads
      BY <3>1, <3>3 DEF FilesInv, FilesTyped
    <3> QED BY <2>0, <3>2, <3>3, <3>4 DEF ReaderMoves
  <2> QED BY <2>1, <2>2, <2>3
<1>5. ASSUME NEW g \in Holders,
             WriteEncrypted(g) \/ WriteMetadata(g) \/ RemoveFiles(g) \/ FileFails(g)
      PROVE  ReaderMoves
  <2>1. op[g].at # "done" /\ \E step \in FileSteps \ {"get"} : Goes(g, step)
    BY <1>5 DEF WriteEncrypted, WriteMetadata, RemoveFiles, FileFails, Ends, FileSteps
  <2> QED BY <1>2, <2>1
<1>6. ASSUME StoreCrash
      PROVE  ReaderMoves
  <2>1. \A h \in Holders : op'[h].at = "done" /\ op'[h].got = Absent
    BY <1>6 DEF StoreCrash, Rest
  <2> QED BY <2>1 DEF ReaderMoves
<1> QED BY <1>1, <1>3, <1>4, <1>5, <1>6 DEF StoreStep

RecordsKnown ==
  \A s \in Entries :
    /\ RecordOf(s).status \in {"active", "revoked"} => RecordOf(s).value \in Payloads
    /\ value[s] \in Payloads /\ s \notin spoiled =>
         RecordOf(s).status \in {"active", "revoked"} /\ RecordOf(s).value = value[s]
    /\ meta[s] = "active" /\ s \notin spoiled => RecordOf(s).status # "revoked"

LEMMA KnownBefore == FilesInv => RecordsKnown
<1> SUFFICES ASSUME FilesInv, NEW s \in Entries, s \notin spoiled, meta[s] = "active"
             PROVE  RecordOf(s).status # "revoked"
  BY RecordKinds DEF RecordsKnown
<1>1. RecordsRead
  BY RecordsBefore
<1>2. CASE value[s] = Absent
  BY <1>1, <1>2 DEF RecordsRead
<1>3. CASE value[s] = "torn"
  <2>1. PICK h \in Holders : op[h].sec = s /\ op[h].at = "fillValue"
    BY <1>3, TornFiles
  <2> QED BY <1>1, <2>1 DEF RecordsRead
<1>4. CASE value[s] \in Payloads
  BY <1>1, <1>4 DEF RecordsRead
<1> QED BY <1>2, <1>3, <1>4 DEF FilesInv, FilesTyped

LEMMA KnownAfter == FilesInv' => RecordsKnown'
BY KnownBefore, PTL

(* What Observed records for a reader. *)
LEMMA WindowEffect ==
  ASSUME FilesInv', Observed, NEW h \in Holders, NEW s \in Entries,
         op'[h].kind = "read", op'[h].sec = s
  PROVE  /\ op[h] = op'[h] /\ op[h].at = "done" => window'[h] = window[h]
         /\ ~ (op[h] = op'[h] /\ op[h].at = "done") =>
              window'[h] = (IF op[h].at = "done" THEN {} ELSE window[h]) \cup ActiveValue(s)'
<1>1. UNION {ActiveValue(t)' : t \in {op'[h].sec}} = ActiveValue(s)'
  OBVIOUS
<1> QED BY <1>1 DEF Observed

LEMMA WindowTyped ==
  ASSUME FilesInv', window \in [Holders -> SUBSET Payloads], Observed
  PROVE  window' \in [Holders -> SUBSET Payloads]
<1> SUFFICES ASSUME NEW h \in Holders PROVE window'[h] \in SUBSET Payloads
  BY DEF Observed
<1>1. CASE op'[h].kind # "read"
  BY <1>1 DEF Observed
<1>2. CASE op'[h].kind = "read"
  <2>1. PICK s \in Entries : s = op'[h].sec
    BY <1>2 DEF FilesInv, OperationsSound, Sound
  <2>2. ActiveValue(s)' \subseteq Payloads
    BY KnownAfter DEF RecordsKnown, ActiveValue
  <2> QED BY <1>2, <2>1, <2>2, WindowEffect
<1> QED BY <1>1, <1>2

(* Revoking a secret leaves its value. *)
LEMMA RevokedKeepsValue ==
  ASSUME FilesInv, FilesInv', OneAdvances, NEW s \in Entries, s \notin spoiled',
         RecordOf(s)'.status = "revoked"
  PROVE  /\ RecordOf(s).status \in {"active", "revoked"}
         /\ RecordOf(s)'.value = RecordOf(s).value
<1>1. PICK h \in Holders, t \in Entries : WorksOn(h, t) /\ Advances(t)
  BY DEF OneAdvances
<1>2. CASE t # s
  BY <1>1, <1>2, OtherRecords
<1>3. CASE t = s
  BY <1>1, <1>3 DEF Advances
<1> QED BY <1>2, <1>3

LEMMA ReadersStep ==
  ASSUME StoreInv, StoreStep, Observed
  PROVE  StoreInv'
<1>1. FilesInv' /\ (OneAdvances \/ Stopped) /\ ReaderMoves
  BY FilesStep, ReadersMove DEF StoreInv
<1>2. window' \in [Holders -> SUBSET Payloads]
  BY <1>1, WindowTyped DEF StoreInv
<1>3. RecordsKnown /\ RecordsKnown'
  BY <1>1, KnownBefore, KnownAfter DEF StoreInv
<1>4. ASSUME NEW h \in Holders, op'[h] = op[h], op[h].kind # "none"
      PROVE  /\ OneAdvances
             /\ \A s \in Entries : given[s] \subseteq given'[s] /\ (s \in spoiled => s \in spoiled')
  <2>1. OneAdvances
    BY <1>1, <1>4 DEF Stopped, Rest
  <2>2. PICK g \in Holders, t \in Entries : WorksOn(g, t)
    BY <2>1 DEF OneAdvances
  <2> QED BY <2>1, <2>2 DEF WorksOn
<1>5. ReadersAhead'
  <2> SUFFICES ASSUME NEW h \in Holders, NEW s, s = op'[h].sec,
                      op'[h].kind = "read", op'[h].at = "get", s \notin spoiled',
                      RecordOf(s)'.status \in {"active", "revoked"}
               PROVE  RecordOf(s)'.value \in window'[h]
    BY DEF ReadersAhead
  <2>1. s \in Entries
    BY <1>1 DEF FilesInv, OperationsSound, Sound
  <2>2. window'[h] = (IF op[h].at = "done" THEN {} ELSE window[h]) \cup ActiveValue(s)'
    BY <1>1, <2>1, WindowEffect
  <2>3. CASE RecordOf(s)'.status = "active"
    BY <2>2, <2>3 DEF ActiveValue
  <2>4. CASE RecordOf(s)'.status = "revoked" /\ op'[h] # op[h]
    BY <1>1, <1>3, <2>1, <2>4 DEF ReaderMoves, RecordsKnown
  <2>5. CASE RecordOf(s)'.status = "revoked" /\ op'[h] = op[h]
    <3>1. OneAdvances /\ s \notin spoiled
      BY <1>4, <2>1, <2>5
    <3>2. /\ RecordOf(s).status \in {"active", "revoked"}
          /\ RecordOf(s)'.value = RecordOf(s).value
      BY <1>1, <2>1, <2>5, <3>1, RevokedKeepsValue DEF StoreInv
    <3>3. RecordOf(s).value \in window[h]
      BY <2>5, <3>1, <3>2 DEF StoreInv, ReadersAhead
    <3> QED BY <2>2, <2>5, <3>2, <3>3
  <2> QED BY <2>3, <2>4, <2>5
<1>6. ReadsAnswerTrue'
  <2> SUFFICES ASSUME NEW h \in Holders, NEW s, s = op'[h].sec, op'[h].got # Absent
               PROVE  op'[h].got \in given'[s] /\ (s \in spoiled' \/ op'[h].got \in window'[h])
    BY DEF ReadsAnswerTrue
  <2>1. s \in Entries /\ op'[h].kind = "read"
    BY <1>1 DEF FilesInv, OperationsSound, Sound
  <2>2. CASE op'[h] = op[h]
    <3>1. /\ op[h].at = "done"
          /\ op[h].got \in given[s] /\ (s \in spoiled \/ op[h].got \in window[h])
      BY <2>2 DEF StoreInv, FilesInv, OperationsSound, Sound, ReadsAnswerTrue
    <3>2. window'[h] = window[h]
      BY <1>1, <2>1, <2>2, <3>1, WindowEffect
    <3> QED BY <1>4, <2>1, <2>2, <3>1, <3>2
  <2>3. CASE op'[h] # op[h]
    <3>1. /\ op[h].kind = "read" /\ op[h].at = "get" /\ op[h].sec = s
          /\ op'[h].got = value[s] /\ value[s] \in Payloads
          /\ UNCHANGED <<given, spoiled>>
      BY <1>1, <2>3 DEF ReaderMoves
    <3>2. value[s] \in given[s]
      BY <2>1, <3>1, PayloadAssumption DEF StoreInv, FilesInv, ValuesGiven
    <3>3. s \notin spoiled => value[s] \in window[h]
      BY <1>3, <2>1, <3>1 DEF RecordsKnown, StoreInv, ReadersAhead
    <3>4. window[h] \subseteq window'[h]
      BY <1>1, <2>1, <3>1, WindowEffect
    <3> QED BY <3>1, <3>2, <3>3, <3>4
  <2> QED BY <2>2, <2>3
<1> QED BY <1>1, <1>2, <1>5, <1>6 DEF StoreInv

----------------------------------------------------------------------------

LEMMA StoreInvHolds == StoreSpec => []StoreInv
<1>1. StoreInit => StoreInv
  <2> SUFFICES ASSUME StoreInit PROVE StoreInv
    OBVIOUS
  <2>1. \A h \in Holders : op[h] = Rest /\ window[h] = {}
    BY DEF StoreInit
  <2> QED BY <2>1, FilesInitially DEF StoreInv, StoreInit, ReadersAhead, ReadsAnswerTrue, Rest
<1>2. StoreInv /\ [StoreNext]_storeVars => StoreInv'
  <2>1. StoreInv /\ StoreNext => StoreInv'
    BY ReadersStep DEF StoreNext
  <2>2. StoreInv /\ UNCHANGED storeVars => StoreInv'
    <3> SUFFICES ASSUME StoreInv, UNCHANGED storeVars PROVE StoreInv'
      OBVIOUS
    <3>1. FilesInv'
      BY FilesStutter DEF StoreInv
    <3>2. ASSUME NEW s PROVE RecordOf(s)' = RecordOf(s)
      BY DEF storeVars, RecordOf, RecordStatus, Pending, Changing
    <3> QED BY <3>1, <3>2 DEF StoreInv, storeVars, ReadersAhead, ReadsAnswerTrue
  <2> QED BY <2>1, <2>2
<1> QED BY <1>1, <1>2, PTL DEF StoreSpec

(* The whole promise of SecretStore.ImplementsRegister, for every number   *)
(* of threads, secrets, values, failures and crashes: what the two files   *)
(* of a secret stand for changes only as the one record of                 *)
(* InMemorySecretStore changes, and read answers a payload that was stored *)
(* for the secret and that it had, while active, during that very read,    *)
(* unless changes of it overlapped or stopped half-way.                    *)
THEOREM FilesImplementRegister == StoreSpec => ImplementsRegister
<1>1. StoreInit => Register!RegisterInit
  <2> SUFFICES ASSUME StoreInit PROVE Register!RegisterInit
    OBVIOUS
  <2>1. \A s \in Entries : RecordOf(s) = [status |-> "unused", value |-> Absent]
    BY NoValueFile DEF StoreInit
  <2> QED BY <2>1 DEF Register!RegisterInit, Register!Blank
<1>2. StoreInv /\ [StoreNext]_storeVars => [Register!RegisterNext]_Records
  <2>1. StoreInv /\ StoreNext => [Register!RegisterNext]_Records
    BY FilesStep, RegisterStep DEF StoreNext, StoreInv
  <2>2. UNCHANGED storeVars => UNCHANGED Records
    BY DEF storeVars, Records, RecordOf, RecordStatus, Pending, Changing
  <2> QED BY <2>1, <2>2
<1>3. StoreInv => StoreTypeOK /\ ReadsAnswerTrue
  BY DEF StoreInv, FilesInv, FilesTyped, StoreTypeOK, Operation
<1> QED BY <1>1, <1>2, <1>3, StoreInvHolds, PTL
          DEF StoreSpec, ImplementsRegister, Register!RegisterSpec, Records
(***************************************************************************)
(* The agent clients, for any number of requests, containers and secrets.  *)
(* Every client whose credential is no longer the store's has a reason     *)
(* (ClientsAccounted): a change of its secret has still to come to it, or  *)
(* the change could not see it.  A registration in flight carries the      *)
(* store's value, or a change saw it start (RegistersCurrent).  The audit  *)
(* log lags the changes by the requests in flight (ChangesCounted).        *)
(***************************************************************************)
RowCopy == [con : Containers, sec : Secrets, state : {"connected", "degraded", "unreachable"}]
CallShape ==
  [kind : CallKinds \cup {"none"}, at : {"free", "call", "save", "list", "drop", "unreachable", "answer"},
   sec : Secrets \cup {NoOne}, con : Containers \cup {NoOne}, val : Values \cup {NoValue},
   copies : SUBSET RowCopy]
CallSound(q) ==
  /\ q.kind = "none" => q = Free
  /\ q.kind = "register" => q.sec \in Secrets /\ q.con \in Containers /\ q.val \in Values
  /\ q.kind = "health" => q.con \in Containers
  /\ q.kind \in ChangeKinds => q.sec \in Secrets
CallsSound == call \in [Calls -> CallShape] /\ \A r \in Calls : CallSound(call[r])
ActiveHasValue == \A s \in Secrets : record[s].status = "active" => record[s].value \in Values
RegistersCurrent ==
  \A r \in Calls : call[r].kind = "register" =>
    (record[call[r].sec].status = "active" /\ record[call[r].sec].value = call[r].val) \/ call[r].con \in raced
(* The change q will still come to the client of c. *)
WillDrop(q, c) ==
  /\ q.kind \in ChangeKinds
  /\ \/ q.at = "list"
     \/ /\ q.at \in {"drop", "unreachable"} /\ \E copy \in q.copies : copy.con = c
        /\ ~(q.at = "unreachable" /\ q.con = c)
Accounted(c) ==
  \/ Current(agents[c]) \/ c \in raced
  \/ \E r \in Calls : call[r].sec = agents[c].sec /\ WillDrop(call[r], c)
ClientsAccounted == \A c \in Containers : agents[c] # NoClient => Accounted(c)
InFlight(k) == {r \in Calls : call[r].kind = k}
ChangesCounted ==
  \A k \in ChangeKinds :
    /\ answered[k] \in Nat /\ audit[k] \in Nat /\ changed[k] \in Nat
    /\ answered[k] <= audit[k] /\ audit[k] + Cardinality(InFlight(k)) <= changed[k]
HistoryTyped ==
  DOMAIN answered = ChangeKinds /\ DOMAIN audit = ChangeKinds /\ DOMAIN changed = ChangeKinds
(* The register, the clients and the rows; RegistrationTypeOK without what  *)
(* CallsSound says.                                                         *)
KeptTyped ==
  /\ RegisterTypeOK
  /\ agents \in [Containers -> {NoClient} \cup [sec : Secrets, val : Values]]
  /\ rows \in [Containers -> {NoRow} \cup [sec : Secrets, state : {"connected", "degraded", "unreachable"}]]
  /\ raced \subseteq Containers
RegistrationInv ==
  /\ KeptTyped /\ CallsSound /\ ActiveHasValue /\ RegistersCurrent /\ ClientsAccounted
  /\ HistoryTyped /\ ChangesCounted

LEMMA FreeIsSound == Free \in CallShape /\ CallSound(Free) /\ Free.kind = "none" /\ Free.con = NoOne
<1>1. Free.copies \subseteq RowCopy
  BY DEF Free
<1> QED BY <1>1 DEF Free, CallShape, CallSound, ChangeKinds, CallKinds

(* The counts of the requests in flight are natural numbers. *)
LEMMA InFlightFinite == ASSUME NEW k PROVE IsFiniteSet(InFlight(k)) /\ Cardinality(InFlight(k)) \in Nat
<1>1. InFlight(k) \subseteq Calls
  BY DEF InFlight
<1>2. IsFiniteSet(InFlight(k))
  BY <1>1, CallsAssumption, FS_Subset
<1> QED BY <1>2, FS_CardinalityType

(* The counts stand for the log. *)
LEMMA CountsTell == ChangesCounted => AuditTellsChanges
<1> SUFFICES ASSUME ChangesCounted, NEW k \in ChangeKinds PROVE answered[k] <= audit[k] /\ audit[k] <= changed[k]
  BY DEF AuditTellsChanges
<1>1. PICK n \in Nat : n = Cardinality(InFlight(k))
  BY InFlightFinite
<1> QED BY <1>1 DEF ChangesCounted

(* The invariant gives the property. *)
LEMMA InvTellsChanges == RegistrationInv => SecretChangesThrough
<1> SUFFICES ASSUME RegistrationInv PROVE SecretChangesThrough
  OBVIOUS
<1>1. \A r \in Calls : call[r].kind \in CallKinds \cup {"none"}
  BY DEF RegistrationInv, CallsSound, CallShape
<1>2. OldCredentialDropped
  BY DEF RegistrationInv, ClientsAccounted, Accounted, WillDrop, OldCredentialDropped, BeingDropped
<1> QED BY <1>1, <1>2, CountsTell DEF RegistrationInv, KeptTyped, RegistrationTypeOK, SecretChangesThrough

(* Nothing is registered at first. *)
LEMMA InitRegistration == RegistrationInit => RegistrationInv
<1> SUFFICES ASSUME RegistrationInit PROVE RegistrationInv
  OBVIOUS
<1>1. KeptTyped
  BY DEF RegistrationInit, KeptTyped, RegisterTypeOK, Blank, Statuses
<1>2. CallsSound
  BY FreeIsSound DEF RegistrationInit, CallsSound
<1>3. ActiveHasValue
  BY DEF RegistrationInit, ActiveHasValue, Blank
<1>4. \A r \in Calls : call[r].kind = "none"
  BY FreeIsSound DEF RegistrationInit
<1>5. RegistersCurrent
  BY <1>4 DEF RegistersCurrent
<1>6. ClientsAccounted
  BY DEF RegistrationInit, ClientsAccounted
<1>7. HistoryTyped
  BY DEF RegistrationInit, HistoryTyped
<1>8. \A k \in ChangeKinds : InFlight(k) = {}
  BY <1>4 DEF InFlight, ChangeKinds
<1>9. \A k \in ChangeKinds : answered[k] = 0 /\ audit[k] = 0 /\ changed[k] = 0
  BY DEF RegistrationInit
<1>10. \A k \in ChangeKinds : Cardinality(InFlight(k)) = 0
  BY <1>8, FS_EmptySet
<1>11. ChangesCounted
  BY <1>9, <1>10 DEF ChangesCounted
<1> QED BY <1>1, <1>2, <1>3, <1>5, <1>6, <1>7, <1>11 DEF RegistrationInv

(* One request takes a new place. *)
LEMMA CallReplaced ==
  ASSUME CallsSound, NEW r \in Calls, NEW q \in CallShape, CallSound(q), call' = [call EXCEPT ![r] = q]
  PROVE  CallsSound' /\ call'[r] = q /\ \A x \in Calls \ {r} : call'[x] = call[x]
<1>1. call'[r] = q /\ \A x \in Calls \ {r} : call'[x] = call[x]
  BY DEF CallsSound
<1>2. call' \in [Calls -> CallShape]
  BY DEF CallsSound
<1>3. \A x \in Calls : CallSound(call'[x])
  BY <1>1 DEF CallsSound
<1> QED BY <1>1, <1>2, <1>3 DEF CallsSound

(* A request that is no change, before or after, and a log that stays.      *)
LEMMA CountsStay ==
  ASSUME CallsSound, ChangesCounted, HistoryTyped, NEW r \in Calls, NEW q, call'[r] = q, \A x \in Calls \ {r} : call'[x] = call[x],
         q.kind = call[r].kind \/ (q.kind \notin ChangeKinds /\ call[r].kind \notin ChangeKinds),
         UNCHANGED <<audit, changed, answered>>
  PROVE  HistoryTyped' /\ ChangesCounted'
<1>1. ASSUME NEW k \in ChangeKinds PROVE InFlight(k)' = InFlight(k)
  <2>1. \A x \in Calls : call'[x].kind = k <=> call[x].kind = k
    BY <1>1
  <2> QED BY <2>1 DEF InFlight
<1>2. ASSUME NEW k \in ChangeKinds PROVE Cardinality(InFlight(k))' = Cardinality(InFlight(k))
  BY <1>1
<1>3. audit' = audit /\ changed' = changed /\ answered' = answered
  OBVIOUS
<1> QED BY <1>2, <1>3 DEF ChangesCounted, HistoryTyped

(* The other requests go on dropping what they would have dropped. *)
LEMMA AccountsStay ==
  ASSUME RegistrationInv, NEW r \in Calls, NEW q, call'[r] = q, \A x \in Calls \ {r} : call'[x] = call[x],
         \A c \in Containers : call[r].kind \in ChangeKinds /\ WillDrop(call[r], c) /\ agents'[c] # NoClient /\ agents[c].sec = call[r].sec
                => c \in raced' \/ (q.sec = call[r].sec /\ WillDrop(q, c)),
         raced \subseteq raced', record' = record,
         \A c \in Containers : agents'[c] = agents[c] \/ agents'[c] = NoClient \/ c \in raced' \/ Current(agents'[c])
  PROVE  ClientsAccounted'
<1> SUFFICES ASSUME NEW c \in Containers, agents'[c] # NoClient PROVE Accounted(c)'
  BY DEF ClientsAccounted
<1>0. CASE agents'[c] # agents[c]
  <2>1. c \in raced' \/ Current(agents'[c])
    BY <1>0
  <2> QED BY <2>1 DEF Accounted, Current
<1>1. SUFFICES ASSUME agents'[c] = agents[c] PROVE Accounted(c)'
  BY <1>0
<1>5. Accounted(c)
  BY <1>1 DEF RegistrationInv, ClientsAccounted
<1>2. CASE Current(agents[c])
  BY <1>1, <1>2 DEF Accounted, Current
<1>3. CASE c \in raced
  BY <1>3 DEF Accounted
<1>4. CASE \E x \in Calls : call[x].sec = agents[c].sec /\ WillDrop(call[x], c)
  <2>1. PICK x \in Calls : call[x].sec = agents[c].sec /\ WillDrop(call[x], c)
    BY <1>4
  <2>2. CASE x # r
    <3>1. call'[x] = call[x]
      BY <2>2
    <3>2. WillDrop(call'[x], c) /\ call'[x].sec = agents'[c].sec
      BY <2>1, <3>1, <1>1
    <3>3. \E y \in Calls : call'[y].sec = agents'[c].sec /\ WillDrop(call'[y], c)
      BY <3>2
    <3> QED BY <3>3 DEF Accounted, WillDrop
  <2>3. CASE x = r
    <3>1. call[r].kind \in ChangeKinds
      BY <2>1, <2>3 DEF WillDrop
    <3>2. c \in raced' \/ (q.sec = call[r].sec /\ WillDrop(q, c))
      BY <3>1, <2>1, <2>3, <1>1
    <3>3. CASE c \in raced'
      BY <3>3 DEF Accounted
    <3>4. CASE q.sec = call[r].sec /\ WillDrop(q, c)
      <4>1. call'[r].sec = agents'[c].sec /\ WillDrop(call'[r], c)
        BY <3>4, <2>1, <2>3, <1>1
      <4>2. \E y \in Calls : call'[y].sec = agents'[c].sec /\ WillDrop(call'[y], c)
        BY <4>1
      <4> QED BY <4>2 DEF Accounted, WillDrop
    <3> QED BY <3>2, <3>3, <3>4
  <2> QED BY <2>2, <2>3
<1> QED BY <1>5, <1>2, <1>3, <1>4 DEF Accounted

(* A request moves, the store and the log stay. *)
LEMMA RequestMoves ==
  ASSUME RegistrationInv, NEW r \in Calls, NEW q \in CallShape, CallSound(q), call' = [call EXCEPT ![r] = q],
         q.kind = call[r].kind \/ (q.kind \notin ChangeKinds /\ call[r].kind \notin ChangeKinds),
         q.kind = "register" =>
           \/ record[q.sec].status = "active" /\ record[q.sec].value = q.val
           \/ call[r].kind = "register" /\ q.con = call[r].con /\ q.sec = call[r].sec /\ q.val = call[r].val,
         \A c \in Containers : call[r].kind \in ChangeKinds /\ WillDrop(call[r], c) /\ agents'[c] # NoClient /\ agents[c].sec = call[r].sec
                => c \in raced' \/ (q.sec = call[r].sec /\ WillDrop(q, c)),
         raced \subseteq raced', raced' \subseteq Containers, record' = record,
         agents' \in [Containers -> {NoClient} \cup [sec : Secrets, val : Values]],
         rows' \in [Containers -> {NoRow} \cup [sec : Secrets, state : {"connected", "degraded", "unreachable"}]],
         \A c \in Containers : agents'[c] = agents[c] \/ agents'[c] = NoClient \/ c \in raced' \/ Current(agents'[c]),
         UNCHANGED <<audit, changed, answered>>
  PROVE  RegistrationInv'
<1>1. CallsSound' /\ call'[r] = q /\ \A x \in Calls \ {r} : call'[x] = call[x]
  BY CallReplaced DEF RegistrationInv
<1>2. HistoryTyped' /\ ChangesCounted'
  BY <1>1, CountsStay DEF RegistrationInv
<1>3. ClientsAccounted'
  BY <1>1, AccountsStay
<1>4. KeptTyped'
  BY DEF RegistrationInv, KeptTyped, RegisterTypeOK
<1>5. ActiveHasValue'
  BY DEF RegistrationInv, ActiveHasValue
<1>6. RegistersCurrent'
  <2>0. RegistersCurrent
    BY DEF RegistrationInv
  <2> SUFFICES ASSUME NEW x \in Calls, call'[x].kind = "register"
      PROVE  (record'[call'[x].sec].status = "active" /\ record'[call'[x].sec].value = call'[x].val) \/ call'[x].con \in raced'
    BY DEF RegistersCurrent
  <2>1. CASE x # r
    BY <1>1, <2>0, <2>1 DEF RegistersCurrent
  <2>2. CASE x = r
    BY <1>1, <2>0, <2>2 DEF RegistersCurrent
  <2> QED BY <2>1, <2>2
<1> QED BY <1>1, <1>2, <1>3, <1>4, <1>5, <1>6 DEF RegistrationInv

(* What a request without a change may do to rows and clients. *)
LEMMA QuietRequestMoves ==
  ASSUME RegistrationInv, NEW r \in Calls, NEW q \in CallShape, CallSound(q), call' = [call EXCEPT ![r] = q],
         q.kind \notin ChangeKinds, call[r].kind \notin ChangeKinds,
         q.kind = "register" =>
           \/ record[q.sec].status = "active" /\ record[q.sec].value = q.val
           \/ call[r].kind = "register" /\ q.con = call[r].con /\ q.sec = call[r].sec /\ q.val = call[r].val,
         raced' = raced, record' = record, agents' = agents,
         rows' \in [Containers -> {NoRow} \cup [sec : Secrets, state : {"connected", "degraded", "unreachable"}]],
         UNCHANGED <<audit, changed, answered>>
  PROVE  RegistrationInv'
<1>1. raced' \subseteq Containers /\ raced \subseteq raced' /\ agents' \in [Containers -> {NoClient} \cup [sec : Secrets, val : Values]]
  BY DEF RegistrationInv, KeptTyped
<1> QED BY <1>1, RequestMoves

(* A row that is saved has its type. *)
LEMMA RowSaved ==
  ASSUME RegistrationInv, NEW c \in Containers, NEW s \in Secrets, NEW st \in {"connected", "degraded", "unreachable"},
         SaveRow(c, s, st)
  PROVE  rows' \in [Containers -> {NoRow} \cup [sec : Secrets, state : {"connected", "degraded", "unreachable"}]]
<1>1. PICK f : f = [sec |-> s, state |-> st]
  OBVIOUS
<1>2. f \in [sec : Secrets, state : {"connected", "degraded", "unreachable"}]
  BY <1>1
<1> QED BY <1>1, <1>2 DEF SaveRow, RegistrationInv, KeptTyped

(* register_agent reads the secret that is in force. *)
LEMMA RegisterAgentKeeps ==
  ASSUME RegistrationInv, NEW r \in Calls, NEW c \in Containers, NEW s \in Secrets, RegisterAgent(r, c, s)
  PROVE  RegistrationInv'
<1>1. PICK q : q = [Free EXCEPT !.kind = "register", !.at = "call", !.sec = s, !.con = c, !.val = record[s].value]
  OBVIOUS
<1>2. q.kind = "register" /\ q.at = "call" /\ q.sec = s /\ q.con = c /\ q.val = record[s].value /\ q.copies = {}
  BY <1>1 DEF Free
<1>3. record[s].status = "active" /\ record[s].value \in Values
  BY DEF RegisterAgent, Readable, RegistrationInv, ActiveHasValue
<1>4. q \in CallShape
  BY <1>1, <1>3, FreeIsSound DEF CallShape, CallKinds
<1>5. CallSound(q)
  BY <1>2, <1>3 DEF CallSound, ChangeKinds
<1>6. call[r].kind \notin ChangeKinds /\ q.kind \notin ChangeKinds
  BY <1>2, FreeIsSound DEF RegisterAgent, Takes, ChangeKinds
<1>7. call' = [call EXCEPT ![r] = q]
  BY <1>1 DEF RegisterAgent, Takes
<1>8. rows' \in [Containers -> {NoRow} \cup [sec : Secrets, state : {"connected", "degraded", "unreachable"}]]
  BY DEF RegisterAgent, RegistrationInv, KeptTyped
<1>9. UNCHANGED <<record, agents, raced, audit, changed, answered>>
  BY DEF RegisterAgent
<1> QED BY <1>2, <1>3, <1>4, <1>5, <1>6, <1>7, <1>8, <1>9, QuietRequestMoves

(* A request that is answered is free again. *)
LEMMA AnsweredFrees ==
  ASSUME RegistrationInv, NEW r \in Calls, Answered(r), call[r].kind \notin ChangeKinds,
         raced' = raced, record' = record, agents' = agents,
         rows' \in [Containers -> {NoRow} \cup [sec : Secrets, state : {"connected", "degraded", "unreachable"}]],
         UNCHANGED <<audit, changed, answered>>
  PROVE  RegistrationInv'
<1>1. Free.kind \notin ChangeKinds /\ Free.kind # "register"
  BY FreeIsSound DEF ChangeKinds
<1>2. call' = [call EXCEPT ![r] = Free]
  BY DEF Answered
<1> QED BY <1>1, <1>2, FreeIsSound, QuietRequestMoves

(* A request goes to its next step. *)
LEMMA ProceedsTo ==
  ASSUME RegistrationInv, NEW r \in Calls, NEW step \in {"free", "call", "save", "list", "drop", "unreachable", "answer"},
         call[r].kind # "none", Proceeds(r, step)
  PROVE  \E q \in CallShape :
           /\ CallSound(q) /\ call' = [call EXCEPT ![r] = q] /\ q.at = step
           /\ q.kind = call[r].kind /\ q.con = call[r].con /\ q.sec = call[r].sec /\ q.val = call[r].val
           /\ q.copies = call[r].copies
<1>1. PICK q : q = [call[r] EXCEPT !.at = step]
  OBVIOUS
<1>2. call[r] \in CallShape /\ CallSound(call[r])
  BY DEF RegistrationInv, CallsSound
<1>3. q \in CallShape
  BY <1>1, <1>2 DEF CallShape
<1>4. /\ q.at = step /\ q.kind = call[r].kind /\ q.con = call[r].con /\ q.sec = call[r].sec /\ q.val = call[r].val
      /\ q.copies = call[r].copies
  BY <1>1, <1>2 DEF CallShape
<1>5. CallSound(q)
  BY <1>2, <1>4 DEF CallSound
<1>6. call' = [call EXCEPT ![r] = q]
  BY <1>1 DEF Proceeds
<1> QED BY <1>3, <1>4, <1>5, <1>6

(* The client of a registration carries what the store had when the secret  *)
(* was read.                                                                *)
LEMMA AgentAnswersKeeps ==
  ASSUME RegistrationInv, NEW r \in Calls, RegisteredAgentAnswers(r)
  PROVE  RegistrationInv'
<1>1. call[r].kind = "register" /\ call[r].kind \notin ChangeKinds /\ call[r].kind # "none"
  BY DEF RegisteredAgentAnswers, ChangeKinds
<1>2. UNCHANGED <<record, rows, audit, changed, answered, raced>>
  BY DEF RegisteredAgentAnswers
<1>3. rows' \in [Containers -> {NoRow} \cup [sec : Secrets, state : {"connected", "degraded", "unreachable"}]]
  BY <1>2 DEF RegistrationInv, KeptTyped
<1>4. CASE Answered(r) /\ UNCHANGED agents
  BY <1>1, <1>2, <1>3, <1>4, AnsweredFrees
<1>5. CASE agents' = [agents EXCEPT ![call[r].con] = [sec |-> call[r].sec, val |-> call[r].val]] /\ Proceeds(r, "save")
  <2>1. PICK q \in CallShape :
           /\ CallSound(q) /\ call' = [call EXCEPT ![r] = q] /\ q.kind = call[r].kind /\ q.con = call[r].con
           /\ q.sec = call[r].sec /\ q.val = call[r].val
    BY <1>1, <1>5, ProceedsTo
  <2>2. call[r].con \in Containers /\ call[r].sec \in Secrets /\ call[r].val \in Values
    BY <1>1 DEF RegistrationInv, CallsSound, CallSound
  <2>3. PICK f : f = [sec |-> call[r].sec, val |-> call[r].val]
    OBVIOUS
  <2>4. f \in [sec : Secrets, val : Values] /\ f.sec = call[r].sec /\ f.val = call[r].val
    BY <2>2, <2>3
  <2>5. agents' = [agents EXCEPT ![call[r].con] = f]
    BY <1>5, <2>3
  <2>6. agents \in [Containers -> {NoClient} \cup [sec : Secrets, val : Values]]
    BY DEF RegistrationInv, KeptTyped
  <2>7. agents' \in [Containers -> {NoClient} \cup [sec : Secrets, val : Values]]
    BY <2>4, <2>5, <2>6
  <2>8. agents'[call[r].con] = f /\ \A c \in Containers \ {call[r].con} : agents'[c] = agents[c]
    BY <2>2, <2>5, <2>6
  <2>9. Current(f) \/ call[r].con \in raced
    BY <1>1, <2>4 DEF RegistrationInv, RegistersCurrent, Current
  <2>10. \A c \in Containers : agents'[c] = agents[c] \/ agents'[c] = NoClient \/ c \in raced' \/ Current(agents'[c])
    BY <1>2, <2>8, <2>9
  <2>11. raced' \subseteq Containers
    BY <1>2 DEF RegistrationInv, KeptTyped
  <2> QED BY <1>1, <1>2, <1>3, <2>1, <2>7, <2>10, <2>11, RequestMoves
<1> QED BY <1>4, <1>5 DEF RegisteredAgentAnswers

(* The row of a registration is saved, or its statement fails. *)
LEMMA SaveRegistrationKeeps ==
  ASSUME RegistrationInv, NEW r \in Calls, SaveRegistration(r)
  PROVE  RegistrationInv'
<1>1. call[r].kind = "register" /\ call[r].kind \notin ChangeKinds /\ Answered(r) /\ UNCHANGED <<record, agents, audit, changed, answered, raced>>
  BY DEF SaveRegistration, ChangeKinds
<1>2. call[r].con \in Containers /\ call[r].sec \in Secrets
  BY <1>1 DEF RegistrationInv, CallsSound, CallSound
<1>3. rows' \in [Containers -> {NoRow} \cup [sec : Secrets, state : {"connected", "degraded", "unreachable"}]]
  <2>1. CASE SaveRow(call[r].con, call[r].sec, "connected")
    BY <1>2, <2>1, RowSaved
  <2>2. CASE UNCHANGED rows
    BY <2>2 DEF RegistrationInv, KeptTyped
  <2> QED BY <2>1, <2>2 DEF SaveRegistration
<1> QED BY <1>1, <1>3, AnsweredFrees

(* get_agent_health asks, reads the row and writes it back. *)
LEMMA HealthKeeps ==
  ASSUME RegistrationInv, NEW r \in Calls,
         (\E c \in Containers : GetAgentHealth(r, c)) \/ FindRegistration(r) \/ RecordHealth(r)
  PROVE  RegistrationInv'
<1>0. UNCHANGED <<record, agents, audit, changed, answered, raced>>
  BY DEF GetAgentHealth, FindRegistration, RecordHealth
<1>r. rows \in [Containers -> {NoRow} \cup [sec : Secrets, state : {"connected", "degraded", "unreachable"}]]
  BY DEF RegistrationInv, KeptTyped
<1>1. ASSUME NEW c \in Containers, GetAgentHealth(r, c) PROVE RegistrationInv'
  <2>1. PICK q : q = [Free EXCEPT !.kind = "health", !.at = "call", !.con = c]
    OBVIOUS
  <2>2. q \in CallShape /\ q.kind = "health" /\ q.con = c
    BY <2>1, FreeIsSound DEF CallShape, CallKinds
  <2>3. CallSound(q)
    BY <2>2 DEF CallSound, ChangeKinds
  <2>4. call[r].kind \notin ChangeKinds /\ q.kind \notin ChangeKinds
    BY <1>1, <2>2, FreeIsSound DEF GetAgentHealth, Takes, ChangeKinds
  <2>5. call' = [call EXCEPT ![r] = q] /\ rows' = rows
    BY <1>1, <2>1 DEF GetAgentHealth, Takes
  <2> QED BY <1>0, <1>r, <2>2, <2>3, <2>4, <2>5, QuietRequestMoves
<1>2. CASE FindRegistration(r)
  <2>1. call[r].kind = "health" /\ call[r].kind \notin ChangeKinds /\ rows' = rows
    BY <1>2 DEF FindRegistration, ChangeKinds
  <2>2. call[r] \in CallShape /\ CallSound(call[r])
    BY DEF RegistrationInv, CallsSound
  <2>3. call[r].con \in Containers
    BY <2>1, <2>2 DEF CallSound
  <2>4. CASE rows[call[r].con] = NoRow
    <3>1. Answered(r)
      BY <1>2, <2>4 DEF FindRegistration
    <3> QED BY <1>0, <1>r, <2>1, <3>1, AnsweredFrees
  <2>5. CASE rows[call[r].con] # NoRow
    <3>1. PICK st \in {"connected", "degraded", "unreachable"} :
             call' = [call EXCEPT ![r].at = "save", ![r].sec = rows[call[r].con].sec,
                                  ![r].copies = {[con |-> call[r].con, sec |-> rows[call[r].con].sec, state |-> st]}]
      BY <1>2, <2>5 DEF FindRegistration
    <3>2. rows[call[r].con].sec \in Secrets
      BY <1>r, <2>3, <2>5
    <3>3. PICK cs : cs = {[con |-> call[r].con, sec |-> rows[call[r].con].sec, state |-> st]}
      OBVIOUS
    <3>4. cs \subseteq RowCopy
      BY <3>2, <3>3, <2>3 DEF RowCopy
    <3>5. PICK q : q = [call[r] EXCEPT !.at = "save", !.sec = rows[call[r].con].sec, !.copies = cs]
      OBVIOUS
    <3>6. q \in CallShape /\ q.kind = "health" /\ q.con = call[r].con
      BY <3>5, <3>4, <3>2, <2>2, <2>1 DEF CallShape
    <3>7. CallSound(q)
      BY <3>6, <2>3 DEF CallSound, ChangeKinds
    <3>8. call' = [call EXCEPT ![r] = q]
      BY <3>1, <3>3, <3>5
    <3>9. q.kind \notin ChangeKinds
      BY <3>6 DEF ChangeKinds
    <3> QED BY <1>0, <1>r, <2>1, <3>6, <3>7, <3>8, <3>9, QuietRequestMoves
  <2> QED BY <2>4, <2>5
<1>3. CASE RecordHealth(r)
  <2>1. call[r].kind = "health" /\ call[r].kind \notin ChangeKinds /\ Answered(r)
    BY <1>3 DEF RecordHealth, ChangeKinds
  <2>2. call[r].copies \subseteq RowCopy
    BY DEF RegistrationInv, CallsSound, CallShape
  <2>3. rows' \in [Containers -> {NoRow} \cup [sec : Secrets, state : {"connected", "degraded", "unreachable"}]]
    <3>1. ASSUME NEW copy \in call[r].copies, SaveRow(copy.con, copy.sec, copy.state)
          PROVE  rows' \in [Containers -> {NoRow} \cup [sec : Secrets, state : {"connected", "degraded", "unreachable"}]]
      <4>1. copy.con \in Containers /\ copy.sec \in Secrets /\ copy.state \in {"connected", "degraded", "unreachable"}
        BY <2>2, <3>1 DEF RowCopy
      <4> QED BY <4>1, <3>1, RowSaved
    <3> QED BY <1>3, <1>r, <3>1 DEF RecordHealth
  <2> QED BY <1>0, <2>1, <2>3, AnsweredFrees
<1> QED BY <1>1, <1>2, <1>3

(* The clients that the table names are listed; the others are seen to be   *)
(* missed.                                                                  *)
LEMMA ListKeeps ==
  ASSUME RegistrationInv, NEW r \in Calls, ListRegistrations(r)
  PROVE  RegistrationInv'
<1>1. call[r].kind \in ChangeKinds /\ call[r].kind # "none" /\ call[r].kind # "register" /\ UNCHANGED <<record, agents, rows, audit, changed, answered>>
  BY DEF ListRegistrations, ChangeKinds
<1>2. call[r] \in CallShape /\ CallSound(call[r])
  BY DEF RegistrationInv, CallsSound
<1>3. /\ rows' \in [Containers -> {NoRow} \cup [sec : Secrets, state : {"connected", "degraded", "unreachable"}]]
      /\ agents' \in [Containers -> {NoClient} \cup [sec : Secrets, val : Values]]
      /\ raced \subseteq Containers
  BY <1>1 DEF RegistrationInv, KeptTyped
<1>4. PICK named : named = {c \in Containers : rows[c].sec = call[r].sec}
  OBVIOUS
<1>5. call[r].sec \in Secrets
  BY <1>1, <1>2 DEF CallSound
<1>6. CASE /\ call' = [call EXCEPT ![r].at = "drop",
                      ![r].copies = {[con |-> c, sec |-> rows[c].sec, state |-> "unreachable"] : c \in named}]
           /\ raced' = raced \cup {c \in Containers \ named : agents[c].sec = call[r].sec}
  <2>1. PICK cs : cs = {[con |-> c, sec |-> rows[c].sec, state |-> "unreachable"] : c \in named}
    OBVIOUS
  <2>2. cs \subseteq RowCopy
    BY <2>1, <1>4, <1>5 DEF RowCopy
  <2>3. ASSUME NEW c \in named PROVE \E copy \in cs : copy.con = c
    <3>1. PICK copy : copy = [con |-> c, sec |-> rows[c].sec, state |-> "unreachable"]
      OBVIOUS
    <3>2. copy \in cs /\ copy.con = c
      BY <2>1, <3>1
    <3> QED BY <3>2
  <2>4. PICK q : q = [call[r] EXCEPT !.at = "drop", !.copies = cs]
    OBVIOUS
  <2>5. q \in CallShape /\ q.at = "drop" /\ q.copies = cs /\ q.kind = call[r].kind /\ q.sec = call[r].sec
    BY <1>2, <2>2, <2>4 DEF CallShape
  <2>6. CallSound(q)
    BY <1>1, <1>5, <2>5 DEF CallSound, ChangeKinds
  <2>7. call' = [call EXCEPT ![r] = q]
    BY <1>6, <2>1, <2>4
  <2>8. ASSUME NEW c \in Containers, agents[c].sec = call[r].sec PROVE c \in raced' \/ (q.sec = call[r].sec /\ WillDrop(q, c))
    <3>1. CASE c \in named
      BY <3>1, <2>3, <2>5, <1>1 DEF WillDrop
    <3>2. CASE c \notin named
      BY <3>2, <1>6, <2>8
    <3> QED BY <3>1, <3>2
  <2>9. raced \subseteq raced' /\ raced' \subseteq Containers
    BY <1>3, <1>6
  <2> QED BY <1>1, <1>3, <2>5, <2>6, <2>7, <2>8, <2>9, RequestMoves
<1>7. CASE Proceeds(r, "answer") /\ raced' = raced \cup {c \in Containers : agents[c].sec = call[r].sec}
  <2>1. PICK q \in CallShape : CallSound(q) /\ call' = [call EXCEPT ![r] = q] /\ q.kind = call[r].kind
    BY <1>1, <1>7, ProceedsTo
  <2>2. raced \subseteq raced' /\ raced' \subseteq Containers
    BY <1>3, <1>7
  <2>3. ASSUME NEW c \in Containers, agents[c].sec = call[r].sec PROVE c \in raced'
    BY <1>7, <2>3
  <2> QED BY <1>1, <1>3, <2>1, <2>2, <2>3, RequestMoves
<1> QED BY <1>4, <1>6, <1>7 DEF ListRegistrations

(* A client is removed; the change then owes it nothing. *)
LEMMA RemoveClientKeeps ==
  ASSUME RegistrationInv, NEW r \in Calls, RemoveClient(r)
  PROVE  RegistrationInv'
<1>1. /\ call[r].kind \in ChangeKinds /\ call[r].kind # "none" /\ call[r].kind # "register" /\ call[r].at = "drop"
      /\ UNCHANGED <<record, rows, audit, changed, answered, raced>>
  BY DEF RemoveClient, ChangeKinds
<1>2. call[r] \in CallShape /\ CallSound(call[r])
  BY DEF RegistrationInv, CallsSound
<1>3. /\ rows' \in [Containers -> {NoRow} \cup [sec : Secrets, state : {"connected", "degraded", "unreachable"}]]
      /\ agents \in [Containers -> {NoClient} \cup [sec : Secrets, val : Values]]
      /\ raced' \subseteq Containers
  BY <1>1 DEF RegistrationInv, KeptTyped
<1>4. CASE call[r].copies = {}
  <2>1. Proceeds(r, "answer") /\ agents' = agents
    BY <1>4 DEF RemoveClient
  <2>2. PICK q \in CallShape : CallSound(q) /\ call' = [call EXCEPT ![r] = q] /\ q.kind = call[r].kind
    BY <1>1, <2>1, ProceedsTo
  <2>3. \A c \in Containers : ~WillDrop(call[r], c)
    BY <1>1, <1>4 DEF WillDrop
  <2> QED BY <1>1, <1>3, <2>1, <2>2, <2>3, RequestMoves
<1>5. CASE call[r].copies # {}
  <2>1. PICK copy \in call[r].copies :
           /\ agents' = [agents EXCEPT ![copy.con] = NoClient]
           /\ call' = [call EXCEPT ![r].at = "unreachable", ![r].con = copy.con]
    BY <1>5 DEF RemoveClient
  <2>2. copy.con \in Containers
    BY <1>2 DEF CallShape, RowCopy
  <2>3. PICK q : q = [call[r] EXCEPT !.at = "unreachable", !.con = copy.con]
    OBVIOUS
  <2>4. /\ q \in CallShape /\ q.at = "unreachable" /\ q.con = copy.con /\ q.copies = call[r].copies
        /\ q.kind = call[r].kind /\ q.sec = call[r].sec
    BY <1>2, <2>2, <2>3 DEF CallShape
  <2>5. CallSound(q)
    BY <1>1, <1>2, <2>4 DEF CallSound, ChangeKinds
  <2>6. call' = [call EXCEPT ![r] = q]
    BY <2>1, <2>3
  <2>7. agents'[copy.con] = NoClient /\ \A c \in Containers \ {copy.con} : agents'[c] = agents[c]
    BY <1>3, <2>1, <2>2
  <2>8. agents' \in [Containers -> {NoClient} \cup [sec : Secrets, val : Values]]
    BY <1>3, <2>1, <2>2
  <2>9. ASSUME NEW c \in Containers, WillDrop(call[r], c), agents'[c] # NoClient PROVE WillDrop(q, c)
    <3>1. c # copy.con
      BY <2>7, <2>9
    <3>2. \E k \in call[r].copies : k.con = c
      BY <1>1, <2>9 DEF WillDrop
    <3> QED BY <1>1, <2>4, <3>1, <3>2 DEF WillDrop
  <2> QED BY <1>1, <1>3, <2>4, <2>5, <2>6, <2>7, <2>8, <2>9, RequestMoves
<1> QED BY <1>4, <1>5

(* The row of the removed client is written back. *)
LEMMA RecordUnreachableKeeps ==
  ASSUME RegistrationInv, NEW r \in Calls, RecordUnreachable(r)
  PROVE  RegistrationInv'
<1>1. /\ call[r].kind \in ChangeKinds /\ call[r].kind # "none" /\ call[r].kind # "register" /\ call[r].at = "unreachable"
      /\ UNCHANGED <<record, agents, audit, changed, answered, raced>>
  BY DEF RecordUnreachable, ChangeKinds
<1>2. call[r] \in CallShape /\ CallSound(call[r])
  BY DEF RegistrationInv, CallsSound
<1>3. agents' \in [Containers -> {NoClient} \cup [sec : Secrets, val : Values]] /\ raced' \subseteq Containers
  BY <1>1 DEF RegistrationInv, KeptTyped
<1>4. PICK copy \in {x \in call[r].copies : x.con = call[r].con} :
         /\ SaveRow(copy.con, copy.sec, copy.state)
         /\ call' = [call EXCEPT ![r].at = "drop", ![r].copies = @ \ {copy}, ![r].con = NoOne]
  BY DEF RecordUnreachable
<1>5. /\ copy \in call[r].copies /\ copy.con = call[r].con /\ copy.con \in Containers /\ copy.sec \in Secrets
      /\ copy.state \in {"connected", "degraded", "unreachable"}
  BY <1>2, <1>4 DEF CallShape, RowCopy
<1>6. rows' \in [Containers -> {NoRow} \cup [sec : Secrets, state : {"connected", "degraded", "unreachable"}]]
  BY <1>4, <1>5, RowSaved
<1>7. PICK q : q = [call[r] EXCEPT !.at = "drop", !.copies = call[r].copies \ {copy}, !.con = NoOne]
  OBVIOUS
<1>8. q.at = "drop" /\ q.copies = call[r].copies \ {copy} /\ q.kind = call[r].kind /\ q.sec = call[r].sec /\ q \in CallShape
  BY <1>2, <1>7 DEF CallShape
<1>9. CallSound(q)
  BY <1>1, <1>2, <1>8 DEF CallSound, ChangeKinds
<1>10. call' = [call EXCEPT ![r] = q]
  BY <1>4, <1>7
<1>11. ASSUME NEW c \in Containers, WillDrop(call[r], c) PROVE WillDrop(q, c)
  <2>1. c # call[r].con
    BY <1>1, <1>11 DEF WillDrop
  <2>2. PICK k \in call[r].copies : k.con = c
    BY <1>1, <1>11 DEF WillDrop
  <2>3. k \in q.copies
    BY <1>5, <1>8, <2>1, <2>2
  <2> QED BY <1>1, <1>8, <2>2, <2>3 DEF WillDrop
<1> QED BY <1>1, <1>3, <1>6, <1>8, <1>9, <1>10, <1>11, RequestMoves

(* The request that changed a secret is answered: it is in flight no longer *)
(* and at most one entry is new.                                            *)
LEMMA RecordSecretAuditKeeps ==
  ASSUME RegistrationInv, NEW r \in Calls, RecordSecretAudit(r)
  PROVE  RegistrationInv'
<1>1. /\ call[r].kind \in ChangeKinds /\ call[r].at = "answer" /\ call' = [call EXCEPT ![r] = Free]
      /\ UNCHANGED <<record, agents, rows, changed, raced>>
  BY DEF RecordSecretAudit, Answered
<1>2. CallsSound' /\ call'[r] = Free /\ \A x \in Calls \ {r} : call'[x] = call[x]
  BY <1>1, FreeIsSound, CallReplaced DEF RegistrationInv
<1>3. KeptTyped' /\ ActiveHasValue'
  BY <1>1 DEF RegistrationInv, KeptTyped, RegisterTypeOK, ActiveHasValue
<1>4. RegistersCurrent'
  <2>1. \A x \in Calls : call'[x].kind = "register" => call'[x] = call[x]
    BY <1>2, FreeIsSound
  <2> QED BY <1>1, <2>1 DEF RegistrationInv, RegistersCurrent
<1>5. ClientsAccounted'
  <2>1. \A c \in Containers : ~WillDrop(call[r], c)
    BY <1>1 DEF WillDrop
  <2> QED BY <1>1, <1>2, <2>1, AccountsStay
<1>6. PICK k0 \in ChangeKinds : k0 = call[r].kind
  BY <1>1
<1>7. InFlight(k0)' = InFlight(k0) \ {r} /\ r \in InFlight(k0)
  BY <1>2, <1>6, FreeIsSound DEF InFlight, ChangeKinds
<1>8. PICK n \in Nat, m \in Nat : n = Cardinality(InFlight(k0)) /\ m = Cardinality(InFlight(k0))' /\ m = n - 1
  <2>1. IsFiniteSet(InFlight(k0)) /\ Cardinality(InFlight(k0)) \in Nat
    BY InFlightFinite
  <2>2. Cardinality(InFlight(k0) \ {r}) = Cardinality(InFlight(k0)) - 1
    BY <1>7, <2>1, FS_RemoveElement
  <2>3. IsFiniteSet(InFlight(k0) \ {r}) /\ Cardinality(InFlight(k0) \ {r}) \in Nat
    BY <2>1, FS_Subset, FS_CardinalityType
  <2> QED BY <1>7, <2>1, <2>2, <2>3
<1>9. ASSUME NEW k \in ChangeKinds, k # k0 PROVE Cardinality(InFlight(k))' = Cardinality(InFlight(k))
  <2>1. \A x \in Calls : call'[x].kind = k <=> call[x].kind = k
    BY <1>2, <1>6, <1>9, FreeIsSound DEF ChangeKinds
  <2>2. InFlight(k)' = InFlight(k)
    BY <2>1 DEF InFlight
  <2> QED BY <2>2
<1>10. CASE audit' = [audit EXCEPT ![k0] = @ + 1] /\ answered' = [answered EXCEPT ![k0] = @ + 1]
  <2>1. HistoryTyped' /\ audit'[k0] = audit[k0] + 1 /\ answered'[k0] = answered[k0] + 1
    BY <1>1, <1>10 DEF RegistrationInv, HistoryTyped
  <2>2. \A k \in ChangeKinds \ {k0} : audit'[k] = audit[k] /\ answered'[k] = answered[k]
    BY <1>10 DEF RegistrationInv, HistoryTyped
  <2>3. changed' = changed
    BY <1>1
  <2>4. ASSUME NEW k \in ChangeKinds
        PROVE /\ answered'[k] \in Nat /\ audit'[k] \in Nat /\ changed'[k] \in Nat
              /\ answered'[k] <= audit'[k] /\ audit'[k] + Cardinality(InFlight(k))' <= changed'[k]
    <3>1. /\ answered[k] \in Nat /\ audit[k] \in Nat /\ changed[k] \in Nat
          /\ answered[k] <= audit[k] /\ audit[k] + Cardinality(InFlight(k)) <= changed[k]
      BY DEF RegistrationInv, ChangesCounted
    <3>2. CASE k = k0
      <4>1. Cardinality(InFlight(k)) = n /\ Cardinality(InFlight(k))' = m
        BY <1>8, <3>2, Zenon
      <4> QED BY <1>8, <2>1, <2>3, <3>1, <3>2, <4>1
    <3>3. CASE k # k0
      BY <1>9, <2>2, <2>3, <3>1, <3>3
    <3> QED BY <3>2, <3>3
  <2>5. ChangesCounted'
    BY <2>4 DEF ChangesCounted
  <2> QED BY <1>2, <1>3, <1>4, <1>5, <2>1, <2>5 DEF RegistrationInv
<1>11. CASE UNCHANGED <<audit, answered>>
  <2>1. HistoryTyped'
    BY <1>1, <1>11 DEF RegistrationInv, HistoryTyped
  <2>4. ASSUME NEW k \in ChangeKinds
        PROVE /\ answered'[k] \in Nat /\ audit'[k] \in Nat /\ changed'[k] \in Nat
              /\ answered'[k] <= audit'[k] /\ audit'[k] + Cardinality(InFlight(k))' <= changed'[k]
    <3>1. /\ answered[k] \in Nat /\ audit[k] \in Nat /\ changed[k] \in Nat
          /\ answered[k] <= audit[k] /\ audit[k] + Cardinality(InFlight(k)) <= changed[k]
      BY DEF RegistrationInv, ChangesCounted
    <3>4. answered' = answered /\ audit' = audit /\ changed' = changed
      BY <1>1, <1>11
    <3>2. CASE k = k0
      <4>1. Cardinality(InFlight(k)) = n /\ Cardinality(InFlight(k))' = m
        BY <1>8, <3>2, Zenon
      <4> QED BY <1>8, <3>1, <3>2, <3>4, <4>1
    <3>3. CASE k # k0
      BY <1>9, <3>1, <3>3, <3>4
    <3> QED BY <3>2, <3>3
  <2>5. ChangesCounted'
    BY <2>4 DEF ChangesCounted
  <2> QED BY <1>2, <1>3, <1>4, <1>5, <2>1, <2>5 DEF RegistrationInv
<1> QED BY <1>6, <1>10, <1>11 DEF RecordSecretAudit

(* What the store is after a change: the secret has another record, and an  *)
(* active one has a value.                                                  *)
LEMMA StoreAfterChange ==
  ASSUME RegistrationInv, NEW r \in Calls, NEW kind \in ChangeKinds, NEW s \in Secrets, ChangeSecret(r, kind, s)
  PROVE  \E f \in [status : Statuses, value : Values \cup {NoValue}] :
           record' = [record EXCEPT ![s] = f] /\ (f.status = "active" => f.value \in Values)
<1>1. record \in [Secrets -> [status : Statuses, value : Values \cup {NoValue}]] /\ ActiveHasValue
  BY DEF RegistrationInv, KeptTyped, RegisterTypeOK
<1>2. CASE kind = "rotate"
  <2>1. \E v \in Values \ {record[s].value} : UpdateSecret(s, v)
    BY <1>2, Zenon DEF ChangeSecret
  <2>2. PICK v \in Values : UpdateSecret(s, v)
    BY <2>1
  <2>3. PICK f : f = [record[s] EXCEPT !.value = v]
    OBVIOUS
  <2>4. f \in [status : Statuses, value : Values \cup {NoValue}] /\ f.value \in Values
    BY <1>1, <2>3
  <2> QED BY <2>2, <2>3, <2>4 DEF UpdateSecret, Put
<1>3. CASE kind = "revoke"
  <2>1. RevokeSecret(s)
    BY <1>3, Zenon DEF ChangeSecret
  <2>3. PICK f : f = [record[s] EXCEPT !.status = "revoked"]
    OBVIOUS
  <2>4. f \in [status : Statuses, value : Values \cup {NoValue}] /\ f.status # "active"
    BY <1>1, <2>3 DEF Statuses
  <2> QED BY <2>1, <2>3, <2>4 DEF RevokeSecret, Put
<1>4. CASE kind = "delete"
  <2>1. DeleteSecret(s)
    BY <1>4, Zenon DEF ChangeSecret
  <2>3. PICK f : f = Blank("deleted")
    OBVIOUS
  <2>4. f \in [status : Statuses, value : Values \cup {NoValue}] /\ f.status # "active"
    BY <2>3 DEF Statuses, Blank
  <2> QED BY <2>1, <2>3, <2>4 DEF DeleteSecret, Put
<1> QED BY <1>2, <1>3, <1>4 DEF ChangeKinds

(* A change accounts for every client of its secret, and sees every         *)
(* registration with it that is in flight.                                  *)
LEMMA ChangeSecretKeeps ==
  ASSUME RegistrationInv, NEW r \in Calls, NEW kind \in ChangeKinds, NEW s \in Secrets, ChangeSecret(r, kind, s)
  PROVE  RegistrationInv'
<1>1. PICK f \in [status : Statuses, value : Values \cup {NoValue}] :
         record' = [record EXCEPT ![s] = f] /\ (f.status = "active" => f.value \in Values)
  BY StoreAfterChange
<1>2. PICK q : q = [Free EXCEPT !.kind = kind, !.at = "list", !.sec = s]
  OBVIOUS
<1>3. q.kind = kind /\ q.at = "list" /\ q.sec = s
  BY <1>2 DEF Free
<1>4. q \in CallShape
  BY <1>2, FreeIsSound DEF CallShape, CallKinds
<1>5. CallSound(q)
  BY <1>3 DEF CallSound, ChangeKinds
<1>6. /\ call[r] = Free /\ call' = [call EXCEPT ![r] = q] /\ changed' = [changed EXCEPT ![kind] = @ + 1]
      /\ raced' = raced \cup {call[x].con : x \in {y \in Calls : call[y].kind = "register" /\ call[y].sec = s}}
      /\ UNCHANGED <<agents, rows, audit, answered>>
  BY <1>2 DEF ChangeSecret, Takes
<1>7. CallsSound' /\ call'[r] = q /\ \A x \in Calls \ {r} : call'[x] = call[x]
  BY <1>4, <1>5, <1>6, CallReplaced DEF RegistrationInv
<1>8. record \in [Secrets -> [status : Statuses, value : Values \cup {NoValue}]]
  BY DEF RegistrationInv, KeptTyped, RegisterTypeOK
<1>9. record'[s] = f /\ \A x \in Secrets \ {s} : record'[x] = record[x]
  BY <1>1, <1>8
<1>10. raced \subseteq raced' /\ \A x \in Calls : call[x].kind = "register" /\ call[x].sec = s => call[x].con \in raced'
  BY <1>6
<1>11. KeptTyped'
  <2>1. record' \in [Secrets -> [status : Statuses, value : Values \cup {NoValue}]]
    BY <1>1, <1>8
  <2>2. \A x \in Calls : call[x].kind = "register" => call[x].con \in Containers
    BY DEF RegistrationInv, CallsSound, CallSound
  <2>3. raced' \subseteq Containers
    BY <1>6, <2>2 DEF RegistrationInv, KeptTyped
  <2> QED BY <1>6, <2>1, <2>3 DEF RegistrationInv, KeptTyped, RegisterTypeOK
<1>12. ActiveHasValue'
  BY <1>1, <1>9 DEF RegistrationInv, ActiveHasValue
<1>13. RegistersCurrent'
  <2> SUFFICES ASSUME NEW x \in Calls, call'[x].kind = "register"
      PROVE  (record'[call'[x].sec].status = "active" /\ record'[call'[x].sec].value = call'[x].val) \/ call'[x].con \in raced'
    BY DEF RegistersCurrent
  <2>1. x # r
    BY <1>3, <1>7 DEF ChangeKinds
  <2>2. call'[x] = call[x]
    BY <1>7, <2>1
  <2>3. /\ call[x].sec \in Secrets
        /\ (record[call[x].sec].status = "active" /\ record[call[x].sec].value = call[x].val) \/ call[x].con \in raced
    BY <2>2 DEF RegistrationInv, RegistersCurrent, CallsSound, CallSound
  <2>4. CASE call[x].sec = s
    BY <1>10, <2>2, <2>4
  <2>5. CASE call[x].sec # s
    BY <1>9, <1>10, <2>2, <2>3, <2>5
  <2> QED BY <2>4, <2>5
<1>14. ClientsAccounted'
  <2> SUFFICES ASSUME NEW c \in Containers, agents'[c] # NoClient PROVE Accounted(c)'
    BY DEF ClientsAccounted
  <2>1. agents' = agents /\ agents[c] \in [sec : Secrets, val : Values] /\ Accounted(c)
    BY <1>6 DEF RegistrationInv, KeptTyped, ClientsAccounted
  <2>2. CASE agents[c].sec = s
    <3>1. call'[r].sec = agents'[c].sec /\ WillDrop(call'[r], c)
      BY <1>3, <1>7, <2>1, <2>2 DEF WillDrop
    <3>2. \E y \in Calls : call'[y].sec = agents'[c].sec /\ WillDrop(call'[y], c)
      BY <3>1
    <3> QED BY <3>2 DEF Accounted, WillDrop
  <2>3. CASE agents[c].sec # s
    <3>1. CASE Current(agents[c])
      BY <1>9, <2>1, <2>3, <3>1 DEF Accounted, Current
    <3>2. CASE c \in raced
      BY <1>10, <3>2 DEF Accounted
    <3>3. CASE \E x \in Calls : call[x].sec = agents[c].sec /\ WillDrop(call[x], c)
      <4>1. PICK x \in Calls : call[x].sec = agents[c].sec /\ WillDrop(call[x], c)
        BY <3>3
      <4>2. x # r
        BY <1>6, <4>1, FreeIsSound DEF WillDrop, ChangeKinds
      <4>3. call'[x].sec = agents'[c].sec /\ WillDrop(call'[x], c)
        BY <1>7, <2>1, <4>1, <4>2
      <4>4. \E y \in Calls : call'[y].sec = agents'[c].sec /\ WillDrop(call'[y], c)
        BY <4>3
      <4> QED BY <4>4 DEF Accounted, WillDrop
    <3> QED BY <2>1, <3>1, <3>2, <3>3 DEF Accounted
  <2> QED BY <2>2, <2>3
<1>15. HistoryTyped' /\ changed'[kind] = changed[kind] + 1 /\ \A k \in ChangeKinds \ {kind} : changed'[k] = changed[k]
  BY <1>6 DEF RegistrationInv, HistoryTyped
<1>16. PICK n \in Nat, m \in Nat : n = Cardinality(InFlight(kind)) /\ m = Cardinality(InFlight(kind))' /\ m = n + 1
  <2>1. IsFiniteSet(InFlight(kind)) /\ Cardinality(InFlight(kind)) \in Nat
    BY InFlightFinite
  <2>2. r \notin InFlight(kind) /\ InFlight(kind)' = InFlight(kind) \cup {r}
    BY <1>3, <1>6, <1>7, FreeIsSound DEF InFlight, ChangeKinds
  <2>3. Cardinality(InFlight(kind) \cup {r}) = Cardinality(InFlight(kind)) + 1
    BY <2>1, <2>2, FS_AddElement
  <2> QED BY <2>1, <2>2, <2>3
<1>17. ASSUME NEW k \in ChangeKinds, k # kind PROVE Cardinality(InFlight(k))' = Cardinality(InFlight(k))
  <2>1. \A x \in Calls : call'[x].kind = k <=> call[x].kind = k
    BY <1>3, <1>6, <1>7, <1>17, FreeIsSound DEF ChangeKinds
  <2>2. InFlight(k)' = InFlight(k)
    BY <2>1 DEF InFlight
  <2> QED BY <2>2
<1>18. ASSUME NEW k \in ChangeKinds
       PROVE /\ answered'[k] \in Nat /\ audit'[k] \in Nat /\ changed'[k] \in Nat
             /\ answered'[k] <= audit'[k] /\ audit'[k] + Cardinality(InFlight(k))' <= changed'[k]
  <2>1. /\ answered[k] \in Nat /\ audit[k] \in Nat /\ changed[k] \in Nat
        /\ answered[k] <= audit[k] /\ audit[k] + Cardinality(InFlight(k)) <= changed[k]
    BY DEF RegistrationInv, ChangesCounted
  <2>2. answered' = answered /\ audit' = audit
    BY <1>6
  <2>3. CASE k = kind
    <3>1. Cardinality(InFlight(k)) = n /\ Cardinality(InFlight(k))' = m
      BY <1>16, <2>3, Zenon
    <3> QED BY <1>15, <1>16, <2>1, <2>2, <2>3, <3>1
  <2>4. CASE k # kind
    BY <1>15, <1>17, <2>1, <2>2, <2>4
  <2> QED BY <2>3, <2>4
<1>19. ChangesCounted'
  BY <1>18 DEF ChangesCounted
<1> QED BY <1>7, <1>11, <1>12, <1>13, <1>14, <1>15, <1>19 DEF RegistrationInv

(* The requests stay as they are. *)
LEMMA CallsStay ==
  ASSUME RegistrationInv, UNCHANGED <<call, audit, changed, answered>>
  PROVE  CallsSound' /\ HistoryTyped' /\ ChangesCounted'
<1>1. call' = call /\ audit' = audit /\ changed' = changed /\ answered' = answered
  OBVIOUS
<1>2. CallsSound' /\ HistoryTyped'
  BY <1>1 DEF RegistrationInv, CallsSound, HistoryTyped
<1>3. \A k \in ChangeKinds : InFlight(k)' = InFlight(k)
  BY <1>1 DEF InFlight
<1>4. ChangesCounted'
  BY <1>1, <1>3 DEF RegistrationInv, ChangesCounted
<1> QED BY <1>2, <1>4

(* A new secret was nobody's credential. *)
LEMMA CreateTokenKeeps ==
  ASSUME RegistrationInv, NEW s \in Secrets, NEW v \in Values, CreateAgentToken(s, v)
  PROVE  RegistrationInv'
<1>1. PICK f : f = [status |-> "active", value |-> v]
  OBVIOUS
<1>2. /\ record[s].status = "unused" /\ record' = [record EXCEPT ![s] = f]
      /\ UNCHANGED <<agents, rows, call, audit, changed, answered, raced>>
  BY <1>1 DEF CreateAgentToken, CreateSecret, Put
<1>3. record \in [Secrets -> [status : Statuses, value : Values \cup {NoValue}]]
  BY DEF RegistrationInv, KeptTyped, RegisterTypeOK
<1>4. f \in [status : Statuses, value : Values \cup {NoValue}] /\ f.value \in Values
  BY <1>1 DEF Statuses
<1>5. record'[s] = f /\ \A x \in Secrets \ {s} : record'[x] = record[x]
  BY <1>2, <1>3
<1>6. KeptTyped'
  <2>1. record' \in [Secrets -> [status : Statuses, value : Values \cup {NoValue}]]
    BY <1>2, <1>3, <1>4
  <2> QED BY <1>2, <2>1 DEF RegistrationInv, KeptTyped, RegisterTypeOK
<1>7. ActiveHasValue'
  BY <1>4, <1>5 DEF RegistrationInv, ActiveHasValue
<1>8. \A x \in Secrets : record[x].status = "active" => record'[x] = record[x]
  BY <1>2, <1>5
<1>9. RegistersCurrent'
  <2> SUFFICES ASSUME NEW x \in Calls, call'[x].kind = "register"
      PROVE  (record'[call'[x].sec].status = "active" /\ record'[call'[x].sec].value = call'[x].val) \/ call'[x].con \in raced'
    BY DEF RegistersCurrent
  <2>1. call'[x] = call[x] /\ raced' = raced
    BY <1>2
  <2>2. call[x].sec \in Secrets
    BY <2>1 DEF RegistrationInv, CallsSound, CallSound
  <2>3. (record[call[x].sec].status = "active" /\ record[call[x].sec].value = call[x].val) \/ call[x].con \in raced
    BY <2>1 DEF RegistrationInv, RegistersCurrent
  <2> QED BY <1>8, <2>1, <2>2, <2>3
<1>10. ClientsAccounted'
  <2> SUFFICES ASSUME NEW c \in Containers, agents'[c] # NoClient PROVE Accounted(c)'
    BY DEF ClientsAccounted
  <2>1. agents' = agents /\ call' = call /\ raced' = raced /\ agents[c].sec \in Secrets /\ Accounted(c)
    BY <1>2 DEF RegistrationInv, KeptTyped, ClientsAccounted
  <2>2. Current(agents[c]) => Current(agents[c])'
    BY <1>8, <2>1 DEF Current
  <2> QED BY <2>1, <2>2 DEF Accounted, WillDrop
<1>11. CallsSound' /\ HistoryTyped' /\ ChangesCounted'
  BY <1>2, CallsStay
<1> QED BY <1>6, <1>7, <1>9, <1>10, <1>11 DEF RegistrationInv

(* revoke_agent only takes a client away. *)
LEMMA RevokeAgentKeeps ==
  ASSUME RegistrationInv, NEW c \in Containers, RevokeAgent(c)
  PROVE  RegistrationInv'
<1>1. agents' = [agents EXCEPT ![c] = NoClient] /\ UNCHANGED <<record, rows, call, audit, changed, answered, raced>>
  BY DEF RevokeAgent
<1>2. agents \in [Containers -> {NoClient} \cup [sec : Secrets, val : Values]]
  BY DEF RegistrationInv, KeptTyped
<1>3. agents' \in [Containers -> {NoClient} \cup [sec : Secrets, val : Values]] /\ \A d \in Containers : agents'[d] \in {agents[d], NoClient}
  BY <1>1, <1>2
<1>4. KeptTyped' /\ ActiveHasValue' /\ RegistersCurrent'
  BY <1>1, <1>3 DEF RegistrationInv, KeptTyped, RegisterTypeOK, ActiveHasValue, RegistersCurrent
<1>5. ClientsAccounted'
  <2> SUFFICES ASSUME NEW d \in Containers, agents'[d] # NoClient PROVE Accounted(d)'
    BY DEF ClientsAccounted
  <2>1. agents'[d] = agents[d] /\ Accounted(d)
    BY <1>3 DEF RegistrationInv, ClientsAccounted
  <2> QED BY <1>1, <2>1 DEF Accounted, WillDrop, Current
<1>6. CallsSound' /\ HistoryTyped' /\ ChangesCounted'
  BY <1>1, CallsStay
<1> QED BY <1>4, <1>5, <1>6 DEF RegistrationInv

(* A restarted controller builds its clients from the store as it is. *)
LEMMA RestoreKeeps == RegistrationInv /\ RestoreRegisteredAgents => RegistrationInv'
<1> SUFFICES ASSUME RegistrationInv, RestoreRegisteredAgents PROVE RegistrationInv'
  OBVIOUS
<1>1. /\ call' = [r \in Calls |-> Free] /\ raced' = {} /\ UNCHANGED <<record, rows, audit, changed, answered>>
      /\ agents' = [c \in Containers |->
                  IF rows[c] # NoRow /\ Readable(rows[c].sec)
                    THEN [sec |-> rows[c].sec, val |-> record[rows[c].sec].value] ELSE NoClient]
  BY DEF RestoreRegisteredAgents
<1>2. ASSUME NEW c \in Containers
      PROVE  agents'[c] = NoClient \/ (agents'[c] \in [sec : Secrets, val : Values] /\ Current(agents'[c]))
  <2>1. CASE rows[c] # NoRow /\ Readable(rows[c].sec)
    <3>1. rows[c].sec \in Secrets
      BY <2>1 DEF RegistrationInv, KeptTyped
    <3>2. record[rows[c].sec].status = "active" /\ record[rows[c].sec].value \in Values
      BY <2>1, <3>1 DEF RegistrationInv, ActiveHasValue, Readable
    <3>3. agents'[c] = [sec |-> rows[c].sec, val |-> record[rows[c].sec].value]
      BY <1>1, <2>1
    <3> QED BY <3>1, <3>2, <3>3 DEF Current
  <2>2. CASE ~(rows[c] # NoRow /\ Readable(rows[c].sec))
    BY <1>1, <2>2
  <2> QED BY <2>1, <2>2
<1>3. KeptTyped' /\ ActiveHasValue'
  BY <1>1, <1>2 DEF RegistrationInv, KeptTyped, RegisterTypeOK, ActiveHasValue
<1>4. CallsSound'
  BY <1>1, FreeIsSound DEF CallsSound
<1>5. \A r \in Calls : call'[r].kind = "none"
  BY <1>1, FreeIsSound
<1>6. RegistersCurrent'
  BY <1>5 DEF RegistersCurrent
<1>7. ClientsAccounted'
  BY <1>1, <1>2 DEF ClientsAccounted, Accounted, Current
<1>8. HistoryTyped'
  BY <1>1 DEF RegistrationInv, HistoryTyped
<1>9. ASSUME NEW k \in ChangeKinds
       PROVE /\ answered'[k] \in Nat /\ audit'[k] \in Nat /\ changed'[k] \in Nat
             /\ answered'[k] <= audit'[k] /\ audit'[k] + Cardinality(InFlight(k))' <= changed'[k]
  <2>1. PICK n \in Nat : n = Cardinality(InFlight(k))
    BY InFlightFinite
  <2>2. answered[k] \in Nat /\ audit[k] \in Nat /\ changed[k] \in Nat /\ answered[k] <= audit[k] /\ audit[k] + n <= changed[k]
    BY <2>1 DEF RegistrationInv, ChangesCounted
  <2>3. InFlight(k)' = {}
    BY <1>5 DEF InFlight, ChangeKinds
  <2>4. Cardinality(InFlight(k))' = 0
    BY <2>3, FS_EmptySet
  <2>5. answered' = answered /\ audit' = audit /\ changed' = changed
    BY <1>1
  <2> QED BY <2>2, <2>4, <2>5
<1>10. ChangesCounted'
  BY <1>9 DEF ChangesCounted
<1> QED BY <1>3, <1>4, <1>6, <1>7, <1>8, <1>10 DEF RegistrationInv

(* Every step keeps the invariant. *)
LEMMA RegistrationNextKeeps == RegistrationInv /\ [RegistrationNext]_registrationVars => RegistrationInv'
<1>1. ASSUME RegistrationInv, NEW r \in Calls, CallStep(r) PROVE RegistrationInv'
  BY <1>1, HealthKeeps, RegisterAgentKeeps, AgentAnswersKeeps, SaveRegistrationKeeps, ChangeSecretKeeps, ListKeeps,
     RemoveClientKeeps, RecordUnreachableKeeps, RecordSecretAuditKeeps DEF CallStep
<1>2. ASSUME RegistrationInv, UNCHANGED registrationVars PROVE RegistrationInv'
  <2>1. UNCHANGED <<record, agents, rows, call, audit, changed, answered, raced>>
    BY <1>2 DEF registrationVars
  <2>2. CallsSound' /\ HistoryTyped' /\ ChangesCounted'
    BY <1>2, <2>1, CallsStay
  <2>3. KeptTyped' /\ ActiveHasValue' /\ RegistersCurrent'
    BY <1>2, <2>1 DEF RegistrationInv, KeptTyped, RegisterTypeOK, ActiveHasValue, RegistersCurrent
  <2>4. ClientsAccounted'
    BY <1>2, <2>1 DEF RegistrationInv, ClientsAccounted, Accounted, Current, WillDrop
  <2> QED BY <2>2, <2>3, <2>4 DEF RegistrationInv
<1> QED BY <1>1, <1>2, CreateTokenKeeps, RevokeAgentKeeps, RestoreKeeps DEF RegistrationNext

(* SecretChangesThrough for every number of requests, containers, secrets,  *)
(* failing statements and restarts: once rotate_secret, revoke_secret or    *)
(* delete_secret is through, no client of state.agents that the change      *)
(* could see carries the old credential, every answered change is in the    *)
(* audit log, and the log has no entry without a change.                    *)
THEOREM SecretChangesAlwaysThrough == RegistrationSpec => []SecretChangesThrough
<1>1. RegistrationSpec => []RegistrationInv
  BY InitRegistration, RegistrationNextKeeps, PTL DEF RegistrationSpec
<1> QED BY <1>1, InvTellsChanges, PTL
=============================================================================
