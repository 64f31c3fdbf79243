----------------------------- MODULE BackupGate -----------------------------
(***************************************************************************)
(* The two locks the controller holds across awaits: backup_gate, read by  *)
(* every mutating request and written by a backup, and scheduler_lock of   *)
(* the scheduler, the onboarding poller and delete_target.  A backup dumps *)
(* the database and copies the secret store on a blocking thread; a        *)
(* request that changes both (rotate_secret) writes the secret store       *)
(* first.  tokio's locks are fair: waiters are served in their order.      *)
(***************************************************************************)
EXTENDS Naturals, Sequences

CONSTANTS
  Requests,    \* concurrent API requests
  Kinds,       \* the kinds of request that arrive
  Droppable,   \* the kinds whose connection may be closed
  Scheduler, Onboarding, Nobody,
  MaxChanges, MaxBackups, MaxDrops   \* bounds

ASSUME TaskAssumption ==
  /\ Scheduler # Onboarding /\ {Scheduler, Onboarding, Nobody} \cap Requests = {}
  /\ Nobody \notin {Scheduler, Onboarding}
ASSUME BoundAssumption ==
  /\ MaxChanges \in Nat /\ MaxBackups \in Nat /\ MaxDrops \in Nat
  /\ Kinds \subseteq {"change", "delete_target", "backup"} /\ Droppable \subseteq Kinds

VARIABLES
  task,      \* step and kind of every request and background task
  gate,      \* holders of backup_gate
  gateQ,     \* tasks waiting for backup_gate
  lock,      \* holder of scheduler_lock
  lockQ,     \* tasks waiting for scheduler_lock
  job,       \* blocking task of each backup, and the database it dumped
  store, db, \* changes written to the secret store and to the database
  archives,  \* the finished backups: the changes they hold of each store
  changes, backups, drops

locks == <<gate, gateQ, lock, lockQ>>
data == <<job, store, db, archives>>
counts == <<changes, backups, drops>>
gateVars == <<task, locks, data, counts>>

Tasks == Requests \cup {Scheduler, Onboarding}
Steps == {"idle", "gate", "enter", "lock", "change", "half", "delete", "due", "onboard", "backup"}
Idle == [pc |-> "idle", kind |-> "none"]
NoJob == [pc |-> "none", db |-> 0]

GateInit ==
  /\ task = [t \in Tasks |-> Idle]
  /\ gate = {} /\ gateQ = <<>>
  /\ lock = Nobody /\ lockQ = <<>>
  /\ job = [t \in Tasks |-> NoJob]
  /\ store = 0 /\ db = 0 /\ archives = {}
  /\ changes = 0 /\ backups = 0 /\ drops = 0

Goto(t, pc) == task' = [task EXCEPT ![t].pc = pc]
Writes(t) == task[t].kind = "backup"

(* Guards are dropped with the future that holds them. *)
Answer(t) ==
  /\ task' = [task EXCEPT ![t] = Idle]
  /\ gate' = gate \ {t}
  /\ lock' = IF lock = t THEN Nobody ELSE lock

----------------------------------------------------------------------------
(* The locks *)

GrantGate ==
  /\ gateQ # <<>>
  /\ LET t == Head(gateQ)
     IN /\ IF Writes(t) THEN gate = {} ELSE \A h \in gate : ~Writes(h)
        /\ gate' = gate \cup {t}
        /\ Goto(t, "enter")
  /\ gateQ' = Tail(gateQ)
  /\ UNCHANGED <<lock, lockQ, data, counts>>

GrantLock ==
  /\ lockQ # <<>> /\ lock = Nobody
  /\ lock' = Head(lockQ) /\ lockQ' = Tail(lockQ)
  /\ LET t == Head(lockQ)
     IN Goto(t, CASE t = Scheduler -> "due" [] t = Onboarding -> "onboard"
                  [] task[t].kind = "delete_target" -> "delete" [] OTHER -> "change")
  /\ UNCHANGED <<gate, gateQ, data, counts>>

----------------------------------------------------------------------------
(* Requests *)

Counted(k) ==
  /\ changes' = IF k = "change" THEN changes + 1 ELSE changes
  /\ backups' = IF k = "backup" THEN backups + 1 ELSE backups
  /\ changes' <= MaxChanges /\ backups' <= MaxBackups
  /\ UNCHANGED drops

ArriveUngated(r, k) ==
  /\ task[r] = Idle /\ job[r] = NoJob /\ Counted(k)
  /\ task' = [task EXCEPT ![r] = [pc |-> IF k = "change" THEN "enter" ELSE "gate", kind |-> k]]
  /\ gateQ' = IF k = "change" THEN gateQ ELSE Append(gateQ, r)
  /\ UNCHANGED <<gate, lock, lockQ, data>>

(* request_middleware waits for the gate before any mutating handler but   *)
(* POST /admin/backups, whose handler waits for it as a writer.  A request *)
(* id is reused once the blocking task it may have left has ended.         *)
Arrive(r, k) ==
  /\ task[r] = Idle /\ job[r] = NoJob /\ Counted(k)
  /\ task' = [task EXCEPT ![r] = [pc |-> "gate", kind |-> k]]
  /\ gateQ' = Append(gateQ, r)
  /\ UNCHANGED <<gate, lock, lockQ, data>>

(* The handler behind the gate: delete_target waits for scheduler_lock. *)
EnterHandler(r) ==
  /\ task[r].pc = "enter" /\ ~Writes(r)
  /\ IF task[r].kind = "delete_target"
     THEN Goto(r, "lock") /\ lockQ' = Append(lockQ, r)
     ELSE Goto(r, "change") /\ UNCHANGED lockQ
  /\ UNCHANGED <<gate, gateQ, lock, data, counts>>

ChangeSecretStore(r) ==
  /\ task[r].pc = "change"
  /\ store' = store + 1
  /\ Goto(r, "half")
  /\ UNCHANGED <<locks, job, db, archives, counts>>

ChangeDatabase(r) ==
  /\ task[r].pc = "half"
  /\ db' = db + 1
  /\ Answer(r)
  /\ UNCHANGED <<gateQ, lockQ, job, store, archives, counts>>

DeleteTarget(r) ==
  /\ task[r].pc = "delete"
  /\ Answer(r)
  /\ UNCHANGED <<gateQ, lockQ, data, counts>>

(* A task that waits at most once leaves the queue. *)
Leave(q, r) ==
  IF \A i \in 1..Len(q) : q[i] # r THEN q
  ELSE LET i == CHOOSE i \in 1..Len(q) : q[i] = r
       IN SubSeq(q, 1, i - 1) \o SubSeq(q, i + 1, Len(q))

(* The client closes the connection and the runtime drops the handler,     *)
(* its guards and its place in the queues; a blocking task goes on.        *)
Drop(r) ==
  /\ task[r].kind \in Droppable
  /\ drops < MaxDrops /\ drops' = drops + 1
  /\ Answer(r)
  /\ gateQ' = Leave(gateQ, r)
  /\ lockQ' = Leave(lockQ, r)
  /\ UNCHANGED <<data, changes, backups>>

----------------------------------------------------------------------------
(* Backups *)

(* create_encrypted_backup_for_state past its guard: spawn_blocking. *)
StartBackup(t) ==
  /\ task[t].pc = "enter" /\ Writes(t)
  /\ Goto(t, "backup")
  /\ job' = [job EXCEPT ![t] = [pc |-> "dump", db |-> 0]]
  /\ UNCHANGED <<locks, store, db, archives, counts>>

DumpDatabase(t) ==
  /\ job[t].pc = "dump"
  /\ job' = [job EXCEPT ![t] = [pc |-> "copy", db |-> db]]
  /\ UNCHANGED <<task, locks, store, db, archives, counts>>

(* The copy, then archive, encryption and rename into the backup list. *)
CopySecrets(t) ==
  /\ job[t].pc = "copy"
  /\ archives' = archives \cup {[db |-> job[t].db, store |-> store]}
  /\ job' = [job EXCEPT ![t] = [pc |-> "ended", db |-> 0]]
  /\ UNCHANGED <<task, locks, store, db, counts>>

(* pg_dump, a file or the encryption fails: the partial file is removed. *)
BackupFails(t) ==
  /\ job[t].pc \in {"dump", "copy"}
  /\ job' = [job EXCEPT ![t] = [pc |-> "ended", db |-> 0]]
  /\ UNCHANGED <<task, locks, store, db, archives, counts>>

FinishBackup(t) ==
  /\ job[t].pc = "ended"
  /\ job' = [job EXCEPT ![t] = NoJob]
  /\ IF task[t].pc # "backup"
     THEN UNCHANGED <<task, gate, lock>>
     ELSE IF t # Scheduler THEN Answer(t)
     ELSE /\ task' = [task EXCEPT ![t] = [pc |-> "due", kind |-> "none"]]
          /\ gate' = gate \ {t} /\ UNCHANGED lock
  /\ UNCHANGED <<gateQ, lockQ, store, db, archives, counts>>

----------------------------------------------------------------------------
(* Background tasks *)

(* dispatch_due_schedules and reconcile_onboarding_jobs take the lock. *)
Tick(t) ==
  /\ t \in {Scheduler, Onboarding} /\ task[t] = Idle
  /\ Goto(t, "lock") /\ lockQ' = Append(lockQ, t)
  /\ UNCHANGED <<gate, gateQ, lock, data, counts>>

(* execute_scheduled_backup, with the lock held. *)
ScheduledBackup ==
  /\ task[Scheduler].pc = "due" /\ Counted("backup")
  /\ task' = [task EXCEPT ![Scheduler] = [pc |-> "gate", kind |-> "backup"]]
  /\ gateQ' = Append(gateQ, Scheduler)
  /\ UNCHANGED <<gate, lock, lockQ, data>>

EndPoll ==
  /\ task[Scheduler].pc = "due" /\ Answer(Scheduler)
  /\ UNCHANGED <<gateQ, lockQ, data, counts>>

EndOnboarding ==
  /\ task[Onboarding].pc = "onboard" /\ Answer(Onboarding)
  /\ UNCHANGED <<gateQ, lockQ, data, counts>>

----------------------------------------------------------------------------
Step(t) ==
  \/ EnterHandler(t) \/ ChangeSecretStore(t) \/ ChangeDatabase(t) \/ DeleteTarget(t)
  \/ StartBackup(t) \/ FinishBackup(t)

Job(t) == DumpDatabase(t) \/ CopySecrets(t) \/ BackupFails(t)

GateNext ==
  \/ \E r \in Requests : (\E k \in Kinds : Arrive(r, k)) \/ Drop(r)
  \/ \E t \in Tasks : Step(t) \/ Job(t) \/ Tick(t)
  \/ GrantGate \/ GrantLock
  \/ ScheduledBackup \/ EndPoll \/ EndOnboarding

GateSpec == GateInit /\ [][GateNext]_gateVars

(* Futures are polled, locks are handed on, the ends of a poll are         *)
(* reached and the tools of a backup terminate.                            *)
GateFairSpec ==
  /\ GateSpec
  /\ \A t \in Tasks : WF_gateVars(Step(t)) /\ WF_gateVars(Job(t))
  /\ WF_gateVars(GrantGate) /\ WF_gateVars(GrantLock) /\ WF_gateVars(EndPoll) /\ WF_gateVars(EndOnboarding)

----------------------------------------------------------------------------
(* Tasks, queues and counters are well formed; no task waits twice in a    *)
(* queue, also after its connection was closed and a new request came.     *)
Once(q) == \A i, j \in 1..Len(q) : q[i] = q[j] => i = j
GateTypeOK ==
  /\ task \in [Tasks -> [pc : Steps, kind : Kinds \cup {"none", "backup"}]]
  /\ gate \subseteq Tasks /\ lock \in Tasks \cup {Nobody}
  /\ gateQ \in Seq(Tasks) /\ Once(gateQ) /\ lockQ \in Seq(Tasks) /\ Once(lockQ)
  /\ job \in [Tasks -> [pc : {"none", "dump", "copy", "ended"}, db : 0..MaxChanges]]
  /\ store \in 0..MaxChanges /\ db \in 0..MaxChanges
  /\ archives \subseteq [db : 0..MaxChanges, store : 0..MaxChanges]
  /\ changes \in 0..MaxChanges /\ backups \in 0..MaxBackups /\ drops \in 0..MaxDrops

(* The types hold, and a backup holds the database and the secret store of *)
(* one moment: no mutating request is between its two writes or writes     *)
(* between dump and copy.  Violated once the backup's own request may be   *)
(* dropped.                                                                *)
ArchivesAgree == GateTypeOK /\ \A a \in archives : a.db = a.store

(* Every request is answered and every background task comes back to its   *)
(* timer.  Violated as soon as targets are deleted beside a scheduled      *)
(* backup: it waits for the gate with scheduler_lock held, delete_target   *)
(* for scheduler_lock with the gate held.                                  *)
TasksFinish == \A t \in Tasks : task[t].pc # "idle" ~> task[t].pc = "idle"
=============================================================================
