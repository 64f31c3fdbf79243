------------------------------ MODULE Schedules ------------------------------
(***************************************************************************)
(* Recurring schedules of the controller: the in-memory copy that the      *)
(* scheduler loop and the API handlers share, the rows of the `schedules`  *)
(* table behind it, and the jobs the scheduler inserts.                    *)
(*                                                                         *)
(* Every handler changes memory under the store's write lock and then, in  *)
(* a later step, upserts the WHOLE row from the clone it took: a client    *)
(* with pc "write" holds the clones it has still to write.  delete_target  *)
(* and the scheduler exclude each other with scheduler_lock; the other     *)
(* handlers take no such lock.  Every request in flight reads backup_gate, *)
(* which a scheduled backup waits to write with scheduler_lock held.  A    *)
(* restart drops memory, the handlers in flight and the coordinator's      *)
(* keys, and reloads the tables.                                           *)
(***************************************************************************)
EXTENDS Integers, Sequences, FiniteSets

CONSTANTS
  Ids,          \* schedule ids
  Targets,      \* targets registered at the start
  Lxc,          \* those of kind lxc
  Policies,     \* update policies that exist at the start, allowing all targets
  Clients,      \* concurrent API requests
  Requests,     \* bodies of POST /schedules: Row fields and an id
  Operations,   \* the handlers the clients may call
  Interval,     \* every_minutes, in clock ticks
  MaxTime,      \* bound on the clock
  MaxFaults,    \* bound on restarts and storage errors
  NoPolicy, NoTarget

ASSUME IntervalAssumption == Interval \in Nat \ {0}
ASSUME BoundAssumption == MaxTime \in Nat /\ MaxFaults \in Nat
ASSUME IdsAssumption == IsFiniteSet(Ids)  \* UUIDs
ASSUME LxcAssumption == Lxc \subseteq Targets
ASSUME PolicyAssumption == NoPolicy \notin Policies
ASSUME ClientAssumption == {"free", "scheduler"} \cap Clients = {}

VARIABLES
  clock,        \* Utc::now()
  targets,      \* store.targets
  managed,      \* the targets whose state is Managed
  policies,     \* store.update_policies: id -> allowed_targets
  schedules,    \* store.schedules: id -> row
  keys,         \* coordinator.idempotency: <<target, key>>
  dbTargets, dbPolicies, dbSchedules,
  jobs,         \* rows of ansible_jobs inserted by schedules
  req,          \* the request each client has in flight
  lock,         \* holder of scheduler_lock
  sch,          \* the dispatch_due_schedules call in progress
  ran,          \* per schedule, the poll times at which it ran since start
  workerUp,     \* a worker heartbeat of the last 10 s exists
  faults

memory == <<targets, policies, schedules, keys>>
tables == <<dbTargets, dbPolicies, dbSchedules, jobs>>
vars == <<clock, managed, memory, tables, req, lock, sch, ran, workerUp, faults>>

Ops == {"health_check", "update_packages", "docker_discovery", "create_backup"}

Row == [op : Ops, targets : SUBSET Targets, policy : Policies \cup {NoPolicy},
        threshold : BOOLEAN, enabled : BOOLEAN, next : Int]

ASSUME RequestAssumption ==
  \A r \in Requests : /\ r.id \in Ids
                      /\ r.row \in [op : Ops, targets : SUBSET Targets,
                                    policy : Policies \cup {NoPolicy},
                                    threshold : BOOLEAN, enabled : BOOLEAN]

With(f, x, v) == [y \in DOMAIN f \cup {x} |-> IF y = x THEN v ELSE f[y]]
Without(f, x) == [y \in DOMAIN f \ {x} |-> f[y]]

----------------------------------------------------------------------------
(* core/schedule.rs *)

IsDue(row, now) == row.enabled /\ row.next <= now

(* The while loop: the first slot after row.next that lies in the future of now. *)
NextSlot(row, now) ==
  LET missed == IF now < row.next THEN 0 ELSE (now - row.next) \div Interval
  IN row.next + (missed + 1) * Interval

NoAdvance(row, now) == row
AdvanceOnce(row, now) == [row EXCEPT !.next = @ + Interval]

AdvanceAfterRun(row, now) == [row EXCEPT !.next = NextSlot(row, now)]

----------------------------------------------------------------------------
(* create_schedule's validation *)

ValidFields(r) ==
  /\ r.op = "create_backup" => r.targets = {} /\ r.policy = NoPolicy /\ ~r.threshold
  /\ r.op = "update_packages" => r.policy # NoPolicy
  /\ r.op = "docker_discovery" => ~r.threshold

ValidResources(id, r) ==
  /\ id \notin DOMAIN schedules
  /\ r.targets # {} \/ r.op = "create_backup"
  /\ r.targets \subseteq targets
  /\ r.op = "docker_discovery" => r.targets \subseteq Lxc
  /\ r.policy # NoPolicy => /\ r.policy \in DOMAIN policies
                            /\ r.targets \subseteq policies[r.policy]

----------------------------------------------------------------------------
None == [x \in {} |-> x]       \* an empty table
Idle == [pc |-> "idle"]
Write(rows) == IF rows = << >> THEN Idle ELSE [pc |-> "write", rows |-> rows]

(* backup_gate: request_middleware reads it for every mutating request, from *)
(* its start to its answer.  tokio's RwLock is fair: behind a writer that    *)
(* waits or holds it, nobody enters.                                         *)
GateOpen == sch.pc \notin {"gate", "backup"}
Readers == {c \in Clients : req[c] # Idle}
Free(c, op) == req[c] = Idle /\ op \in Operations /\ GateOpen

NoRun == [pc |-> "idle"]
Loop(now, due) == [pc |-> "next", now |-> now, due |-> due]
Run(pc, id, row, due, now) ==
  [pc |-> pc, now |-> now, due |-> due, id |-> id, row |-> row,
   todo |-> row.targets, target |-> NoTarget]
Running == {"run", "save", "gate", "backup"}

Init ==
  /\ clock = 0
  /\ targets = Targets /\ dbTargets = Targets /\ managed = Targets
  /\ policies = [p \in Policies |-> Targets] /\ dbPolicies = policies
  /\ schedules = None /\ dbSchedules = None
  /\ keys = {} /\ jobs = {}
  /\ req = [c \in Clients |-> Idle]
  /\ lock = "free" /\ sch = NoRun
  /\ ran = [s \in Ids |-> {}]
  /\ workerUp = TRUE
  /\ faults = 0

----------------------------------------------------------------------------
(* API handlers *)

(* create_schedule: validate and push under the write lock, save later. *)
CreateSchedule(c, r) ==
  /\ Free(c, "create")
  /\ ValidFields(r.row) /\ ValidResources(r.id, r.row)
  /\ LET new == [op |-> r.row.op, targets |-> r.row.targets, policy |-> r.row.policy,
                 threshold |-> r.row.threshold, enabled |-> r.row.enabled,
                 next |-> clock + Interval]
     IN /\ schedules' = With(schedules, r.id, new)
        /\ req' = [req EXCEPT ![c] = Write(<<[id |-> r.id, row |-> new]>>)]
  /\ UNCHANGED <<clock, targets, managed, policies, keys, tables, lock, sch, ran, workerUp, faults>>

(* set_schedule_enabled *)
SetScheduleEnabled(c, id, on) ==
  /\ Free(c, "toggle")
  /\ id \in DOMAIN schedules
  /\ LET new == [schedules[id] EXCEPT !.enabled = on]
     IN /\ schedules' = [schedules EXCEPT ![id] = new]
        /\ req' = [req EXCEPT ![c] = Write(<<[id |-> id, row |-> new]>>)]
  /\ UNCHANGED <<clock, targets, managed, policies, keys, tables, lock, sch, ran, workerUp, faults>>

(* invalidate_agents_for_secret for the agent secret of target t: the      *)
(* target is reset to Pending and every enabled schedule over it paused.   *)
DisableSchedulesForTarget(c, t) ==
  LET hit == {s \in DOMAIN schedules : schedules[s].enabled /\ t \in schedules[s].targets}
      off == [s \in DOMAIN schedules |->
                [schedules[s] EXCEPT !.enabled = @ /\ s \notin hit]]
  IN /\ Free(c, "secret")
     /\ t \in targets
     /\ managed' = managed \ {t}
     /\ schedules' = off
     /\ \E order \in [1..Cardinality(hit) -> hit] :
          /\ \A i, j \in DOMAIN order : order[i] = order[j] => i = j
          /\ req' = [req EXCEPT ![c] =
               Write([i \in DOMAIN order |-> [id |-> order[i], row |-> off[order[i]]]])]
     /\ UNCHANGED <<clock, targets, policies, keys, tables, lock, sch, ran, workerUp, faults>>

(* receive_agent_heartbeat promotes a pending target. *)
Heartbeat(t) ==
  /\ t \in targets \ managed /\ GateOpen
  /\ managed' = managed \cup {t}
  /\ UNCHANGED <<clock, memory, tables, req, lock, sch, ran, workerUp, faults>>

(* schedules.save / update: INSERT ... ON CONFLICT (id) DO UPDATE of every column. *)
Upsert(id, row) == dbSchedules' = With(dbSchedules, id, row)

(* A handler writes its next clone; a storage error ends create and toggle *)
(* with a 500 and is ignored by disable_schedules_for_targets.             *)
WriteRow(c) ==
  /\ req[c].pc = "write"
  /\ Upsert(Head(req[c].rows).id, Head(req[c].rows).row)
  /\ req' = [req EXCEPT ![c] = Write(Tail(@.rows))]
  /\ UNCHANGED <<clock, managed, memory, dbTargets, dbPolicies, jobs, lock, sch, ran, workerUp, faults>>

WriteRowFails(c) ==
  /\ req[c].pc = "write" /\ faults < MaxFaults
  /\ faults' = faults + 1
  /\ req' = [req EXCEPT ![c] = Write(Tail(@.rows))]
  /\ UNCHANGED <<clock, managed, memory, tables, lock, sch, ran, workerUp>>

----------------------------------------------------------------------------
(* delete_target, under scheduler_lock.  The jobs the coordinator holds    *)
(* for schedules stay Queued in memory, so only the rows can be active.    *)

(* What removing t leaves of policies and schedules, in memory or in the tables. *)
PrunedPolicies(ps, t) ==
  LET kept == {p \in DOMAIN ps : ps[p] # {t}}
  IN [p \in kept |-> ps[p] \ {t}]

PrunedSchedules(ss, ps, t) ==
  LET gone == {p \in DOMAIN ps : ps[p] = {t}}
      kept == {s \in DOMAIN ss : /\ ss[s].targets \ {t} # {}
                                 /\ ss[s].policy \notin gone}
  IN [s \in kept |-> [ss[s] EXCEPT !.targets = @ \ {t}]]

(* The request is behind the gate and waits for scheduler_lock. *)
DeleteTarget(c, t) ==
  /\ Free(c, "delete_target")
  /\ req' = [req EXCEPT ![c] = [pc |-> "lock", target |-> t]]
  /\ UNCHANGED <<clock, managed, memory, tables, lock, sch, ran, workerUp, faults>>

Removable(t) ==
  /\ t \in targets /\ t \in dbTargets
  /\ \A j \in jobs : j.target = t => j.status # "active"

(* With the lock: delete_with_related_data, one transaction. *)
DeleteTargetRows(c) ==
  /\ req[c].pc = "lock" /\ lock = "free"
  /\ Removable(req[c].target)
  /\ lock' = c
  /\ LET t == req[c].target
     IN /\ dbTargets' = dbTargets \ {t}
        /\ dbSchedules' = PrunedSchedules(dbSchedules, dbPolicies, t)
        /\ dbPolicies' = PrunedPolicies(dbPolicies, t)
        /\ jobs' = {j \in jobs : j.target # t}
        /\ req' = [req EXCEPT ![c] = [pc |-> "deleted", target |-> t]]
  /\ UNCHANGED <<clock, managed, memory, sch, ran, workerUp, faults>>

(* An unknown or busy target is refused.                                   *)
RefuseDeletion(c) ==
  /\ req[c].pc = "lock" /\ lock = "free"
  /\ ~Removable(req[c].target)
  /\ req' = [req EXCEPT ![c] = Idle]
  /\ UNCHANGED <<clock, managed, memory, tables, lock, sch, ran, workerUp, faults>>

(* The client closes its connection: the request leaves the queue.         *)
GiveUpDeletion(c) ==
  /\ req[c].pc = "lock"
  /\ req' = [req EXCEPT ![c] = Idle]
  /\ UNCHANGED <<clock, managed, memory, tables, lock, sch, ran, workerUp, faults>>

(* remove_target_jobs and the in-memory pruning, then the lock is released. *)
DeleteTargetMemory(c) ==
  /\ req[c].pc = "deleted"
  /\ LET t == req[c].target
     IN /\ targets' = targets \ {t}
        /\ managed' = managed \ {t}
        /\ keys' = {k \in keys : k[1] # t}
        /\ schedules' = PrunedSchedules(schedules, policies, t)
        /\ policies' = PrunedPolicies(policies, t)
  /\ lock' = "free"
  /\ req' = [req EXCEPT ![c] = Idle]
  /\ UNCHANGED <<clock, tables, sch, ran, workerUp, faults>>

----------------------------------------------------------------------------
(* delete_update_policy: list the schedules, delete the row, forget it. *)

PolicyUnused(ss, p) == \A s \in DOMAIN ss : ~(ss[s].enabled /\ ss[s].policy = p)

CheckPolicyUnused(c, p) ==
  /\ Free(c, "delete_policy")
  /\ PolicyUnused(dbSchedules, p)
  /\ req' = [req EXCEPT ![c] = [pc |-> "unused", policy |-> p]]
  /\ UNCHANGED <<clock, managed, memory, tables, lock, sch, ran, workerUp, faults>>

DeletePolicyRow(c) ==
  /\ req[c].pc = "unused"
  /\ LET p == req[c].policy
     IN /\ dbPolicies' = Without(dbPolicies, p)
        /\ req' = [req EXCEPT ![c] = IF p \in DOMAIN dbPolicies
                                     THEN [pc |-> "forget", policy |-> p] ELSE Idle]
  /\ UNCHANGED <<clock, managed, memory, dbTargets, dbSchedules, jobs, lock, sch, ran, workerUp, faults>>

ForgetPolicy(c) ==
  /\ req[c].pc = "forget"
  /\ policies' = Without(policies, req[c].policy)
  /\ req' = [req EXCEPT ![c] = Idle]
  /\ UNCHANGED <<clock, targets, managed, schedules, keys, tables, lock, sch, ran, workerUp, faults>>

----------------------------------------------------------------------------
(* dispatch_due_schedules, one poll of the scheduler loop *)

UnguardedPoll ==
  LET due == {s \in DOMAIN schedules : IsDue(schedules[s], clock)}
  IN /\ sch.pc = "idle"
     /\ due # {}
     /\ lock' = lock
     /\ sch' = Loop(clock, [s \in due |-> schedules[s]])
     /\ UNCHANGED <<clock, managed, memory, tables, req, ran, workerUp, faults>>

(* The lock is taken and the due schedules are cloned. *)
Poll ==
  LET due == {s \in DOMAIN schedules : IsDue(schedules[s], clock)}
  IN /\ sch.pc = "idle" /\ lock = "free"
     /\ due # {}
     /\ lock' = "scheduler"
     /\ sch' = Loop(clock, [s \in due |-> schedules[s]])
     /\ UNCHANGED <<clock, managed, memory, tables, req, ran, workerUp, faults>>

WaitsForWorker(row) == row.op \notin {"docker_discovery", "create_backup"} /\ ~workerUp

(* A scheduled backup goes for the gate, unless its passphrase cannot be   *)
(* read; every other operation has a target to dispatch to.                *)
FirstStep(row) == IF row.op = "create_backup" THEN {"gate", "run"} ELSE {"run"}

(* The loop takes the next clone: left due without a worker, else run. *)
NextSchedule(s) ==
  /\ sch.pc = "next" /\ s \in DOMAIN sch.due
  /\ LET row == sch.due[s]
         rest == Without(sch.due, s)
     IN IF WaitsForWorker(row)
        THEN sch' = [sch EXCEPT !.due = rest] /\ ran' = ran
        ELSE /\ \E pc \in FirstStep(row) : sch' = Run(pc, s, row, rest, sch.now)
             /\ ran' = [ran EXCEPT ![s] = @ \cup {sch.now}]
  /\ UNCHANGED <<clock, managed, memory, tables, req, lock, workerUp, faults>>

EndPoll ==
  /\ sch.pc = "next" /\ DOMAIN sch.due = {}
  /\ sch' = NoRun /\ lock' = "free"
  /\ UNCHANGED <<clock, managed, memory, tables, req, ran, workerUp, faults>>

(* create_encrypted_backup_for_state: the gate is written once the requests *)
(* before it are answered, scheduler_lock is held all the while.            *)
TakeGate ==
  /\ sch.pc = "gate" /\ Readers = {}
  /\ sch' = [sch EXCEPT !.pc = "backup"]
  /\ UNCHANGED <<clock, managed, memory, tables, req, lock, ran, workerUp, faults>>

(* The blocking task ends, well or badly. *)
EndBackup ==
  /\ sch.pc = "backup"
  /\ sch' = [sch EXCEPT !.pc = "run"]
  /\ UNCHANGED <<clock, managed, memory, tables, req, lock, ran, workerUp, faults>>

PollTimeKey(id, row, now) == <<id, now>>

(* idempotency_key: the schedule and the slot the clone was due for. *)
JobKey(id, row, now) == <<id, row.next>>

(* scheduled_target and scheduled_job_request: the checks before submit. *)
Dispatchable(row, t) ==
  /\ t \in targets /\ t \in managed
  /\ \A j \in jobs : j.target = t => j.status # "active"
  /\ row.op = "update_packages" => /\ row.policy \in DOMAIN policies
                                   /\ t \in policies[row.policy]

(* dispatch_scheduled_target for one target of the clone; \E met is the    *)
(* threshold rule's verdict on the latest heartbeat.  Discovery and a      *)
(* refused target insert no job.                                           *)
DispatchTarget(t, met) ==
  /\ sch.pc = "run" /\ t \in sch.todo
  /\ sch.row.threshold \/ met
  /\ LET key == <<t, JobKey(sch.id, sch.row, sch.now)>>
         submit == /\ met /\ Dispatchable(sch.row, t)
                   /\ sch.row.op # "docker_discovery"
                   /\ key \notin keys
     IN /\ keys' = IF submit THEN keys \cup {key} ELSE keys
        /\ sch' = [sch EXCEPT !.pc = IF submit THEN "save" ELSE @,
                             !.todo = @ \ {t}, !.target = t]
  /\ UNCHANGED <<clock, targets, managed, policies, schedules, tables, req, lock, ran, workerUp, faults>>

(* persist_created_job: UNIQUE (target, idempotency_key) and the foreign   *)
(* key on targets reject the INSERT; so may the storage.                   *)
SaveJob(stored) ==
  /\ sch.pc = "save"
  /\ LET t == sch.target
         key == JobKey(sch.id, sch.row, sch.now)
         ok == /\ stored /\ t \in dbTargets
               /\ ~\E j \in jobs : j.target = t /\ j.key = key
     IN /\ faults' = IF stored THEN faults ELSE faults + 1
        /\ stored \/ faults < MaxFaults
        /\ jobs' = IF ok THEN jobs \cup {[id |-> sch.id, target |-> t, slot |-> sch.row.next,
                                          key |-> key, status |-> "queued"]}
                   ELSE jobs
        /\ sch' = [sch EXCEPT !.pc = "run"]
  /\ UNCHANGED <<clock, managed, memory, dbTargets, dbPolicies, dbSchedules, req, lock, ran, workerUp>>

(* advance_schedule_after_run: the CURRENT row advances, if it still exists. *)
Advance ==
  /\ sch.pc = "run" /\ sch.todo = {}
  /\ LET s == sch.id
     IN IF s \in DOMAIN schedules
        THEN LET new == AdvanceAfterRun(schedules[s], sch.now)
             IN /\ schedules' = [schedules EXCEPT ![s] = new]
                /\ sch' = [pc |-> "persist", now |-> sch.now, due |-> sch.due,
                           id |-> s, row |-> new]
        ELSE /\ sch' = Loop(sch.now, sch.due)
             /\ schedules' = schedules
  /\ UNCHANGED <<clock, targets, managed, policies, keys, tables, req, lock, ran, workerUp, faults>>

(* The advanced clone is written back; `let _` ignores a storage error. *)
PersistAdvance(stored) ==
  /\ sch.pc = "persist"
  /\ stored \/ faults < MaxFaults
  /\ IF stored THEN Upsert(sch.id, sch.row) /\ faults' = faults
               ELSE dbSchedules' = dbSchedules /\ faults' = faults + 1
  /\ sch' = Loop(sch.now, sch.due)
  /\ UNCHANGED <<clock, managed, memory, dbTargets, dbPolicies, jobs, req, lock, ran, workerUp>>

----------------------------------------------------------------------------
(* The environment *)

(* main.rs: a new process restores targets, schedules and policies; each   *)
(* restore_* leaves its list empty when the SELECT fails.                   *)
Restored(table, name, lost) == IF name \in lost THEN None ELSE table

Restart(lost) ==
  /\ faults' = faults + 1 + Cardinality(lost)
  /\ faults' <= MaxFaults
  /\ targets' = IF "targets" \in lost THEN {} ELSE dbTargets
  /\ schedules' = Restored(dbSchedules, "schedules", lost)
  /\ policies' = Restored(dbPolicies, "policies", lost)
  /\ managed' = managed \cap dbTargets
  /\ keys' = {}
  /\ req' = [c \in Clients |-> Idle]
  /\ lock' = "free" /\ sch' = NoRun
  /\ ran' = [s \in Ids |-> {}]
  /\ UNCHANGED <<clock, tables, workerUp>>

Tick ==
  /\ clock < MaxTime
  /\ clock' = clock + 1
  /\ UNCHANGED <<managed, memory, tables, req, lock, sch, ran, workerUp, faults>>

(* A worker or an agent claims an inserted job, and settles it.  Only a    *)
(* claimed job is active: a queued one blocks neither the next slot nor    *)
(* the removal of its target.                                              *)
MoveJob(j) ==
  /\ \/ j.status = "queued" /\ jobs' = (jobs \ {j}) \cup {[j EXCEPT !.status = "active"]}
     \/ j.status = "active" /\ jobs' = (jobs \ {j}) \cup {[j EXCEPT !.status = "done"]}
  /\ UNCHANGED <<clock, managed, memory, dbTargets, dbPolicies, dbSchedules, req, lock, sch,
                 ran, workerUp, faults>>

WorkerHeartbeat ==
  /\ workerUp' = ~workerUp
  /\ UNCHANGED <<clock, managed, memory, tables, req, lock, sch, ran, faults>>

----------------------------------------------------------------------------
SchedulerStep ==
  \/ Poll
  \/ \E s \in Ids : NextSchedule(s)
  \/ EndPoll
  \/ TakeGate
  \/ \E t \in Targets, met \in BOOLEAN : DispatchTarget(t, met)
  \/ \E stored \in BOOLEAN : SaveJob(stored)
  \/ Advance
  \/ \E stored \in BOOLEAN : PersistAdvance(stored)

HandlerStep(c) ==
  \/ WriteRow(c) \/ WriteRowFails(c)
  \/ DeleteTargetRows(c) \/ RefuseDeletion(c) \/ DeleteTargetMemory(c)
  \/ DeletePolicyRow(c) \/ ForgetPolicy(c)

RequestStep(c) ==
  \/ \E r \in Requests : CreateSchedule(c, r)
  \/ \E s \in Ids, on \in BOOLEAN : SetScheduleEnabled(c, s, on)
  \/ \E t \in Targets : DisableSchedulesForTarget(c, t) \/ DeleteTarget(c, t)
  \/ \E p \in Policies : CheckPolicyUnused(c, p)

Next ==
  \/ SchedulerStep \/ EndBackup
  \/ \E c \in Clients : RequestStep(c) \/ HandlerStep(c) \/ GiveUpDeletion(c)
  \/ \E t \in Targets : Heartbeat(t)
  \/ \E lost \in SUBSET {"targets", "schedules", "policies"} : Restart(lost)
  \/ Tick \/ WorkerHeartbeat
  \/ \E j \in jobs : MoveJob(j)

Spec == Init /\ [][Next]_vars

(* The scheduler loop and the handlers run on the tokio runtime: every     *)
(* spawned future that can continue is polled again.  Database and agents  *)
(* answer or fail (the agent client has a timeout); nothing bounds the     *)
(* tools of a backup, and nobody has to close a connection.                *)
Fairness == WF_vars(SchedulerStep) /\ \A c \in Clients : WF_vars(HandlerStep(c))
FairSpec == Spec /\ Fairness

----------------------------------------------------------------------------
Jobs == [id : Ids, target : Targets, slot : Int, key : Ids \X Int,
         status : {"queued", "active", "done"}]

(* Every table holds rows of its type and every clone in flight is a row of *)
(* JobSchedule.                                                             *)
TypeOK ==
  /\ clock \in 0..MaxTime /\ faults \in 0..MaxFaults
  /\ targets \subseteq Targets /\ dbTargets \subseteq Targets 
  /\ managed \subseteq targets \cup dbTargets
  /\ \A ss \in {schedules, dbSchedules} :
       DOMAIN ss \subseteq Ids /\ \A s \in DOMAIN ss : ss[s] \in Row
  /\ \A ps \in {policies, dbPolicies} :
       DOMAIN ps \subseteq Policies /\ \A p \in DOMAIN ps : ps[p] \subseteq Targets
  /\ keys \subseteq Targets \X (Ids \X Int)
  /\ jobs \subseteq Jobs
  /\ lock \in {"free", "scheduler"} \cup Clients
  /\ sch.pc \in {"idle", "next", "persist"} \cup Running
  /\ \A c \in Clients : req[c].pc \in {"idle", "write", "lock", "deleted", "unused", "forget"}

(* A (schedule, target, slot) yields at most one job row, across restarts, *)
(* lost writes of the advanced row and stale rows written back over it: the *)
(* key of dispatch_scheduled_target names the slot, not the poll.           *)
SlotOnce ==
  \A i, j \in jobs : i.id = j.id /\ i.target = j.target /\ i.slot = j.slot => i = j

(* Within one process a schedule runs at most once per poll time: a missed *)
(* run gives "exactly one catch-up opportunity" (core/schedule.rs:49), not *)
(* one per missed slot.                                                    *)
OneCatchUp ==
  [][\A s \in Ids : sch'.pc \in Running /\ sch.pc = "next" /\ sch'.id = s
        => sch.now \notin ran[s]]_vars

(* The tables are well typed, and within one process, what a run in         *)
(* progress, or a schedule in memory, refers to is registered:              *)
(* delete_target prunes the schedules and cannot overtake a run because     *)
(* both hold scheduler_lock.                                                *)
ScopesRegistered ==
  /\ TypeOK
  /\ \A s \in DOMAIN schedules : schedules[s].targets \subseteq targets
  /\ sch.pc \in Running => sch.row.targets \subseteq targets

(* A due schedule is run, paused or removed, unless no worker stays up, or *)
(* the scheduler waits for good: for the tools of a backup, or for         *)
(* backup_gate, and then a delete_target behind the gate waits for the     *)
(* scheduler_lock it holds.  Nothing else holds the scheduler up for good. *)
Due(s) == s \in DOMAIN schedules /\ IsDue(schedules[s], clock)
Embraced == sch.pc = "gate" /\ \E c \in Clients : req[c].pc = "lock"
DueScheduleRuns ==
  \/ []<>(~workerUp) \/ <>[](sch.pc = "backup") \/ <>[]Embraced
  \/ \A s \in Ids : Due(s) ~> ~Due(s)
=============================================================================
