------------------------------ MODULE JobQueue ------------------------------
(***************************************************************************)
(* The PostgreSQL job queue (table ansible_jobs), the Ansible worker       *)
(* processes that claim and execute jobs, and the controller routes that   *)
(* submit, reconcile and retry them.                                       *)
(*                                                                         *)
(* A job row is written by several processes, each keeping its own copy of *)
(* the job between statements: every UPDATE of AnsibleJobRepository::update*)
(* is by id alone and overwrites whatever the row holds.  One action here  *)
(* is one committed statement (or transaction) together with the local     *)
(* computation up to it.  Targets are Linux targets; the Windows agent's   *)
(* half of the table is a different protocol.                              *)
(***************************************************************************)
EXTENDS JobContract, Naturals, FiniteSets

CONSTANTS
    Workers,       \* worker processes that may run against the database
    Booted,        \* the workers already polling in the initial state
    Targets,       \* managed Linux targets
    MaxJobs,       \* bound: jobs ever submitted
    MaxRetries,    \* bound: operator retries over a behaviour
    MaxFaults,     \* bound: crashes, database errors and timeouts
    Faults,        \* which faults may happen: "crash", "db", "timeout"
    Requests,      \* <<operation, mode>> pairs sent to create_ansible_job
    Unchecked,     \* <<operation, mode>> pairs submitted without a lock check
    NoJob          \* the specification of an id that is not in use yet

JobId == 1..MaxJobs    \* in created_at order

JobSpec == [target : Targets, op : Operation, mode : Mode, src : 0..MaxJobs]

ASSUME BoundsAssumption == MaxJobs \in Nat /\ MaxRetries \in Nat /\ MaxFaults \in Nat
ASSUME BootedAssumption == Booted \subseteq Workers
ASSUME NoJobAssumption  == NoJob \notin JobSpec
ASSUME RequestsAssumption ==
    \A r \in Requests \cup Unchecked :
        r \in Operation \X Mode /\ r[2] \in SupportedModes(r[1])

VARIABLES
    job,       \* the immutable part of each AnsibleJob
    status,    \* the status column, or where the job is before its INSERT
    pc,        \* where each worker is in main / process / run / invoke
    cur,       \* the job a worker has claimed (0: none)
    st,        \* job.status in the worker's memory, written before each UPDATE
    ok,        \* the result of run(), once it is known
    todo,      \* rows of the list() snapshot recovery still has to update
    orphans,   \* <<w, j>>: a playbook of j that w stopped waiting for still runs
    touched,   \* jobs whose apply playbook has started and is not accounted for
    faults,    \* faults so far
    retries    \* retries so far

vars == <<job, status, pc, cur, st, ok, todo, orphans, touched, faults, retries>>
worker == <<pc, cur, st, ok, todo>>
bounds == <<faults, retries>>

Pc == {"down", "recovering", "idle", "selected", "claimed", "planned", "ready",
       "applying", "running", "finalizing", "finishing"}

\* "none": unused id; "pending": in the coordinator's memory, its INSERT under
\* way; "rejected": the INSERT failed and only the memory copy is left.
RowState == Status \cup {"none", "pending", "rejected"}

TypeOK ==
    /\ job \in [JobId -> JobSpec \cup {NoJob}]
    /\ status \in [JobId -> RowState]
    /\ \A j \in JobId : status[j] # "none" => job[j] \in JobSpec
    /\ pc \in [Workers -> Pc]
    /\ cur \in [Workers -> 0..MaxJobs]
    /\ st \in [Workers -> Status]
    /\ ok \in [Workers -> BOOLEAN]
    /\ todo \in [Workers -> SUBSET (JobId \X Executing)]
    /\ orphans \subseteq Workers \X JobId
    /\ touched \subseteq JobId
    /\ faults \in Nat
    /\ retries \in Nat

Init ==
    /\ job = [j \in JobId |-> NoJob]
    /\ status = [j \in JobId |-> "none"]
    /\ pc = [w \in Workers |-> IF w \in Booted THEN "idle" ELSE "down"]
    /\ cur = [w \in Workers |-> 0]
    /\ st = [w \in Workers |-> "queued"]
    /\ ok = [w \in Workers |-> FALSE]
    /\ todo = [w \in Workers |-> {}]
    /\ orphans = {}
    /\ touched = {}
    /\ faults = 0
    /\ retries = 0

-----------------------------------------------------------------------------
(* The table.                                                              *)

Row(j) == status[j] \in Status

\* The other rows of j's target whose status is in S.
Others(j, S) ==
    {k \in JobId \ {j} : Row(k) /\ job[k].target = job[j].target /\ status[k] \in S}

\* The row lock of SELECT ... FOR UPDATE, held until the claim commits.
Locked(j) == \E w \in Workers : pc[w] = "selected" /\ cur[w] = j

\* Mutant of IndexAllows: the partial unique index is missing.
NoIndex(j, s) == TRUE

\* ansible_jobs_one_active_target_idx lets row j take status s.
IndexAllows(j, s) == s \in Executing => Others(j, Executing) = {}

\* AnsibleJobRepository::update: by id, whatever the row holds.
Update(j, s) ==
    /\ ~Locked(j)
    /\ IndexAllows(j, s)
    /\ status' = [status EXCEPT ![j] = s]

\* A statement fails: the connection is lost, or the unique index refuses it.
DbFault == "db" \in Faults /\ faults < MaxFaults /\ faults' = faults + 1

UpdateFails(j, s) ==
    /\ \/ DbFault
       \/ ~Locked(j) /\ ~IndexAllows(j, s) /\ UNCHANGED faults
    /\ UNCHANGED status

-----------------------------------------------------------------------------
(* Worker: start and recovery.                                             *)

\* Mutant of Start: recovery is skipped.
StartWithoutRecovery(w) ==
    /\ pc[w] = "down"
    /\ pc' = [pc EXCEPT ![w] = "recovering"]
    /\ UNCHANGED <<job, status, cur, st, ok, todo, orphans, touched, bounds>>

\* main up to the list() of recover_interrupted_jobs.
Start(w) ==
    /\ pc[w] = "down"
    /\ pc' = [pc EXCEPT ![w] = "recovering"]
    /\ todo' = [todo EXCEPT ![w] = {<<j, status[j]>> : j \in {k \in JobId : status[k] \in Executing}}]
    /\ UNCHANGED <<job, status, cur, st, ok, orphans, touched, bounds>>

\* Mutants of RecoveredStatus.
RecoveredAsFailed(s) == "failed"
RecoveredAsUnresolved(s) == "reconcile_required"

\* What recovery makes of a job it listed in status s.
RecoveredStatus(s) == IF s = "applying" THEN "reconcile_required" ELSE "failed"

\* One turn of the loop in recover_interrupted_jobs, newest job first.
RecoverJob(w) ==
    /\ pc[w] = "recovering"
    /\ \E e \in todo[w] :
          /\ \A d \in todo[w] : d[1] <= e[1]
          /\ Update(e[1], RecoveredStatus(e[2]))
          /\ todo' = [todo EXCEPT ![w] = @ \ {e}]
    /\ UNCHANGED <<job, pc, cur, st, ok, orphans, touched, bounds>>

RecoverDone(w) ==
    /\ pc[w] = "recovering"
    /\ todo[w] = {}
    /\ pc' = [pc EXCEPT ![w] = "idle"]
    /\ UNCHANGED <<job, status, cur, st, ok, todo, orphans, touched, bounds>>

\* The worker's container dies: the process, its playbooks and its open
\* transaction go with it.  An error of recovery's own UPDATE also ends here
\* (main expects recovery to succeed).
Crash(w) ==
    /\ "crash" \in Faults
    /\ faults < MaxFaults
    /\ faults' = faults + 1
    /\ pc[w] # "down"
    /\ pc' = [pc EXCEPT ![w] = "down"]
    /\ cur' = [cur EXCEPT ![w] = 0]
    /\ st' = [st EXCEPT ![w] = "queued"]
    /\ ok' = [ok EXCEPT ![w] = FALSE]
    /\ todo' = [todo EXCEPT ![w] = {}]
    /\ orphans' = {o \in orphans : o[1] # w}
    /\ UNCHANGED <<job, status, touched, retries>>

-----------------------------------------------------------------------------
(* Worker: claim_next_queued, a SELECT ... FOR UPDATE SKIP LOCKED and an    *)
(* UPDATE in one READ COMMITTED transaction.                               *)

\* j is the reconciliation job of u: its key is reconcile-job:<u>.
Reconciles(j, u) == job[j].mode = "reconcile" /\ job[j].src = u

\* Mutant of Claimable: unresolved jobs are ignored.
ClaimableDespiteUnresolved(j) == status[j] = "queued" /\ Others(j, Executing) = {}

Claimable(j) ==
    /\ status[j] = "queued"
    /\ Others(j, Executing) = {}
    /\ \A u \in Others(j, {"reconcile_required"}) : Reconciles(j, u)

ClaimSelect(w) ==
    /\ pc[w] = "idle"
    /\ \E j \in JobId :
          /\ Claimable(j) /\ ~Locked(j)
          /\ \A k \in JobId : Claimable(k) /\ ~Locked(k) => j <= k
          /\ cur' = [cur EXCEPT ![w] = j]
    /\ pc' = [pc EXCEPT ![w] = "selected"]
    /\ UNCHANGED <<job, status, st, ok, todo, orphans, touched, bounds>>

ClaimCommit(w) ==
    /\ pc[w] = "selected"
    /\ IndexAllows(cur[w], "checking")
    /\ status' = [status EXCEPT ![cur[w]] = "checking"]
    /\ st' = [st EXCEPT ![w] = "checking"]
    /\ pc' = [pc EXCEPT ![w] = "claimed"]
    /\ UNCHANGED <<job, cur, ok, todo, orphans, touched, bounds>>

\* 23505 from the index, or any other error: the transaction is rolled back.
ClaimRollback(w) ==
    /\ pc[w] = "selected"
    /\ \/ ~IndexAllows(cur[w], "checking") /\ UNCHANGED faults
       \/ DbFault
    /\ pc' = [pc EXCEPT ![w] = "idle"]
    /\ cur' = [cur EXCEPT ![w] = 0]
    /\ UNCHANGED <<job, status, st, ok, todo, orphans, touched, retries>>

\* COMMIT took effect but its answer was lost: the row is claimed by nobody.
ClaimLost(w) ==
    /\ pc[w] = "selected"
    /\ IndexAllows(cur[w], "checking")
    /\ DbFault
    /\ status' = [status EXCEPT ![cur[w]] = "checking"]
    /\ pc' = [pc EXCEPT ![w] = "idle"]
    /\ cur' = [cur EXCEPT ![w] = 0]
    /\ UNCHANGED <<job, st, ok, todo, orphans, touched, retries>>

-----------------------------------------------------------------------------
(* Worker: run and invoke.                                                 *)

\* run returns r; process has still to persist the outcome.
Return(w, r) ==
    /\ pc' = [pc EXCEPT ![w] = "finishing"]
    /\ ok' = [ok EXCEPT ![w] = r]

\* The target is gone or uses the agent transport, or a secret reference of
\* the job is no longer the target's.
PrecheckFails(w) ==
    /\ pc[w] = "claimed"
    /\ Return(w, FALSE)
    /\ UNCHANGED <<job, status, cur, st, todo, orphans, touched, bounds>>

MarkPlanned(w) ==
    /\ pc[w] = "claimed"
    /\ st' = [st EXCEPT ![w] = "planned"]
    /\ Update(cur[w], "planned")
    /\ pc' = [pc EXCEPT ![w] = "planned"]
    /\ UNCHANGED <<job, cur, ok, todo, orphans, touched, bounds>>

MarkPlannedError(w) ==
    /\ pc[w] = "claimed"
    /\ st' = [st EXCEPT ![w] = "planned"]
    /\ UpdateFails(cur[w], "planned")
    /\ Return(w, FALSE)
    /\ UNCHANGED <<job, cur, todo, orphans, touched, retries>>

\* load_reconciliation_source accepts the source (parameters and secret
\* references are copied from it when the reconciliation job is made).
SourceAccepted(j) ==
    LET s == job[j].src IN
    /\ s \in JobId
    /\ CanBeReconciled([op |-> job[s].op, mode |-> job[s].mode, status |-> status[s]])
    /\ job[s].target = job[j].target
    /\ job[s].op = job[j].op

\* load_reconciliation_source and prepare_invocation.
PrepareInvocation(w) ==
    /\ pc[w] = "planned"
    /\ job[cur[w]].mode = "reconcile" => SourceAccepted(cur[w])
    /\ pc' = [pc EXCEPT ![w] = "ready"]
    /\ UNCHANGED <<job, status, cur, st, ok, todo, orphans, touched, bounds>>

\* The StatusChanged event was not stored, the source was refused, or a
\* credential, host key or artifact is missing.
PrepareFails(w) ==
    /\ pc[w] = "planned"
    /\ Return(w, FALSE)
    /\ UNCHANGED <<job, status, cur, st, todo, orphans, touched, bounds>>

MarkApplying(w) ==
    /\ pc[w] = "ready"
    /\ job[cur[w]].mode = "apply"
    /\ st' = [st EXCEPT ![w] = "applying"]
    /\ Update(cur[w], "applying")
    /\ pc' = [pc EXCEPT ![w] = "applying"]
    /\ UNCHANGED <<job, cur, ok, todo, orphans, touched, bounds>>

MarkApplyingError(w) ==
    /\ pc[w] = "ready"
    /\ job[cur[w]].mode = "apply"
    /\ st' = [st EXCEPT ![w] = "applying"]
    /\ UpdateFails(cur[w], "applying")
    /\ Return(w, FALSE)
    /\ UNCHANGED <<job, cur, todo, orphans, touched, retries>>

\* playbook() knows every operation but one.
HasPlaybook(op) == op # "configure_target"

ReadyToSpawn(w) ==
    \/ pc[w] = "applying"
    \/ pc[w] = "ready" /\ job[cur[w]].mode # "apply"

SpawnPlaybook(w) ==
    /\ ReadyToSpawn(w)
    /\ HasPlaybook(job[cur[w]].op)
    /\ pc' = [pc EXCEPT ![w] = "running"]
    /\ touched' = IF job[cur[w]].mode = "apply" THEN touched \cup {cur[w]} ELSE touched
    /\ UNCHANGED <<job, status, cur, st, ok, todo, orphans, bounds>>

\* No playbook, no event row for "applying", or no ansible-playbook process.
SpawnFails(w) ==
    /\ ReadyToSpawn(w)
    /\ Return(w, FALSE)
    /\ UNCHANGED <<job, status, cur, st, todo, orphans, touched, bounds>>

\* The process exits and its output is logged.  A reconciliation whose
\* playbook succeeded goes on to its source; anything that fails after the
\* exit (an event, the inventory) makes run() fail as a failed playbook does.
PlaybookExits(w) ==
    /\ pc[w] = "running"
    /\ \/ /\ job[cur[w]].mode = "reconcile"
          /\ pc' = [pc EXCEPT ![w] = "finalizing"]
          /\ UNCHANGED ok
       \/ job[cur[w]].mode # "reconcile" /\ Return(w, TRUE)
       \/ Return(w, FALSE)
    /\ UNCHANGED <<job, status, cur, st, todo, orphans, touched, bounds>>

\* timeout() drops the future of Command::output(); nothing kills the child.
PlaybookTimesOut(w) ==
    /\ pc[w] = "running"
    /\ "timeout" \in Faults
    /\ faults < MaxFaults
    /\ faults' = faults + 1
    /\ orphans' = orphans \cup {<<w, cur[w]>>}
    /\ Return(w, FALSE)
    /\ UNCHANGED <<job, status, cur, st, todo, touched, retries>>

OrphanExits ==
    /\ \E o \in orphans : orphans' = orphans \ {o}
    /\ UNCHANGED <<job, status, worker, touched, bounds>>

\* finalize_reconciliation_source: Completed -> succeeded, else failed.
\* Its events may fail after the UPDATE.
FinalizeSource(w) ==
    /\ pc[w] = "finalizing"
    /\ \E s \in {"succeeded", "failed"}, r \in BOOLEAN :
          Update(job[cur[w]].src, s) /\ Return(w, r)
    /\ touched' = touched \ {job[cur[w]].src}
    /\ UNCHANGED <<job, cur, st, todo, orphans, bounds>>

FinalizeSourceError(w) ==
    /\ pc[w] = "finalizing"
    /\ DbFault
    /\ Return(w, FALSE)
    /\ UNCHANGED <<job, status, cur, st, todo, orphans, touched, retries>>

-----------------------------------------------------------------------------
(* Worker: the tail of process.                                            *)

FinalStatus(w) ==
    IF ok[w] THEN "succeeded"
    ELSE IF job[cur[w]].mode = "apply" /\ st[w] = "applying" THEN "reconcile_required"
    ELSE "failed"

Finish(w) ==
    /\ pc[w] = "finishing"
    /\ Update(cur[w], FinalStatus(w))
    /\ touched' = IF ok[w] THEN touched \ {cur[w]} ELSE touched
    /\ pc' = [pc EXCEPT ![w] = "idle"]
    /\ cur' = [cur EXCEPT ![w] = 0]
    /\ UNCHANGED <<job, st, ok, todo, orphans, bounds>>

\* process returns the error, main logs it and polls again.
FinishError(w) ==
    /\ pc[w] = "finishing"
    /\ DbFault
    /\ pc' = [pc EXCEPT ![w] = "idle"]
    /\ cur' = [cur EXCEPT ![w] = 0]
    /\ UNCHANGED <<job, status, st, ok, todo, orphans, touched, retries>>

-----------------------------------------------------------------------------
(* Controller.                                                             *)

\* Mutant of Register: the job itself is not stored.
RegisterKeyOnly(j, spec) ==
    /\ status[j] = "none"
    /\ \A k \in JobId : status[k] = "none" => j <= k
    /\ status' = [status EXCEPT ![j] = "pending"]
    /\ UNCHANGED <<job, worker, orphans, touched, bounds>>

\* The coordinator registers a new job in memory; SaveJob inserts the row.
Register(j, spec) ==
    /\ status[j] = "none"
    /\ \A k \in JobId : status[k] = "none" => j <= k
    /\ job' = [job EXCEPT ![j] = spec]
    /\ status' = [status EXCEPT ![j] = "pending"]
    /\ UNCHANGED <<worker, orphans, touched, bounds>>

\* create_ansible_job: refused while a job of the target is active or
\* unresolved; the check and the INSERT are separate statements.
CreateJob ==
    \E t \in Targets, r \in Requests, j \in JobId :
        /\ \A k \in JobId : Row(k) /\ job[k].target = t => status[k] \notin Active
        /\ Register(j, [target |-> t, op |-> r[1], mode |-> r[2], src |-> 0])

\* queue_enrollment_job and ensure_deployment_followups submit unconditionally.
SubmitUnchecked ==
    \E t \in Targets, r \in Unchecked, j \in JobId :
        Register(j, [target |-> t, op |-> r[1], mode |-> r[2], src |-> 0])

\* reconcile_ansible_job: no row has the key yet and nothing else holds the
\* target; a copy left in memory by a failed INSERT is inserted again.
RequestReconcile(s) ==
    /\ Row(s)
    /\ CanBeReconciled([op |-> job[s].op, mode |-> job[s].mode, status |-> status[s]])
    /\ \A k \in JobId : Row(k) => job[k].src # s
    /\ Others(s, Active) = {}
    /\ \/ \E k \in JobId :
             /\ job[k] # NoJob /\ job[k].src = s
             /\ status[k] = "rejected"
             /\ status' = [status EXCEPT ![k] = "pending"]
             /\ UNCHANGED <<job, worker, orphans, touched, bounds>>
       \/ /\ \A k \in JobId : job[k] # NoJob => job[k].src # s
          /\ \E j \in JobId :
                Register(j, [target |-> job[s].target, op |-> job[s].op,
                             mode |-> "reconcile", src |-> s])

\* The INSERT of AnsibleJobRepository::save.
SaveJob(j) ==
    /\ status[j] = "pending"
    /\ status' = [status EXCEPT ![j] = "queued"]
    /\ UNCHANGED <<job, worker, orphans, touched, bounds>>

SaveFails(j) ==
    /\ status[j] = "pending"
    /\ DbFault
    /\ status' = [status EXCEPT ![j] = "rejected"]
    /\ UNCHANGED <<job, worker, orphans, touched, retries>>

\* retry_ansible_job: one transaction that locks the row.
RetryJob(j) ==
    /\ retries < MaxRetries
    /\ retries' = retries + 1
    /\ Row(j)
    /\ CanRetry([op |-> job[j].op, mode |-> job[j].mode, status |-> status[j]])
    /\ Update(j, "queued")
    /\ UNCHANGED <<job, worker, orphans, touched, faults>>

-----------------------------------------------------------------------------

WorkerStep(w) ==
    \/ RecoverJob(w) \/ RecoverDone(w)
    \/ ClaimSelect(w) \/ ClaimCommit(w) \/ ClaimRollback(w) \/ ClaimLost(w)
    \/ PrecheckFails(w) \/ MarkPlanned(w) \/ MarkPlannedError(w)
    \/ PrepareInvocation(w) \/ PrepareFails(w)
    \/ MarkApplying(w) \/ MarkApplyingError(w)
    \/ SpawnPlaybook(w) \/ SpawnFails(w)
    \/ PlaybookExits(w) \/ PlaybookTimesOut(w)
    \/ FinalizeSource(w) \/ FinalizeSourceError(w)
    \/ Finish(w) \/ FinishError(w)

ControllerStep ==
    \/ CreateJob
    \/ SubmitUnchecked
    \/ \E j \in JobId : RequestReconcile(j) \/ SaveJob(j) \/ SaveFails(j) \/ RetryJob(j)

Next ==
    \/ \E w \in Workers : Start(w) \/ WorkerStep(w) \/ Crash(w)
    \/ OrphanExits
    \/ ControllerStep

Spec == Init /\ [][Next]_vars

\* The worker is restarted whenever it exits (restart: unless-stopped), its
\* loop never stops, and a playbook is waited for 900 seconds at most.
Fairness == \A w \in Workers : WF_vars(Start(w)) /\ WF_vars(WorkerStep(w))

FairSpec == Spec /\ Fairness

-----------------------------------------------------------------------------
(* Properties.                                                             *)

\* An apply that started on a host is never taken for a failed or queued job:
\* until reconciliation or success accounts for it, its row says applying or
\* reconcile_required, across crashes and lost writes (process, main.rs, and
\* recover_interrupted_jobs).
NoBlindRetry ==
    \A j \in touched : status[j] \in {"applying", "reconcile_required"}

\* A target never has two unresolved applies: each would refuse the other's
\* reconciliation job in claim_next_queued and in reconcile_ansible_job.
OneUnresolved ==
    \A j \in JobId : status[j] = "reconcile_required" => Others(j, {"reconcile_required"}) = {}

\* Worker w is between its claim and the UPDATE that ends the job.
Executes(w) ==
    pc[w] \in {"claimed", "planned", "ready", "applying", "running", "finalizing", "finishing"}

\* Two workers never wait for playbooks against one target at a time (the
\* claim query and the unique index).
WorkersApart ==
    \A v, w \in Workers :
        v # w /\ pc[v] = "running" /\ pc[w] = "running" => job[cur[v]].target # job[cur[w]].target

\* docs/SECURITY.md: the worker "enforces target-level job exclusivity".  No
\* playbook starts beside one that still runs, a timed-out one included.
OnePlaybookPerTarget ==
    /\ WorkersApart
    /\ \A w \in Workers : pc[w] = "running" => \A o \in orphans : job[o[2]].target # job[cur[w]].target

\* No job is executed by two workers at once (claim_next_queued).
NoSharedJob ==
    \A v, w \in Workers :
        v # w /\ Executes(v) /\ Executes(w) => cur[v] # cur[w]

\* Two workers keep off each other: no job is claimed by both, and no target
\* has a playbook of each (FOR UPDATE SKIP LOCKED and the unique index of
\* claim_next_queued).
WorkersSeparate == NoSharedJob /\ WorkersApart

\* Blind UPDATEs and recovery keep every row on the life cycle of
\* can_transition_to, but for the write that mark_job_applying loses.
RowLifecycle ==
    [][\A j \in JobId : Row(j) /\ status'[j] # status[j] =>
          \/ CanTransitionTo(status[j], status'[j])
          \/ status[j] = "planned" /\ status'[j] = "reconcile_required"]_vars

\* A claimed job always gets a final status or waits for reconciliation, with
\* the worker crashing at any point (recover_interrupted_jobs, process).
ExecutingSettles ==
    \A j \in JobId : status[j] \in Executing ~> status[j] \notin Executing

\* A queued job is taken up unless its target waits for reconciliation
\* (process polls, claim_next_queued takes the oldest).
QueuedProgresses ==
    \A j \in JobId :
        status[j] = "queued" ~>
            status[j] # "queued" \/ Others(j, {"reconcile_required"}) # {}

\* No job stands still for ever: a queued one is taken up, a claimed one
\* settles, although workers crash and playbooks exceed their time (the loop
\* of process, and recover_interrupted_jobs at every start).
JobsMoveOn == ExecutingSettles /\ QueuedProgresses

-----------------------------------------------------------------------------
(* What makes NoBlindRetry, OneUnresolved and the action properties        *)
(* inductive when there is one worker.                                     *)

\* The row of the job a worker holds is where the worker believes it is: no
\* other writer has moved it, and lost writes leave it behind, never ahead.
RowMatchesWorker ==
    \A w \in Workers :
        LET j == cur[w]  s == status[cur[w]]  apply == job[cur[w]].mode = "apply" IN
        /\ pc[w] = "selected" => s = "queued"
        /\ pc[w] = "claimed" => s = "checking" /\ st[w] = "checking"
        /\ pc[w] \in {"planned", "ready", "finalizing"} => s = "planned"
        /\ pc[w] = "applying" => s = "applying" /\ st[w] = "applying"
        /\ pc[w] = "running" => s = (IF apply THEN "applying" ELSE "planned")
        /\ pc[w] = "running" /\ apply => st[w] = "applying"
        /\ pc[w] = "finishing" =>
              /\ s \in Executing
              /\ s = "applying" => st[w] = "applying"
              /\ apply /\ st[w] = "applying" => s \in {"planned", "applying"}
              /\ ok[w] => s = (IF apply THEN "applying" ELSE "planned")
        /\ pc[w] = "finalizing" => job[j].mode = "reconcile"
        /\ pc[w] \in {"ready", "running", "finalizing"} /\ job[j].mode = "reconcile" =>
              job[j].src \in JobId /\ status[job[j].src] = "reconcile_required"

\* Recovery's snapshot is not stale.
SnapshotFresh ==
    \A w \in Workers :
        /\ pc[w] # "recovering" => todo[w] = {}
        /\ \A e \in todo[w] : status[e[1]] = e[2]

\* Only applies reach the statuses that recovery treats as half done.
ApplyStatuses ==
    \A j \in JobId : status[j] \in {"applying", "reconcile_required"} => job[j].mode = "apply"

\* The unique index.
OneExecuting ==
    \A j \in JobId : status[j] \in Executing => Others(j, Executing) = {}

\* Beside an unresolved apply only its reconciliation is claimed or executing.
UnresolvedHoldsTarget ==
    \A j \in JobId : status[j] \in Executing \/ Locked(j) =>
        \A u \in Others(j, {"reconcile_required"}) : Reconciles(j, u)

\* The inductive invariant of the single worker: what process, run, invoke and
\* recover_interrupted_jobs keep true of the rows between any two statements.
SafeInv ==
    /\ RowMatchesWorker
    /\ SnapshotFresh
    /\ ApplyStatuses
    /\ OneExecuting
    /\ UnresolvedHoldsTarget
    /\ NoBlindRetry
    /\ OneUnresolved

-----------------------------------------------------------------------------

\* Every unresolved apply can still be reconciled: the operation admits it and
\* its one reconciliation job is not used up (reconcile_ansible_job returns the
\* existing row of the key, retry needs a failed one).
UnresolvedCanSettle ==
    \A s \in JobId : status[s] = "reconcile_required" =>
        /\ CanReconcileApply(job[s].op)
        /\ \A r \in JobId : Row(r) /\ job[r].src = s => status[r] # "succeeded"
=============================================================================
