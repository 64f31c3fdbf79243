---------------------------- MODULE WindowsAgent ----------------------------
(***************************************************************************)
(* The workflows of one Windows target.  Its agent polls the controller    *)
(* for a queued job, runs it and repeats the report until the controller   *)
(* takes it; an update of the agent itself is run by a helper process that *)
(* stops the service, switches its binary and starts it again.  The        *)
(* recovery of an Ansible worker, which knows nothing of Windows, may      *)
(* change the same rows.                                                   *)
(***************************************************************************)
EXTENDS JobContract, Naturals, FiniteSets

CONSTANTS
  MaxWorkflows,        \* bound on jobs
  WorkflowKinds,  \* <<operation, mode>> pairs an operator submits
  MaxRecoveries,  \* bound on worker starts
  MaxReissues,     \* bound on operator retries
  MaxMishaps,      \* bound on lost answers, storage and sc errors, crashes, starts amid an update
  MaxResults      \* results the agent remembers (512)

ASSUME WindowsAssumption ==
  /\ {MaxWorkflows, MaxRecoveries, MaxReissues, MaxMishaps} \subseteq Nat
  /\ MaxResults \in Nat \ {0}
  /\ WorkflowKinds \subseteq Operation \X Mode
  /\ \A k \in WorkflowKinds : k[2] \in SupportedModes(k[1])

VARIABLES
  work,       \* the immutable part of each job
  state,      \* its status column
  agent,      \* the poller of the service's process
  results,    \* LocalAgentState::results: what the process remembers
  posts,      \* the controller's handlers of reported results
  updater,    \* the helper process of each update job
  service,    \* the service's configured binary
  runs,       \* how often each job's command was started on the host
  good,       \* jobs whose command or update succeeded on the host
  recovered,  \* jobs a worker's recovery took
  budget      \* recoveries, retries and faults so far

table == <<work, state>>
host == <<updater, service, runs, good>>
windowsVars == <<table, agent, results, posts, host, recovered, budget>>

WorkId == 1..MaxWorkflows
Free == [op |-> "none", mode |-> "none", src |-> 0]
Ended == [up |-> FALSE, pc |-> "idle", job |-> 0, ok |-> FALSE, bin |-> "old"]
Started(bin) == [Ended EXCEPT !.up = TRUE, !.bin = bin]
NoUpdater == [pc |-> "none", previous |-> "old", ok |-> FALSE]
Final == {"succeeded", "failed", "aborted", "reconcile_required"}

WindowsInit ==
  /\ work = [j \in WorkId |-> Free]
  /\ state = [j \in WorkId |-> "none"]
  /\ agent = Started("old") /\ results = {} /\ posts = {}
  /\ updater = [j \in WorkId |-> NoUpdater]
  /\ service = "old" /\ runs = [j \in WorkId |-> 0] /\ good = {}
  /\ recovered = {} /\ budget = [recoveries |-> 0, retries |-> 0, faults |-> 0]

Spend(kind, max) == budget[kind] < max /\ budget' = [budget EXCEPT ![kind] = @ + 1]
Fault == Spend("faults", MaxMishaps)
IsUpdate(j) == work[j].op = "update_agent" /\ work[j].mode = "apply"

----------------------------------------------------------------------------
(* The controller and the workers *)

InState(S) == {j \in WorkId : state[j] \in S}
Insert(j, spec) ==
  /\ \A i \in WorkId : i < j <=> state[i] # "none"
  /\ work' = [work EXCEPT ![j] = spec]
  /\ state' = [state EXCEPT ![j] = "queued"]
  /\ UNCHANGED <<agent, results, posts, host, recovered, budget>>

(* create_ansible_job of a Windows target: an allowlisted operation, and   *)
(* no job that holds the target.                                           *)
SubmitWindowsJob(j) ==
  /\ InState(Active) = {}
  /\ \E k \in WorkflowKinds : Insert(j, [op |-> k[1], mode |-> k[2], src |-> 0])

ReconcileWindowsJob(j) ==
  \E u \in WorkId :
    /\ CanBeReconciled([op |-> work[u].op, mode |-> work[u].mode, status |-> state[u]])
    /\ InState(Active) \subseteq {u}
    /\ \A i \in WorkId : work[i].src # u
    /\ Insert(j, [op |-> work[u].op, mode |-> "reconcile", src |-> u])

RetryWindowsJob(j) ==
  /\ CanRetry([op |-> work[j].op, mode |-> work[j].mode, status |-> state[j]])
  /\ state' = [state EXCEPT ![j] = "queued"]
  /\ Spend("retries", MaxReissues)
  /\ UNCHANGED <<work, agent, results, posts, host, recovered>>

(* Every interrupted job fails. *)
RecoverAsFailed ==
  /\ state' = [j \in WorkId |-> IF state[j] \in Executing THEN "failed" ELSE state[j]]
  /\ recovered' = recovered \cup InState(Executing)
  /\ Spend("recoveries", MaxRecoveries)
  /\ UNCHANGED <<work, agent, results, posts, host>>

(* A starting worker takes every executing job for its own lost one. *)
RecoverInterruptedJobs ==
  /\ state' = [j \in WorkId |-> IF state[j] = "applying" THEN "reconcile_required"
                                ELSE IF state[j] \in Executing THEN "failed" ELSE state[j]]
  /\ recovered' = recovered \cup InState(Executing)
  /\ Spend("recoveries", MaxRecoveries)
  /\ UNCHANGED <<work, agent, results, posts, host>>

----------------------------------------------------------------------------
(* Claiming *)

(* The oldest queued job, if none of the target executes. *)
ClaimableWindowsJob(j) ==
  /\ state[j] = "queued" /\ \A i \in WorkId : state[i] = "queued" => j <= i
  /\ InState(Executing) = {}

(* An apply waits in checking, as other modes do. *)
ClaimedChecking(j) == "checking"

ClaimedStatus(j) == IF work[j].mode = "apply" THEN "applying" ELSE "checking"
Claim(j) ==
  /\ agent.up /\ agent.pc = "idle" /\ ClaimableWindowsJob(j)
  /\ state' = [state EXCEPT ![j] = ClaimedStatus(j)]
  /\ UNCHANGED <<work, results, posts, host, recovered>>

ClaimNextWindowsJob(j) ==
  /\ Claim(j)
  /\ agent' = [agent EXCEPT !.pc = "run", !.job = j]
  /\ UNCHANGED budget

(* The claim took effect and its answer was lost. *)
ClaimAnswerLost(j) == Claim(j) /\ Fault /\ UNCHANGED agent

(* workflow_command refuses the version or a package id: the claimed job   *)
(* fails through the same handler a report uses.                           *)
RefuseCommand(j) ==
  /\ agent.up /\ agent.pc = "idle" /\ ClaimableWindowsJob(j)
  /\ work[j].op \in {"update_agent", "update_packages"}
  /\ state' = [state EXCEPT ![j] = ClaimedStatus(j)]
  /\ posts' = posts \cup
       {[job |-> j, to |-> "failed", pc |-> "update", live |-> FALSE]}
  /\ UNCHANGED <<work, agent, results, host, recovered, budget>>

----------------------------------------------------------------------------
(* The agent's process *)

Remember(j, ok) ==
  results' = (IF Cardinality(results) >= MaxResults THEN {} ELSE results) \cup {<<j, ok>>}

(* An update is handed to the helper; a command is started unless the      *)
(* process remembers the result of this job.                               *)
SpawnAgentUpdate ==
  /\ agent.up /\ agent.pc = "run" /\ IsUpdate(agent.job)
  /\ updater' = [updater EXCEPT ![agent.job] = [pc |-> "download", previous |-> agent.bin, ok |-> FALSE]]
  /\ runs' = [runs EXCEPT ![agent.job] = @ + 1]
  /\ agent' = [agent EXCEPT !.pc = "idle", !.job = 0]
  /\ UNCHANGED <<table, results, posts, service, good, recovered, budget>>

UpdateSpawnFails ==
  /\ agent.up /\ agent.pc = "run" /\ IsUpdate(agent.job)
  /\ agent' = [agent EXCEPT !.pc = "report", !.ok = FALSE]
  /\ Remember(agent.job, FALSE) /\ Fault
  /\ UNCHANGED <<table, posts, host, recovered>>

(* The lock on the results is never released. *)
ExecuteFirstCommand ==
  /\ agent.up /\ agent.pc = "run" /\ ~IsUpdate(agent.job) /\ results = {}
  /\ agent' = [agent EXCEPT !.pc = "running"]
  /\ runs' = [runs EXCEPT ![agent.job] = @ + 1]
  /\ UNCHANGED <<table, results, posts, updater, service, good, recovered, budget>>

(* What is reported of a result, remembered or new: the inventory is       *)
(* collected after a success, and an inventory workflow fails without it.  *)
Collected(j, ok) == IF work[j].op = "collect_package_inventory" THEN {ok, FALSE} ELSE {ok}

ExecuteWorkflowCommand ==
  /\ agent.up /\ agent.pc = "run" /\ ~IsUpdate(agent.job)
  /\ \/ /\ \E ok \in BOOLEAN :
            /\ <<agent.job, ok>> \in results
            /\ \E told \in Collected(agent.job, ok) : agent' = [agent EXCEPT !.pc = "report", !.ok = told]
        /\ UNCHANGED runs
     \/ /\ \A ok \in BOOLEAN : <<agent.job, ok>> \notin results
        /\ agent' = [agent EXCEPT !.pc = "running"]
        /\ runs' = [runs EXCEPT ![agent.job] = @ + 1]
  /\ UNCHANGED <<table, results, posts, updater, service, good, recovered, budget>>

(* A check of an agent update compares the running version. *)
CommandOutcomes(j) == IF work[j].op = "update_agent" THEN {agent.bin = "new"} ELSE BOOLEAN

(* The command ends and its result is remembered, before the inventory. *)
CommandEnds ==
  /\ agent.up /\ agent.pc = "running"
  /\ \E ok \in CommandOutcomes(agent.job) :
       /\ \E told \in Collected(agent.job, ok) : agent' = [agent EXCEPT !.pc = "report", !.ok = told]
       /\ Remember(agent.job, ok)
       /\ good' = IF ok THEN good \cup {agent.job} ELSE good
  /\ UNCHANGED <<table, posts, updater, service, runs, recovered, budget>>

(* The process ends: its memory and what it was doing are gone. *)
ProcessEnds ==
  /\ agent' = Ended /\ results' = {}
  /\ posts' = {[p EXCEPT !.live = (p.live /\ p.job # agent.job)] : p \in posts}

AgentCrashes ==
  /\ agent.up /\ ProcessEnds /\ Fault
  /\ UNCHANGED <<table, host, recovered>>

(* The service manager, at the start of the machine, or an operator starts *)
(* the service; a start in the middle of an update is one of the mishaps.  *)
BetweenUpdates == \A j \in WorkId : updater[j].pc \in {"none", "report", "wait", "done"}
ServiceStarts ==
  /\ ~agent.up /\ agent' = Started(service)
  /\ IF BetweenUpdates THEN UNCHANGED budget ELSE Fault
  /\ UNCHANGED <<table, results, posts, host, recovered>>

----------------------------------------------------------------------------
(* Reporting a result *)

Reporting(j) ==
  \/ agent.up /\ agent.job = j /\ agent.pc = "report"
  \/ updater[j].pc = "report"
Reported(j) == IF agent.up /\ agent.job = j /\ agent.pc \in {"report", "wait"}
               THEN agent.ok ELSE updater[j].ok

(* What the reporter does next: it waits, repeats the report or goes on. *)
Reporter(j, pc) ==
  IF agent.up /\ agent.job = j /\ agent.pc \in {"report", "wait"}
  THEN /\ agent' = [agent EXCEPT !.pc = pc, !.job = IF pc = "idle" THEN 0 ELSE j]
       /\ UNCHANGED updater
  ELSE /\ updater' = [updater EXCEPT ![j].pc = IF pc = "idle" THEN "done" ELSE pc]
       /\ UNCHANGED agent

ReportedStatus(j, ok) ==
  IF ok THEN "succeeded" ELSE IF work[j].mode = "apply" THEN "reconcile_required" ELSE "failed"

(* result_summary: a plan of package updates that lists none of them, or   *)
(* cannot be read, is not a success.                                       *)
Usable(j) == IF work[j].op = "update_packages" /\ work[j].mode = "plan" THEN BOOLEAN ELSE {TRUE}
Outcomes(j) == {ReportedStatus(j, Reported(j) /\ usable) : usable \in Usable(j)}

LoadJob(j) == state[j]

(* The transitions of the handler's copy, through planned if not an apply. *)
MayFinish(j, to) ==
  IF to = "succeeded" /\ work[j].mode # "apply"
  THEN CanTransitionTo(LoadJob(j), "planned") ELSE CanTransitionTo(LoadJob(j), to)

(* report_windows_agent_workflow loads the row: a final status is answered *)
(* at once, a transition the copy may not make is a conflict.              *)
ReportWindowsWorkflow(j) ==
  /\ Reporting(j)
  /\ \E to \in Outcomes(j) :
       \/ LoadJob(j) \in Final /\ Reporter(j, "idle") /\ UNCHANGED posts
       \/ /\ LoadJob(j) \notin Final /\ MayFinish(j, to)
          /\ posts' = posts \cup {[job |-> j, to |-> to, pc |-> "update", live |-> TRUE]}
          /\ Reporter(j, "wait")
       \/ /\ LoadJob(j) \notin Final /\ ~MayFinish(j, to)
          /\ UNCHANGED <<agent, updater, posts>>
  /\ UNCHANGED <<table, results, service, runs, good, recovered, budget>>

(* persist_result writes the row by id, then the events one by one. *)
PersistUpdate(p) ==
  /\ p \in posts /\ p.pc = "update"
  /\ state' = [state EXCEPT ![p.job] = p.to]
  /\ posts' = (posts \ {p}) \cup {[p EXCEPT !.pc = "events"]}
  /\ UNCHANGED <<work, agent, results, host, recovered, budget>>

PersistEvents(p) ==
  /\ p \in posts /\ p.pc = "events"
  /\ posts' = posts \ {p}
  /\ IF p.live THEN Reporter(p.job, "idle") ELSE UNCHANGED <<agent, updater>>
  /\ UNCHANGED <<table, results, service, runs, good, recovered, budget>>

(* A storage error: the reporter is told and repeats the report. *)
PersistFails(p) ==
  /\ p \in posts /\ Fault
  /\ posts' = posts \ {p}
  /\ IF p.live THEN Reporter(p.job, "report") ELSE UNCHANGED <<agent, updater>>
  /\ UNCHANGED <<table, results, service, runs, good, recovered>>

(* The answer is lost or late; the handler goes on. *)
ReportAnswerLost(p) ==
  /\ p \in posts /\ p.live /\ Fault
  /\ posts' = (posts \ {p}) \cup {[p EXCEPT !.live = FALSE]}
  /\ Reporter(p.job, "report")
  /\ UNCHANGED <<table, results, service, runs, good, recovered>>

----------------------------------------------------------------------------
(* The helper process of an update *)

Helper(j, pc) == updater' = [updater EXCEPT ![j].pc = pc]
HelperEnds(j, ok) ==
  /\ updater' = [updater EXCEPT ![j].pc = "report", ![j].ok = ok]
  /\ good' = IF ok THEN good \cup {j} ELSE good

(* The manifest names the artifact's checksum; the bytes, and later the    *)
(* staged file, have it and are a Windows executable, or the update fails. *)
ArtifactValid == BOOLEAN

DownloadArtifact(j) ==
  /\ updater[j].pc = "download"
  /\ \E valid \in ArtifactValid :
       IF valid THEN Helper(j, "stage") /\ UNCHANGED good ELSE HelperEnds(j, FALSE)
  /\ UNCHANGED <<table, agent, results, posts, service, runs, recovered, budget>>

(* There is nothing to do when the helper is the new binary itself. *)
UpdateAgentBinary(j) ==
  /\ updater[j].pc = "stage"
  /\ \E valid \in ArtifactValid :
       IF updater[j].previous = "new" THEN HelperEnds(j, TRUE)
       ELSE IF valid THEN Helper(j, "stop") /\ UNCHANGED good ELSE HelperEnds(j, FALSE)
  /\ UNCHANGED <<table, agent, results, posts, service, runs, recovered, budget>>

(* sc stop ends the process and whatever the poller was doing.  It fails   *)
(* when the service is not running; when it fails otherwise, or the wait   *)
(* for it times out, the process may have ended or not.                    *)
StopService(j) ==
  /\ updater[j].pc = "stop"
  /\ \/ agent.up /\ ProcessEnds /\ Helper(j, "switch") /\ UNCHANGED <<good, budget>>
     \/ agent.up /\ ProcessEnds /\ HelperEnds(j, FALSE) /\ Fault
     \/ agent.up /\ HelperEnds(j, FALSE) /\ Fault /\ UNCHANGED <<agent, results, posts>>
     \/ ~agent.up /\ HelperEnds(j, FALSE) /\ UNCHANGED <<agent, results, posts, budget>>
  /\ UNCHANGED <<table, service, runs, recovered>>

SwitchService(j) ==
  /\ updater[j].pc = "switch"
  /\ \/ service' = "new" /\ Helper(j, "start") /\ UNCHANGED budget
     \/ Helper(j, "restore") /\ Fault /\ UNCHANGED service
  /\ UNCHANGED <<table, agent, results, posts, runs, good, recovered>>

(* sc start fails when the service runs already. *)
StartService(j) ==
  /\ updater[j].pc = "start"
  /\ \/ ~agent.up /\ agent' = Started(service) /\ Helper(j, "verify") /\ UNCHANGED budget
     \/ agent.up /\ Helper(j, "rollback") /\ UNCHANGED <<agent, budget>>
     \/ ~agent.up /\ Helper(j, "rollback") /\ Fault /\ UNCHANGED agent
  /\ UNCHANGED <<table, results, posts, service, runs, good, recovered>>

(* The health route answers with the new version, or 30 attempts go by. *)
WaitForAgentVersion(j) ==
  /\ updater[j].pc = "verify"
  /\ \/ agent.up /\ agent.bin = "new" /\ HelperEnds(j, TRUE) /\ UNCHANGED budget
     \/ Helper(j, "rollback") /\ UNCHANGED good /\ (IF agent.up /\ agent.bin = "new" THEN Fault ELSE UNCHANGED budget)
  /\ UNCHANGED <<table, agent, results, posts, service, runs, recovered>>

(* The stop before the rollback; its failure is ignored. *)
StopForRollback(j) ==
  /\ updater[j].pc = "rollback"
  /\ Helper(j, "restore")
  /\ \/ agent.up /\ ProcessEnds /\ UNCHANGED budget
     \/ UNCHANGED <<agent, results, posts>> /\ (IF agent.up THEN Fault ELSE UNCHANGED budget)
  /\ UNCHANGED <<table, service, runs, good, recovered>>

RestoreService(j) ==
  /\ updater[j].pc = "restore"
  /\ \/ /\ service' = updater[j].previous
        /\ IF agent.up THEN UNCHANGED agent ELSE agent' = Started(service')
        /\ UNCHANGED budget
     \/ Fault /\ UNCHANGED <<service, agent>>
  /\ HelperEnds(j, FALSE)
  /\ UNCHANGED <<table, results, posts, runs, recovered>>

(* The helper is killed, or ends without a report because its              *)
(* configuration is refused or no client can be built: nobody tells the    *)
(* controller of the update, whatever became of it.                        *)
HelperLost(j) ==
  /\ updater[j].pc \notin {"none", "done"} /\ Helper(j, "done") /\ Fault
  /\ posts' = {[p EXCEPT !.live = (p.live /\ p.job # j)] : p \in posts}
  /\ UNCHANGED <<table, agent, results, service, runs, good, recovered>>

----------------------------------------------------------------------------
AgentStep ==
  \/ SpawnAgentUpdate \/ UpdateSpawnFails \/ ExecuteWorkflowCommand \/ CommandEnds
  \/ AgentCrashes \/ ServiceStarts
HelperStep(j) ==
  \/ DownloadArtifact(j) \/ UpdateAgentBinary(j) \/ StopService(j) \/ SwitchService(j) \/ StartService(j)
  \/ WaitForAgentVersion(j) \/ StopForRollback(j) \/ RestoreService(j)
HandlerStep ==
  \E p \in posts : PersistUpdate(p) \/ PersistEvents(p) \/ PersistFails(p) \/ ReportAnswerLost(p)

WindowsNext ==
  \/ AgentStep \/ HandlerStep \/ RecoverInterruptedJobs
  \/ \E j \in WorkId :
       \/ SubmitWindowsJob(j) \/ ReconcileWindowsJob(j) \/ RetryWindowsJob(j)
       \/ ClaimNextWindowsJob(j) \/ ClaimAnswerLost(j) \/ RefuseCommand(j)
       \/ ReportWindowsWorkflow(j) \/ HelperStep(j) \/ HelperLost(j)

(* The poller, the handlers and the helper are loops and futures that run  *)
(* on; nothing is assumed of operators, workers and faults.                *)
WindowsFairness ==
  /\ WF_windowsVars(SpawnAgentUpdate \/ ExecuteWorkflowCommand \/ CommandEnds)
  /\ \A j \in WorkId : WF_windowsVars(ReportWindowsWorkflow(j)) /\ WF_windowsVars(HelperStep(j))
  /\ WF_windowsVars(\E p \in posts : PersistUpdate(p) \/ PersistEvents(p))
WindowsSpec == WindowsInit /\ [][WindowsNext]_windowsVars
WindowsFairSpec == WindowsSpec /\ WindowsFairness

----------------------------------------------------------------------------
(* Properties *)

(* The variables have their types. *)
WindowsTypeOK ==
  /\ work \in [WorkId -> [op : Operation \cup {"none"}, mode : Mode \cup {"none"}, src : 0..MaxWorkflows]]
  /\ state \in [WorkId -> Status \cup {"none"}]
  /\ good \subseteq WorkId /\ recovered \subseteq WorkId
  /\ agent \in [up : BOOLEAN, pc : {"idle", "run", "running", "report", "wait"},
                job : 0..MaxWorkflows, ok : BOOLEAN, bin : {"old", "new"}]
  /\ results \subseteq WorkId \X BOOLEAN /\ Cardinality(results) <= MaxResults
  /\ posts \subseteq [job : WorkId, to : Final, pc : {"update", "events"}, live : BOOLEAN]
  /\ updater \in [WorkId -> [pc : {"none", "download", "stage", "stop", "switch", "start", "verify",
                                   "rollback", "restore", "report", "wait", "done"},
                             previous : {"old", "new"}, ok : BOOLEAN]]
  /\ service \in {"old", "new"} /\ runs \in [WorkId -> Nat]

(* The command of an apply, or the helper of an agent update, is started   *)
(* at most once, whatever claims, reports, recoveries, retries and crashes *)
(* repeat.                                                                 *)
AppliedOnce == \A j \in WorkId : work[j].mode = "apply" => runs[j] <= 1

(* A job is shown as succeeded only if its own command, or its own update, *)
(* has succeeded on the host.                                              *)
SucceededOnHost == \A j \in WorkId : state[j] = "succeeded" => j \in good

(* A job that executes in the table is in the hands of the agent, a helper *)
(* or a handler: a job nobody works on needs a fault or a recovery.        *)
InSomeonesHands ==
  budget.faults = 0 /\ recovered = {} =>
    \A j \in WorkId : state[j] \in Executing =>
      \/ agent.up /\ agent.job = j
      \/ updater[j].pc \notin {"none", "done"}
      \/ \E p \in posts : p.job = j

(* While no recovery took an update from its helper, one fault (of sc, of  *)
(* the new agent, of a report) is tolerated: an update shown as succeeded  *)
(* is the service's binary, whatever rollbacks other updates went through. *)
UpdateInstalled ==
  recovered = {} /\ budget.faults <= 1 => \A j \in WorkId : IsUpdate(j) /\ state[j] = "succeeded" => service = "new"

(* A report repeated for good would keep the poller from every later job:  *)
(* what a reporter sends is a transition its job may make, or the job is   *)
(* final already, until an operator queues a job again.                    *)
ReportAcceptable ==
  budget.retries = 0 => \A j \in WorkId :
    Reporting(j) => state[j] \in Final \/ \A to \in Outcomes(j) : MayFinish(j, to)

(* What the table says of a Windows job is what happened on the host: no    *)
(* apply ran twice, a success is one of its own command, and an update      *)
(* shown as succeeded is installed, whatever the claim, the agent's cache,  *)
(* the helper's rollback and the worker's recovery did.                     *)
TableTellsHost == WindowsTypeOK /\ AppliedOnce /\ SucceededOnHost /\ UpdateInstalled

(* Nothing holds the target for good: a job that executes is in someone's   *)
(* hands, and what its reporter sends is accepted (claim_next_windows and   *)
(* finish_agent_workflow).                                                  *)
NobodyHoldsForGood == InSomeonesHands /\ ReportAcceptable

(* A claimed job gets its result although the agent may replace itself     *)
(* meanwhile, unless a fault or a recovery intervenes.                     *)
ClaimedJobsFinish ==
  \A j \in WorkId :
    state[j] \in Executing ~> state[j] \in Final \/ budget.faults > 0 \/ recovered # {}

(* docs/API.md: a reconcile_required job keeps the target locked until its *)
(* explicit reconciliation finishes.                                       *)
ReconciliationUnlocks ==
  \A j \in WorkId : work[j].mode = "reconcile" /\ state[j] = "succeeded"
                      => state[work[j].src] # "reconcile_required"
=============================================================================
