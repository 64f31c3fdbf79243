# lxcup: a TLA+ verification project

lxcup is a controller for fleets of Linux containers, Linux hosts and Windows
machines. It plans and applies package updates, deploys its own agents with
Ansible, keeps recurring schedules, operator accounts, secrets and encrypted
backups. This directory holds TLA+ models of its concurrent core, the TLC
configurations that check them on small instances, and TLAPS proofs of the
properties that matter most. Paths below are relative to the repository.

Contents: [the system](#1-the-system), [modules](#2-modules-and-how-they-correspond-to-the-code),
[runs](#3-what-the-runs-check), [known disagreements](#4-known-disagreements-between-code-and-documentation),
[proofs](#5-proofs), [what is not modelled](#6-what-is-not-modelled), [plan](#7-plan).

## 1. The system

Four kinds of process share one PostgreSQL database:

* the **controller** (`crates/lxcup-server`), an axum server on tokio. It keeps
  most of its state twice: in memory (`ApiStore` behind an async `RwLock`, the
  coordinators behind locks of their own) and in tables. It runs two background
  loops, the scheduler (30 s) and the onboarding poller;
* one or more **Ansible workers** (`crates/lxcup-ansible-worker`) that poll the
  table `ansible_jobs` and run `ansible-playbook`;
* **agents** (`crates/lxcup-agent`) on the targets, called by the controller
  over HTTP, sending heartbeats and, on Windows, polling for workflows;
* the browser and other clients of the REST API.

| Component | State | Operations | What makes it correct |
|---|---|---|---|
| Job contract (`lxcup-ansible`) | none | status graph, retry and reconcile rules | every status change is an edge of `can_transition_to` |
| Job queue (`repositories/ansible_jobs.rs`, migrations 0006, 0028) | table `ansible_jobs`, a partial unique index | save, update, claim, retry | no job on two workers, one job per target, an apply that may have touched a host is never silently retried |
| Ansible worker | the claimed job, its copy of the status, the playbook process | recover, claim, check, plan, apply, reconcile, finish | rows survive crashes, lost answers, timeouts; claimed jobs settle |
| Job API (`workflows/jobs.rs`, `workflows/reconciliation.rs`, `workflows/package_policy.rs`) | `AnsibleJobCoordinator` in memory | create, follow-ups, reconcile, retry | at most one unresolved apply per target, and it can be resolved; an apply rests on its own plan |
| Job events (`ansible_job_events`) | numbered rows per job, a primary key | append by request, worker, claim, retry, recovery, events page | numbers without holes, the told status is the row's |
| Windows workflows, service and updater (`windows_agent_workflows.rs`, `workflow_client.rs`, `windows_service.rs`) | rows of the same table, the agent's results, helper processes, the service's binary | submit, claim, command, report, update, roll back | an apply runs once, success means success on the host, the poller is never stuck |
| Recurring schedules (`schedules.rs`, `scheduled_jobs.rs`, `lib.rs`) | `store.schedules`, table `schedules`, idempotency keys | create, toggle, poll, dispatch, advance, restore | a slot is queued once, one catch-up after downtime, due schedules run |
| Targets and update policies (`targets.rs`, `target_credentials.rs`, `policies.rs`) | `store.targets`, `store.update_policies`, tables | create, delete, invalidate, heartbeat, policy changes | nothing in use refers to what was removed; the standard policy covers every target |
| Accounts and sessions (`user_auth.rs`, `user_admin.rs`, `inventory/auth.rs`, `repositories/auth.rs`) | `auth_users`, `auth_sessions`, audit events, an advisory lock | login, logout, password, create, update, delete, reset | the last administrator stays, sessions do not revive, logins are audited |
| Plans and executions (`inventory/execution.rs`, `lxcup-execution`, `lxcup-planner`) | plans, `ExecutionCoordinator`, store copies, rows | plan, confirm, run, abort, reconcile | a plan is executed once, by one request, and its result is the accepted one |
| Agent command and its client (`lxcup-agent`) | answer cache of 512 entries | command with retries | a reported success is a success of apt |
| Backups (`backups.rs`) | `backup_gate`, staging and archive files | manual and scheduled backup, list, download, prune | an archive is whole and a snapshot of both stores at one moment; it stays for the retention; nobody waits for ever |
| Secret store (`lxcup-secrets`, `agent/secrets.rs`) | a metadata and a value file per secret, audit entries | create, read, update, rewrap, revoke, delete | the two files behave as one record; changes are audited |
| Agent registration (`agent.rs`) | `state.agents`, `agent_registrations` | register, health, revoke, restore | no client keeps a credential that was rotated away |
| Enrollment and onboarding (`workflows/enrollment.rs`, `workflows/reconciliation.rs`) | enrollments in memory, job rows, coordinator | create, poll, tick, follow-ups | follow-ups come in order, once, and do come |
| Admin terminal (`terminal.rs`, `terminal/terminal_ssh.rs`) | registry of leases, SSH channels | open, pass on, recheck rights, close | limits, nothing passed on without rights, a session that is not kept waiting ends |
| Heartbeats, telemetry and alerts (`targets/heartbeat.rs`, `telemetry_alerts.rs`) | the agent's buffer, `target_telemetry_samples`, inventories | sample, heartbeat of the loop and of the poller, acknowledge, evaluate | a sample is stored in its time and once, an answered heartbeat left no hole, nothing unacknowledged is forgotten, alerts are sustained |
| Scans (`inventory.rs`, `lxcup-apt`, `agent_routes.rs`) | `store.scans`, the agent's answers | start, run, list, parse | a succeeded scan shows what the agent read of apt's list while it ran |
| Planner (`lxcup-planner`, `lxcup-core/plan.rs`) | none | build, canonical form, revalidate | plans are judged by their content, unsafe changes are blocked |
| Worker health and agent artifacts (`artifact_store.rs`, `agent_artifacts.rs`, `worker.rs`) | the row of `worker_heartbeats`, downloaded files | probe, heartbeat, resolve, download, verify | a live worker counts as available, a dead one does not; a playbook gets verified binaries of one manifest |
| Docker discovery and updates (`agent/docker.rs`, `target_docker.rs`) | inventory and event rows, discovery runs, adopted workloads | discover, lifecycle, image update, prune events, adopt, remove | the history agrees with the inventory, a reported update replaced its container |

How they interact. The controller and the workers never call each other: they
communicate through `ansible_jobs` alone. A worker's `update` is an `UPDATE ...
WHERE id = $1` that overwrites whatever the row holds, so each side may act on a
copy that is out of date. The scheduler inserts jobs into the same table. API
handlers change memory under the store's lock, release it, and write the clone
they took to the table afterwards. `delete_target`, the scheduler and the
onboarding poller share `scheduler_lock`; every mutating request holds
`backup_gate` for reading and a backup holds it for writing. An execution calls
the agent over HTTP with retries and a timeout that is shorter than the command.

The behaviours that are hard: statements of several processes in any order;
crashes between any two of them; a `COMMIT` whose answer is lost; a timeout that
ends the waiting and not the work; retries of what is already done; restarts that
reload tables some handler has not written yet; two locks held across awaits;
requests whose future is dropped when the client disconnects. `PROJECT.json`
lists each of them as a hazard, at the line where it bites.

## 2. Modules and how they correspond to the code

`PROJECT.json` maps each definition to its lines. The rule for the grain of an
action is the same everywhere: one action is what the code does between two
points at which another actor can observe or change the state (a committed
statement or transaction; the code between two awaits; a critical section).
A definition that stands directly before another one and has its parameters
(`NoIndex` before `IndexAllows`, `UnguardedPoll` before `Poll`) is a mutant of it:
a plausible bug that must break a property, used by nothing else.

**JobContract** has no state: the operations, modes and statuses of
`lxcup-ansible`, the status graph, which job may be retried or reconciled.

**JobQueue** is the table, the workers and the job routes.
`job` is the immutable part of each job, `status` the column, or `pending` while
the controller holds the job only in memory and its `INSERT` is under way. Each
worker has a program counter `pc`, the claimed job `cur`, its own copy of the
status `st`, the verdict `ok` and the rest of recovery's snapshot `todo`.
`touched` records the applies whose playbook has started and that neither
success nor reconciliation has accounted for; `orphans` the playbooks nobody
waits for any more. `ClaimSelect` is `SELECT ... FOR UPDATE SKIP LOCKED` (the row
lock is `pc = "selected"`), `ClaimCommit`, `ClaimRollback` and `ClaimLost` are the
three ways its transaction ends, the last one with the answer of a successful
`COMMIT` lost. `Update` is the blind `UPDATE`. `MarkPlanned`, `MarkApplying`,
`SpawnPlaybook`, `PlaybookExits`, `PlaybookTimesOut`, `FinalizeSource` and
`Finish` follow `process`, `run` and `invoke`; each has an error twin for a
failed statement, in which the worker's copy and the row part ways as in the
code. `Start` and `RecoverJob` are `recover_interrupted_jobs`. `Crash` may happen
at every step. `CreateJob`, `SubmitUnchecked` (deployment follow-ups, which skip
the active-job check), `RequestReconcile`, `SaveJob`, `SaveFails` and `RetryJob`
are the controller. Targets are Linux targets: the Windows agents use other
claim queries on the same table (WindowsAgent).

**JobEvents** is the life of one job seen through `ansible_job_events`. The
creating request (`SaveJobRow`, `AppendQueued`), the worker (`ReadLength`,
`WriteEvent`: `event()` reads the list and inserts with its length plus one), claim
and retry (the maximum plus one, in their transaction), `RecoverRow` and the
events page (`ReadEvents`, `FindJob`, `AppendFailed`) number the same rows; the
primary key decides, and a writer that loses gives up as in the code.

**WindowsAgent** is one Windows target: the submit, reconcile and retry routes,
the claim, the poller with the results it remembers, the command, the report it
repeats, the controller's handler in two writes (`PersistUpdate`,
`PersistEvents`), the helper process of a self-update with its rollback, and the
recovery of an Ansible worker, which takes the same rows. `Collected` is the package
inventory after a command or after a result the agent remembers, which can turn the
told result into a failure. The service may be started amid an update
(`ServiceStarts`), `sc stop` may fail or time out with the process still up, the agent
may crash, and the helper may end without a report (`HelperLost`).

**Schedules** keeps every list twice, in memory and in its table. A client with
`pc = "write"` is a handler that has changed memory and still holds the clones it
will upsert. `Poll`, `NextSchedule`, `DispatchTarget`, `SaveJob`, `Advance`,
`PersistAdvance` and `EndPoll` are one call of `dispatch_due_schedules` under
`scheduler_lock`. A mutating request is behind `backup_gate` from its start to its
answer; a scheduled backup waits for those that are (`sch.pc = "gate"`, with the lock
held) and lets none in until its tools have ended. `Restart(lost)` is a new process: it reloads the tables, and a
list whose `SELECT` fails stays empty, as `restore_*` leaves it. The verdict of a
telemetry threshold is a nondeterministic choice. A job is queued, active or
done.

**Accounts** has the two tables, the request of each client and the holder of the
advisory lock. `update_user` and `delete_user` are three steps (take the lock,
count, write) because other statements may run between them; any other write is
one transaction and one step. `LoginVerify`, `LoginAppendAudit`,
`LoginSaveSession`, `LoginComplete` and `LoginRollback` are the statements of
`auth_login`; `Authenticate`, `ReserveAudit` and `Answer` the middleware around
every mutating request, which keeps the actor it found first. Password hashing
and the rate limiter are left out: the model's login always knows the password.

**Executions** has plans, the coordinator (`exec`, `key`), the store's copies
(`view`, `result`), the rows, one record per API request and, for every attempt
of an agent command, where it is (`call`). `Timeout` is the client giving an
attempt up: the agent may go on with it, the runtime may drop the handler while
apt goes on (`orphan`), or the request never arrived. `AgentCommand` looks the
cache up, `CommandEnds` inserts the answer, `CacheCleared` is the reset at 512
entries. Nothing is restored after `ControllerRestart`.

**PackageUpdates** follows a package request through its awaits: the policy in
memory, the plan's row, the list of rows, the coordinator, the `INSERT`; beside it
policies change, the clock runs (`InWindow` is the window over midnight), the tick
queues the inventory after an apply, and the controller restarts.
**UpdatePolicies** is the shared standard policy, in memory and as a row, that
`create_target`, `list_update_policies` and the restart each extend from what they
read before.

**Terminal** has the
registry of leases, the steps of opening a session, and the `select!` loop: its
deadlines, the recheck of the administrator's rights, one waiting message per
direction, ends of either stream. What the controller does by itself (`OwnStep`) is
apart from what waits for browser or host (`PeerStep`: the shell's request, a message
or a notice taken, the close): a deadline is served between messages only, and first
sends its notice (`SendNotice`). Time passes in recheck intervals (`Interval`).

**Onboarding** is one container's enrollment: creation, the pages' polls and the
controller's tick, each read and each write an action, follow-up keys in the
coordinator and as rows, heartbeat, reset of the target, restart. Executing a job
is an outcome (`RunJob`).

**AgentRegistration** has the clients in memory with the credential each carries,
the registrations table, the requests in flight and the audit log of secret
changes. It uses **SecretRegister**, the abstract store: one record per secret,
every operation one step. **SecretStore** is the provider that is deployed:
metadata and value are two files, each written by emptying and filling it, by
several threads without a lock. `ImplementsRegister` says that it implements
SecretRegister under the mapping `RecordOf`; a secret whose changes overlapped or
stopped half-way maps to `unspecified`, for which the abstract store promises
nothing.

**Heartbeats** is an agent's sample buffer and inventory, the heartbeats of its loop
and of the Windows workflow poller on their way at once, the handler's statements with
the transaction of the samples, and the two clocks with their skew. Neither client
has a timeout: a heartbeat takes any time, fails at any statement, or is given up
while its handler goes on. **TelemetryAlerts**
is a pure algorithm: `SustainedStart` is the loop of
`evaluate_telemetry_thresholds`, checked against its definition (`LongEnough`)
over every series of samples within the bounds.

**DockerUpdates** is one Compose service: registry, tag and container on the host,
the controller's handlers, the agent's handler of each attempt, which goes on when
the client has given it up, and the saved inventory with its events, which the daily
`prune_expired_events` (`PruneExpiredEvents`) shortens and sorts by time.
**DockerDiscovery** is the discovery run of an agent's host under
`docker_discovery_lock`, statement by statement, beside adoption and removal.

**BackupGate** has the two locks that are held across awaits, with the queues of
tokio's fair implementations, the tasks that take them and two stores of which a
`change` (modelled on `rotate_secret`) writes the secret store first and the
database second. A backup's dump and copy run on a blocking thread that survives
the request (`job`); `Drop` is a client that disconnects. **BackupFiles** is the
blocking thread itself, file by file: staging, the copy of the secret files while
they come and go, the comparison of their ids, encryption under a hidden name,
rename, pruning, answer; backups may overlap, any step may fail, the process may
stop.

**Scans** follows a scan from `start_scan` over the agent's command, with the
client's retries and the agent's memory of answers by key, to `build_scan`. A text
is a sequence of lines of `Key: value` fields, so that what `normalize_apt_list`
drops (`Unreadable`) and writes, `safe_detail` does to it and `parse_output` reads can be told apart.
**Planner** is a pure algorithm: `Build` and `Verdict` are `build` and
`revalidate`, compared with what the content of two plans says, over every pair of
requests and changes within the bounds. **WorkerHealth** is the worker's task that
probes the artifact store and writes heartbeats, in seconds and with the code's own
intervals, beside the main loop that reads a manifest, downloads and verifies
binaries, while files and manifests are published, the store fails and the worker
restarts.

Modules without shared state are checked side by side in one run: the MC module
has a variable `part` that is chosen in the initial state, and a behaviour is about
that part while the others rest. `MCQueueFaults` has JobQueue, JobEvents
and, from `MCInventory`, Scans, Planner and WorkerHealth,
`MCOperations` Executions and Terminal, `MCAgents` WindowsAgent and Onboarding,
`MCReports` the two Docker modules and Heartbeats, `MCStores` the seven modules about
what the controller keeps. `MCQueue` and `MCSchedules` use `part` for two and three
shapes of one system, each a condition on the states it reaches. `MCJobQueue`, `MCAccounts`,
`MCWindows` and `MCBackupGate` hold constants and symmetry sets. The theorems are
in the eight modules whose names end in `Proofs`; each extends the components it is
about: `JobQueueProofs` JobQueue, WorkerHealth and WindowsAgent, `SchedulesProofs`
Schedules and JobEvents, `OperationsProofs` Executions, Terminal, Onboarding, Planner,
Scans and TelemetryAlerts, `UpdatesProofs` UpdatePolicies, PackageUpdates and
Heartbeats, `SecretStoreProofs` SecretStore and AgentRegistration, `DockerProofs` the
two Docker modules, `BackupsProofs` BackupFiles and BackupGate, `AccountsProofs`
Accounts.

## 3. What the runs check

`tlc -workers 2 -config <run>.cfg <module>`. State counts are distinct states.

| Run | Module | Instance | States | Shows |
|---|---|---|---|---|
| `queue_faults` | MCQueueFaults | 1 worker, 1 target, 3 jobs, 1 retry, 2 crashes or lost database answers; and the events of 1 job, 2 page views, 1 retry, 1 loss; 2 scans, 1 retry, 2 events; plans of up to 2 changes; heartbeats with the code's times, 3 publications | 2.3M | the single worker of `compose.yaml` never lets a started apply be retried blindly (`NoBlindRetry`), never leaves two unresolved applies (`OneUnresolved`), and keeps rows on the status graph but for one known lost write (`RowLifecycle`). The events tell what happened to the job (`EventsTellTheJob`): numbers without holes, no writer appends to a list it has not seen, the last told status is the row's. A succeeded scan hides nothing the agent could read and is built of a list printed while it ran (`ScansTrue`); revalidation accepts exactly the plans with the same content, and only safe ones are confirmed (`PlansJudgedByContent`); the controller's picture of the worker is true within its window, and playbooks get verified binaries (`WorkerToldTruly`) |
| `queue_live` | MCQueue | 1 worker, 3 jobs, crashes and timeouts, or 2 workers, 2 targets, 2 jobs, no restart; fair | 123k | `SKIP LOCKED` and the unique index keep two workers off each other's job and target (`WorkersSeparate`); a claimed job settles, a queued one is taken up unless its target waits for reconciliation (`JobsMoveOn`) |
| `schedules` | MCSchedules | 1 schedule, 2 clients, 3 clock values, 2 faults; or 2 targets, 1 policy, removals beside runs; or a scheduled backup beside removals behind the gate; fair | 673k | a slot is queued at most once although rows are written late, lost or overwritten (`SlotOnce`); one catch-up per poll (`OneCatchUp`); a due schedule is run, paused or removed unless no worker stays up, a backup's tools never end, or a scheduled backup and a `delete_target` wait for each other (`DueScheduleRuns`); within one process nothing in memory or in a run refers to a removed target (`ScopesRegistered`) |
| `accounts` | MCAccounts | 2 accounts, 2 sessions, 2 requests, 1 storage error | 1.6M | the last active administrator stays (`AdminRemains`), a session that lost its validity never gets it back (`SessionsNeverRevive`), no cookie without its completed login event (`IssuedIsLogged`), no lock left behind (`LockReleased`) |
| `operations` | MCOperations | 1 plan, 2 executions, 2 keys, 2 clients, 1 retry, 1 fault; 2 terminal sessions, 1 administrator who may lose the rights; fair | 183k | a plan is executed at most once, one request commands the agent, the stored result is the accepted one and a success was a success of apt (`ExecutionsTrue`); open shells keep to the limits and nothing of someone without rights is passed on (`ShellsGuarded`); every request is answered, and every session gives its place back unless browser or host leave it waiting for ever (`EveryoneAnswered`) |
| `agents` | MCAgents | 2 Windows jobs, 1 recovery, 1 retry, 1 mishap; 1 enrollment, 1 page and the tick, 2 of: loss, restart, retry, reset; fair | 297k | what the table says of a job happened on the host: an apply is started once, a success is its own command's, a succeeded update is installed (`TableTellsHost`); an executing job is in someone's hands and repeated reports can be accepted (`NobodyHoldsForGood`); claimed jobs finish (`ClaimedJobsFinish`). Follow-ups come in order and without conflict (`PollsKeepOrder`), they arrive and the enrollment settles (`OnboardingCompletes`) |
| `reports` | MCReports | 2 clients, 3 requests, 2 images, 1 retry, 3 events kept; 2 discoveries, 2 workloads, 1 mistake; 7 seconds of heartbeats of 2 senders, 1 of them failing, or 2 inventories | 3.2M | the event history agrees with the inventory, after out-of-order saves and after prunes of a history that was in order (`EventsAgree`), an update reported as a success replaced its container (`SuccessReplaced`), what is shown as present was seen by the latest run and adoption survives discovery (`DiscoveryFaithful`). However long heartbeats take, a row has its sample's time and the delay, no sample is stored twice for one delay and none of an answered heartbeat is missing (`TimelineFaithful`); an inventory the agent forgets was stored or found invalid (`ForgottenIsStored`) |
| `stores` | MCStores | 3 requests and 2 backups; 2 backup files, 1 secret, 3 days; 3 holders of 1 secret, 4 operations, 1 mishap; 3 calls of 2 secrets; series of 5 samples; 4 policy requests; 4 update jobs | 808k | an archive holds both stores of one moment (`ArchivesAgree`), is whole and stays for the retention (`ArchivesSafe`); the secret files implement the register and reads are answered as by it (`ImplementsRegister`); rotated credentials are dropped and audited (`SecretChangesThrough`); `AlertsAreSustained`; `StandardPolicyRepaired`; an apply rests on its plan and its window (`AppliesWerePermitted`), once (`OncePerPlan`) |
| `timeout_orphan` | MCJobQueue | 1 worker, 2 checks, 1 timeout | violation | section 4, item 1 |
| `second_reconciliation` | MCJobQueue | 1 worker, 2 jobs, 1 retry | violation | section 4, item 2 |
| `backup_lock_order` | MCBackupGate | 1 removal, 1 scheduled backup, fair | violation | section 4, item 3 |
| `windows_reconcile` | MCWindows | 2 Windows jobs, no fault | violation | section 4, item 4 |

**Bounds.** Three jobs on one target are the least that allow an unresolved
apply, its reconciliation and a bystander; two retries would only repeat the
cycle. Two faults let the second one hit the recovery from the first. Two
clients are two handlers between any two steps of which the other may act; every
race listed as a hazard is between two of them. The clock of `Schedules` has
three values: created, due, and one slot missed. One retry of the agent client is
what lets an answer arrive after its attempt was given up. Two sessions are one
for the administrator who changes an account and one for a login of that account
in flight. Two Windows jobs are an apply and its reconciliation, or an update and
the job after it, at most one of them a job that only reads; `MaxResults = 1` makes the
agent forget; one mishap is a crash, a lost answer, an `sc` error or a start of the
service amid an update. Two terminal sessions
meet both limits: two on two targets for one administrator, and the second on a
target that is taken. Seven seconds of `Heartbeats`, with samples and heartbeats every 3
seconds and a window of 6 (the code's 5, 30 and 60 scaled down, the window still two
heartbeats), are two heartbeats that overlap and a third that carries some of the same
samples, with one of the poller or one that fails; two inventories are an old and a new
one. Three events are a container that is replaced, in the order of the saves or not.
`TelemetryAlerts` enumerates series of up to five samples with gaps below and
above the limit, so that both durations are met exactly and missed by one. Two
backups over three days with a retention of one prune each other; one secret is
enough for a pair that does not match. A day of three minutes has windows by day
and over midnight. Two scans and two events are a host that changes between them
and an agent that forgets or goes in between. Three publications are two files and the manifest of
them, in any order with a download; three failed writes in a row are one more than
the window has room for. Each bound is a constant, named where it is declared, in the
guard of the action it limits. Symmetry is used only in runs whose properties are
invariants, `[][A]_vars` or a refinement without fairness.

**Deadlock** is not checked (`CHECK_DEADLOCK FALSE`): with all requests of the
bound used up and all work done every one of these systems rightly stops.
Stopping too early is what the liveness properties exclude.

**Fairness.** A worker is restarted whenever it exits (`compose.yaml:103`,
`restart: unless-stopped`), polls every two seconds for ever and waits at most
900 s for a playbook: `WF(Start)` and `WF(WorkerStep)`. The scheduler loop and
the handlers are futures on the tokio runtime, which polls a woken future again:
`WF` on their steps. No fairness is assumed of operators, the answers of agents, the
schedules' clock, the worker's heartbeat, or browser and host of a terminal; where a property needs one of them to go on, it says so:
`DueScheduleRuns` speaks of behaviours in which the worker's heartbeat stops failing,
the tools of a backup end (the code starts them without a timeout) and no
`delete_target` waits in the deadlock of section 4, item 3. `EveryoneAnswered` holds of
executions although the agent may never answer (the client has a timeout), and of
sessions that browser and host do not keep waiting for ever. `BackupGate`, whose one
liveness property is the one that fails, assumes that `pg_dump` and the archive tools
end. PostgreSQL is assumed to answer, with a success or an error: a handler's step is a
statement, and its `WF` says that the statement ends.
`JobsMoveOn` is checked without lost database answers: a row whose final
`UPDATE` is lost stays executing until the worker's next start, which nothing
forces. `Terminal`: `WF` of the controller's own steps and of the passing of time, and
`SF` of a deadline while the session is at its `select!`, which picks at random among
the arms that are ready and so cannot pass one over for ever; nothing of `PeerStep`.
`WindowsAgent`: `WF` of the poller's command, which has a timeout, and report, of the
helper and of the handler; so a report's request is assumed to end, with an answer or
an error (its client has no timeout). No fairness of claims, operators or recoveries.
`Onboarding`: `WF` of requests and polls that have begun, and `SF` of a page's first
read, since a page polls as long as it is open.

**Properties** are conjunctions of named parts where several statements are about
one promise (`TableTellsHost` of `AppliedOnce`, `SucceededOnHost` and
`UpdateInstalled`, `ExecutionsTrue` of `PlanExecutedOnce`, `OneRunner`,
`ResultsAgree` and `SucceededWasApplied`, and so on); the type invariant of a module is a part of one
of them. `TypeOK` of JobQueue stands alone because it is proved.

**Mutants.** For each property of a passing run `PROJECT.json` names a
definition and a faulty form of it (`NoIndex`, `RecoveredAsFailed`,
`PollTimeKey`, `UnlockedAdministration`, `CacheBeforeRun`, `ArriveUngated`,
`InsertUnlessEqual`, `SubmitUnseen`, `EncryptInPlace`, ...) with which TLC finds that
property violated.

## 4. Known disagreements between code and documentation

Four have a run whose counterexample is the evidence.

1. `timeout_orphan`. `invoke` (`lxcup-ansible-worker/src/main.rs:268`) drops the
   future of `Command::output()` after 900 s without `kill_on_drop`. The job
   fails, `ansible-playbook` goes on, and the target's next job starts a second
   playbook. `docs/SECURITY.md:17`: the worker "enforces target-level job
   exclusivity".
2. `second_reconciliation`. `reconcile_ansible_job` (`workflows/jobs.rs:487`)
   answers with the row of `reconcile-job:<id>`, also when it belongs to an
   earlier, finished reconciliation of a job that has been retried since. The
   target stays locked. `docs/DATABASE.md:70`.
3. `backup_lock_order`. `execute_scheduled_backup` waits for `backup_gate` with
   `scheduler_lock` held (`backups.rs:223`), `delete_target` for
   `scheduler_lock` with `backup_gate` held (`targets.rs:198`,
   `inventory/auth.rs:231`). `docs/API.md:180`.
4. `windows_reconcile`. `persist_result` (`windows_agent_workflows.rs:366`) writes
   the reported job's own row. A reconciliation that succeeds leaves the apply it
   is about in `reconcile_required` and the target locked. `docs/API.md:210`.

Others were met while modelling. The models contain the behaviour; the property
that a reader might expect is not stated, or leaves the case out and says so.

*Job queue and its API*

5. A worker that starts beside a running one fails the latter's jobs
   (`main.rs:67`); after a retry both execute it. `WorkersSeparate` holds only
   without such a start.
6. A `configure_target` apply is accepted, has no playbook (`main.rs:604`), ends
   `reconcile_required` and is refused by `can_reconcile_apply`.
7. With two workers a job selected before an apply of its target failed is
   claimed after it (`ansible_jobs.rs:169`): the index does not cover
   `reconcile_required`.
8. The events page appends a `Failed` event (`workflows/jobs.rs:599`) with the
   number the worker is about to use: the worker's step then ends without its
   status event. A creation is answered 500, and its event is missing, when the
   worker's claim has numbered the first event before `persist_created_job` did.
9. A failed `INSERT` leaves the key in the coordinator (`workflows/jobs.rs:241`):
   the same request is then answered as a duplicate, and an onboarding follow-up
   (`reconciliation.rs:12`) is missing until the restart.
10. Two applies that overlap both pass `reject_reused_plan`
    (`package_policy.rs:260`) and use one plan twice. The repeat of an apply
    whose answer was lost is refused with 409.

*Schedules and policies*

11. Pause and resume answered in one order may reach the table in the other
    (`schedules.rs:163`); a restart then loads a paused schedule, against
    `lib.rs:210`.
12. A create or toggle in flight re-inserts a schedule that `delete_target`
    pruned (`repositories/schedules.rs:29`, `docs/DATABASE.md:51`).
13. `delete_update_policy` lists the table while an enabled schedule that uses
    the policy is only in memory (`policies.rs:198`, `docs/API.md:215`).
14. Removing any target deletes every backup schedule, since these have no
    targets (`repositories/targets.rs:97`, `targets.rs:245`).
15. Reading the policy list repairs the standard policy in memory only, when
    memory and row differ (`lib.rs:268`); the row is repaired at the next
    restart. `docs/ARCHITECTURE.md:74`.

*Executions and agents*

16. A transport error after the last retry is recorded as `failed`
    (`inventory/execution.rs:294`); `mark_connection_lost`
    (`lxcup-execution/src/lib.rs:251`) has no caller.
17. A retry of an agent command that is still running starts it again
    (`agent_routes.rs:153`).
18. A reconciliation may put a copy of a running execution over the final one in
    the store (`inventory/execution.rs:365`).
19. A Windows agent whose `failed` report was stored but not answered repeats it;
    if the job is retried meanwhile, the repeat is refused for good and the
    poller claims nothing more (`workflow_client.rs:183`).
20. A Docker update that the client repeats while its first attempt still pulls
    is answered 404 once the first one has replaced the container
    (`lxcup-agent/src/docker.rs:616`).
21. A poll with an old list of jobs turns a connected enrollment into a failed
    one after a retry (`workflows/enrollment.rs:149`).
22. The buffer holds exactly two heartbeat intervals (`lxcup-agent/src/lib.rs:263`) and
    the loop sleeps a whole one after each answer or error: after one missed
    heartbeat the next report comes later than two intervals after the last, and the
    first samples in between are gone. `lxcup-agent/src/lib.rs:261`: "a later report
    can repair a missed delivery without leaving holes". `TimelineFaithful` speaks of
    answered heartbeats.
23. A Windows agent sends heartbeats from its loop and from `report_claimed_workflow`
    (`workflow_client.rs:166`), and `persist_agent_heartbeat` finds the latest snapshot
    and replaces it in two statements (`targets/heartbeat.rs:106`): an older inventory
    can stay over a newer one. `docs/DATABASE.md:37`: "latest package snapshot".
    `ForgottenIsStored` says that the newer one was stored, not that it stays.
24. `save` appends the events of a Docker inventory whatever its `collected_at`
    (`target_docker_inventory.rs:226`), so discoveries that overlap leave them out of
    order; `docs/API.md:242` says "ordered from oldest to newest". When
    `prune_expired_events` then sorts such a list, the last event about a container may
    contradict the inventory. `EventsAgree` ends there (`resorted`).
25. The deadlines of a terminal session are arms of its `select!`
    (`terminal_ssh.rs:89`), which is not polled while another arm awaits a send to
    browser or host; none has a timeout, nor has the notice a deadline sends first. A
    browser that stops reading keeps the session, against `docs/API.md:136`. That is the
    exception of `SessionsEnd`.
26. A mishap amid a self-update, a start of the service or an `sc stop` that fails with
    the process up (`windows_service.rs:290`), can leave the new binary running after
    the rollback. If a second one follows, a later update is told as succeeded although
    the service is configured with the old binary: `UpdateInstalled` tolerates one.

*Backups, secrets and registrations*

27. When the client of `POST /admin/backups` disconnects, the gate opens and the
    blocking task goes on (`backups.rs:225`, `docs/SECURITY.md:132`).
28. A secret's creation or deletion that stops between its two files leaves one
    of them, and every later backup fails (`backups.rs:477`).
29. An update that races a revocation writes the metadata it read before: the
    secret is active again (`lxcup-secrets/src/lib.rs:452`).
30. A rotation that fails after the store was changed, or whose secret is deleted
    meanwhile, has no audit entry (`agent/secrets.rs:160`).
31. `revoke_agent` removes the client and keeps the row (`agent.rs:180`): the
    restart restores it.

*Scans and the worker*

32. `agent_command` sends the normalised apt list through `safe_detail`
    (`agent_routes.rs:176`), which turns every line break into a space and cuts at
    240 characters: `parse_output` finds one line without an `Installed` field, and
    any scan that has an update fails. `lxcup-apt/src/lib.rs:104` expects the
    "line-oriented, machine-readable output produced by an agent". This is why
    `NoUpdateHidden` speaks of succeeded scans only. Before that, `normalize_apt_list`
    drops every line it cannot read without a word (`lxcup-agent/src/parsers.rs:411`,
    `docs/CODE_STYLE.md:38`): a scan of such lines alone succeeds and shows nothing.
    `NoUpdateHidden` is about the lines the agent could read.
33. `run_scan` sets the scan running before it looks the agent up
    (`inventory.rs:166`): without an agent, or when the command fails, it stays
    running for good. The result of a scan is kept in memory only, although
    `docs/DATABASE.md:56` lists scans among what is stored.
34. `report_availability` is a task of its own and writes heartbeats whatever the
    main loop does (`artifact_store.rs:119`): a worker that hangs in a download,
    which has no time limit (`agent_artifacts.rs:34`), stays available.
    `lxcup-server/src/worker.rs:18`: "whether any worker has polled the shared job
    queue recently".
35. `confirm_plan` revalidates a plan against an input it makes of the plan itself
    (`inventory/execution.rs:131`), so the check never finds a change.

## 5. Proofs

| Theorem | Module | For |
|---|---|---|
| `TypeCorrect`: `Spec => []TypeOK` | JobQueueProofs | any workers, targets, requests, bounds |
| `SafeInvariant`: `[]SafeInv` | JobQueueProofs | one worker, everything else arbitrary |
| `AppliesAreAccounted`: `[]NoBlindRetry` | JobQueueProofs | one worker |
| `ReconciliationIsUnique`: `[]OneUnresolved` | JobQueueProofs | one worker |
| `RowsFollowLifecycle`: `RowLifecycle` | JobQueueProofs | one worker |
| `WorkersStaySeparate`: `[]WorkersSeparate` | JobQueueProofs | any number of workers, never restarted |
| `SeparateWorkersAccount`: `[]NoBlindRetry` | JobQueueProofs | the same |
| `WorkerAlwaysToldTruly`: `WorkerSpec => []WorkerToldTruly` | JobQueueProofs | any window and intervals, failed writes, restarts |
| `TableAlwaysTellsHost`: `WindowsSpec => []TableTellsHost` | JobQueueProofs | any Windows jobs, recoveries, retries, mishaps |
| `NobodyEverHoldsForGood`: `WindowsSpec => []NobodyHoldsForGood` | JobQueueProofs | the same |
| `LastAdminStays`: `[]AdminRemains` | AccountsProofs | any accounts, sessions, requests, faults |
| `LockIsFreed`: `[]LockReleased` | AccountsProofs | the same |
| `SessionsStayClosed`: `SessionsNeverRevive` | AccountsProofs | the same |
| `IssuedTokensAreLogged`: `[]IssuedIsLogged` | AccountsProofs | the same |
| `ArchivesAreSafe`: `FilesSpec => []ArchivesSafe` | BackupsProofs | any backups, secrets, retention, failures |
| `ArchivesAgreeUndropped`: `GateSpec => []ArchivesAgree` | BackupsProofs | any requests, changes, backups; no backup or change cut off |
| `ExecutionsTrueAlways`: `[]ExecutionsTrue` | OperationsProofs | any plans, executions, keys, clients, retries, faults |
| `ShellsAlwaysGuarded`: `TerminalSpec => []ShellsGuarded` | OperationsProofs | any administrators, targets, sessions, limits |
| `PollsAlwaysKeepOrder`: `OnboardingSpec => []PollsKeepOrder` | OperationsProofs | any enrollments, polls, ticks, restarts |
| `PlansAlwaysJudgedByContent`: `PlannerSpec => []PlansJudgedByContent` | OperationsProofs | all plans and inputs |
| `ScansAlwaysTrue`: `ScanSpec => []ScansTrue` | OperationsProofs | any scans, lists, unreadable lines, retries, length of `safe_detail` |
| `AlertsAlwaysSustained`: `AlertSpec => []AlertsAreSustained` | OperationsProofs | every series of samples, all limits |
| `SuccessAlwaysReplaced`: `UpdatesSpec => []SuccessReplaced` | DockerProofs | any clients, retries, images, containers |
| `EventsAlwaysAgree`: `UpdatesSpec => []EventsAgree` | DockerProofs | the same, any cap on the events, any cutoff of the retention |
| `DiscoveryAlwaysFaithful`: `DiscoverySpec => DiscoveryFaithful` | DockerProofs | any requests, workloads, runs, failures |
| `FilesImplementRegister`: `StoreSpec => ImplementsRegister` | SecretStoreProofs | any threads, secrets, values, failures, crashes |
| `SecretChangesAlwaysThrough`: `RegistrationSpec => []SecretChangesThrough` | SecretStoreProofs | any requests, containers, secrets, failures, restarts |
| `OneJobPerSlot`: `[]SlotOnce` | SchedulesProofs | any schedules, targets, clients, interval, faults, restarts |
| `MissedSlotsRunOnce`: `OneCatchUp` | SchedulesProofs | the same |
| `ScopesStayRegistered`: `ProcessSpec => []ScopesRegistered` | SchedulesProofs | the same, between two restarts |
| `EventsAlwaysTellTheJob`: `EventsSpec => []EventsTellTheJob` | SchedulesProofs | any viewers, retries, losses |
| `StandardPolicyAlwaysRepaired`: `PoliciesSpec => []StandardPolicyRepaired` | UpdatesProofs | any targets, requests, failures, restarts |
| `AppliesAlwaysPermitted`: `UpdatesSpec => []AppliesWerePermitted` | UpdatesProofs | any policies, operators, packages, length of the day |
| `PlansAreUsedOnce`: `UpdatesSpec => []OncePerPlan` | UpdatesProofs | the same |
| `ForgottenIsAlwaysStored`: `HeartbeatSpec => []ForgottenIsStored` | UpdatesProofs | any intervals, delays, inventories, failures, heartbeats at once |

The assumptions are the named `ASSUME`s of the modules (bounds and limits are
naturals, null values are no members of the sets they stand beside, requests are
supported operation and mode pairs, the minutes of a maintenance window lie within
the day, ids of schedules and requests in flight are finitely many, lists and
changes are sequences, the window after which a worker counts as gone has room for
three heartbeats and the timeout of a probe, and two heartbeats fit between two
probes, as they do with the code's numbers); TLC evaluates them in every run.
Two hypotheses are stated with the theorems of `JobQueueProofs` that need them.
`SingleWorker` is the deployment of `compose.yaml`, and items 5 and 7 above are why
it is needed. `NeverRestarted` is what remains true of several workers: all are up
from the start and none dies, so that no recovery runs beside a live worker.

*Job queue, types.* `TypeOK` is not inductive: a worker writes to the row of
`cur[w]`, so one must know that the job exists. `TypeInv` adds that every job a
worker holds, recovery has listed or a reconciliation refers to was submitted
(`KnownJobs`) and that a worker past its `SELECT` holds one (`HoldsJob`).

*Job queue, safety.* An `UPDATE` by id is safe only if the row is where its
writer believes it is. `SafeInv` says so step by step (`RowMatchesWorker`): the
row of a claimed job is at the worker's status or, after a lost write, behind it.
`SnapshotFresh` says the same of recovery's list; `ApplyStatuses` that only
applies reach the statuses recovery takes for half done; `OneExecuting` is the
unique index; `UnresolvedHoldsTarget` that beside an unresolved apply only its
reconciliation is claimed or executing. With these, `NoBlindRetry` and
`OneUnresolved` are preserved by each action. There is one lemma per action, with
one step per conjunct. The two action properties follow from `SafeInv` and the
guards of the actions that change the column.

*Several workers.* Without recovery nobody touches a job another worker holds, and
`SeparateInv` says that no two hold one job (`HoldersApart`). A reconciliation writes
to its source as well, which is safe because a source has one reconciliation job
(`OneReconciler`). `OneUnresolved` is not claimed: with two workers it fails.

*Worker health.* `BeatInv` bounds the ages of the row and of the probe by where the
task stands and how long it still sleeps (`TimersSet`, `RowTimely`, `FlagTimely`), so
that the window of `availability_dto` is never outlived by a worker that is up.
`LoopInv` says that what was written for a playbook has the platform and the digest of
the manifest that was read (`WrittenVerified`).

*Windows agent.* A row, the agent, the helper and the handler of a report move
independently, and a worker's recovery changes rows under all of them. `WindowsInv`
says who may still have a say in an apply (`ApplySound`, `HelperSound`): once the agent
has taken it, the row is never claimable again. A success passes from the host to the
row only (`SuccessSound`); while one fault is tolerated the one helper at work knows
the service's binary and whether the agent is down or has already cost the fault
(`InstallSound`); whoever reported awaits the answer
(`LiveSound`), so an executing row is in someone's hands (`HandsSound`).

*Accounts.* The count of administrators is safe because nobody else reduces them
between count and write. `AdminInv` has the lock's holder (`LockHeld`), what a
granted change has established (`GrantedIsSafe`) and that requests imply accounts
(`RequestsHaveAccounts`), without which the first administrator could be created
under a request in flight. Two lemmas (`QuietKeeps`, `HarmlessKeeps`) cover the
steps that touch neither roles nor the lock. `LockReleased` is inductive with
`TypeOK`: only the holder's own statement, commit, refusal or error moves it.

*Sessions.* A session comes alive only by the `INSERT` of a login, so the proof
must know that this row was never stored before. `SessionInv` says that a login
in flight owns an unused token and that its account has existed
(`LoginsOwnTokens`), that stored sessions belong to accounts that have existed
(`SessionsHaveUsers`: creating an account validates nothing old), and that a
token returned or about to be has a stored session (`IssuedIsStored`). Every
other action is shown to have one of a few effects on sessions (`Closing`) and
accounts (`Kept`), and the effects preserve the invariant and the property.

*Archives.* That a listed archive is complete depends on what its backup has done
before the rename, so `ArchiveInv` says what a backup on its way has established
(`OnTheWay`): the copied files are paired once their ids were compared, the hidden
file holds what was copied, and it is whole before the rename. That an answered
backup is kept depends on nobody writing it again (`AnsweredStays`), so that the
date by which it is pruned is the one it was answered with. Most steps touch no
archive and are covered by one lemma (`AsideKeeps`); copy, encryption, rename,
pruning and answer have one each.

*Both stores.* `ArchivesAgree` is about two numbers and the gate. `GateInv` says how
far they are apart: the secret store is ahead of the database by the changes that
have done their first write and not their second (`StoresDiffer`, with the
cardinality theorems). A task is behind the gate exactly at certain steps, and its
kind, its place in a queue and its blocking task fit its step (`TaskSound`,
`WaitersSound`); a backup is alone there (`WriterAlone`). So at the copy no change is
half done, and since the dump none has gone on. The hypothesis `UndroppedBackups`
lets clients cut off deletions only: a backup whose request is dropped loses its
guard while its thread goes on, and a change dropped between its writes leaves the
stores apart for good.

*Issued tokens.* `IssuedIsLogged` is inductive with `TypeOK`: only the end of a login
touches the event and the cookie, and it hands out the cookie after the event.

*Executions.* `ExecInv` adds to the four parts of `ExecutionsTrue` that an executed
plan is spent (`PlanSpent`: confirming is what could execute it again), that a
request commanding the agent has begun its execution (`RunnerBegun`), that one which
stores a result has finished it with that result (`StoredIsFinal`), and that every
"succeeded" under way, in the agent's cache, in an answer or in a request, stems from
a process (`AnswersAreReal`). Almost every step is shown to be a `Forward` step
(executions only advance, records take the coordinator's status), which keeps the
invariant; confirmation and restart have their own lemmas.

*Terminal.* The limits are kept by the registry and not by the open shells, so
`TerminalInv` says at which steps a session has a lease, a shell and an audited start
(`PlacesAgree`), bounds the leases (`LeasesLimited`, with the cardinality theorems),
and follows a message from its arrival to the check of the rights (`MessagesTimely`).

*Onboarding.* A poll acts on what it read some steps ago. `OnboardingInv` says what it
may still rely on where it stands (`PollsSound`: the deployment it saw succeed stays
succeeded, the key it is about to save is its own and has no row), that two polls
never save under one key (`SavesApart`), and that a request still queueing a
deployment finds no row (`RequestsSound`). `KnownUntilRestart` ties the rows to the
coordinator's memory until a restart empties it.

*Planner.* The canonical form must leave nothing of the order of its input, and
nothing else behind. That is proved for sorting by any strict total order: places are
a bijection, so sorting keeps how often an element occurs (`SortKeepsCounts`), and the
place of an element lies between the number of elements below it and of those not
above it, which depend on the counts alone (`SameCountsSortEqual`). `ChangesOrdered`
shows that the sort key is such an order, because it names every field. `PlannerInv`
adds that a plan in memory has passed `Accepted`, so the input made of it does too.

*Scans.* `ScanInv` says of each place between apt and the scan (the attempts, the
agent's memory of answers, the answer `run_scan` got) that a list there was printed
while the scan ran, and that a scan which has not run has left nothing there: the keys
of the agent's memory are not reused. What the parser makes of such a list goes
through `safe_detail`, a recursive concatenation (below): a text that is one line does
not parse unless it is empty (`BuildScanIs`).

*Alerts.* The loop back from the newest sample is a recursive function. `StartsAt` says
where it ends, `BackStarts` that it does, by induction over the samples; with samples
in order of time (`SeriesInv`) a load lasts long enough exactly when some sample does.

*Docker updates.* `DockerInv` says that a request is about a container that has
existed (`AsksForKnown`), that an attempt which has seen `compose up` succeed, and the
request which has its answer, come after a later container (`AttemptsReplaced`,
`RequestsReplaced`), and that only discoveries are saved. For the events there are
four lemmas about sequences: later events about a container replace what earlier
ones say (`LaterEventsAgree`), the oldest can be dropped (`LatestEventsAgree`), and
the events of one save say what is shown now and leave the rest true
(`NewEventsAgree`, `SavedEventsAgree`). Sorting events that are in order of time moves
only events of one time, and these come from one save and say the same of a container
(`Timed`, `Tied`); so a prune of such a history keeps it true (`PruneKeeps`).

*Docker discovery.* Whoever is at work holds `docker_discovery_lock`
(`LockHeldAtWork`), so its run is the latest and still running (`RunIsLatest`); before
it finishes nothing is present that it has not seen (`MarkedMissing`), and what the
run before it showed stands until it starts (`LastRunShown`).

*Secret store.* The refinement mapping reads a record off two files and the step of
the thread that is changing them. `StoreInv` says that of a secret that is not
spoiled at most one thread is changing the files (`OneChanger`), that they are as
its step says (`HalfWay`) or whole (`Settled`), and that a reader past the metadata
has seen the value it will find (`ReadersAhead`). Each step of a thread is then a
step of the register or a stutter. The proof corrected the abstract specification:
one crash may stop the changes of several secrets, so `Spoil` takes a set.

*Agent clients.* `RegistrationInv` gives a reason for every client whose credential is
no longer the store's (`ClientsAccounted`): a change of its secret has still to come
to it, or could not see it. A registration in flight carries the store's value, or a
change saw it start (`RegistersCurrent`). The audit log lags the changes by exactly
the requests in flight (`ChangesCounted`, with the cardinality theorems).

*Schedules.* `TypeInv` says what the clones of rows are that handlers and the
scheduler carry from memory to the tables. `SlotOnce` needs that a row's key names
its slot; `OneCatchUp` that a schedule which ran has its next slot after that time
unless the run has not advanced it yet (`RanIsPast`, with the arithmetic of the
rounding division), and that the poll holds no clone of a schedule it has run.
`ScopesRegistered` follows from scheduler_lock (`LockHeld`) and holds within one
process: the hypothesis excludes `Restart`, because a restart that cannot read the
targets, or that reads a stale clone written after `delete_target`, does bring back
schedules over targets that are gone.

*Job events.* The primary key decides between writers, so `EventsInv` says what each
writer knows: a creator that has written has written the first event
(`CreatorSound`), what a page has read holds no failure yet (`PagesSound`), and the
events the worker still has to write end with the status it has put into the row
(`RunnerSound`), until they are written (`ToldSound`).

*Standard policy.* `PolicyInv` says what a request at each step has found out
(`HandlerSound`) and that one which has been alone since it started is the only one
in flight and acts on targets and a policy that are still what it read
(`AloneSound`). A starting request takes the mark from all others, a finishing one
settles the policy only with it.

*Package updates.* `UpdatesInv` says what a request being judged has established and
that it lasts (`RequestSound`: a plan that succeeded stays so, the rule and minute of
admission travel with the request), that the coordinator's job is the one its
request is about to save (`MadeFor`, `SaversApart`), that the tick follows up applies
that succeeded and have no inventory (`TickSound`), what a row rests on (`RowSound`),
and that a plan outside `together` has one apply, made or under way (`UsedOnce`).
Every step makes the jobs grow in a way (`JobsGrow`) that keeps what was known of
the rows. `WindowIsArc` proves for every length of the day that `UpdatePolicy::allows`
is membership in the arc of the clock from start to end.

*Inventories.* The agent forgets an inventory when a heartbeat that carried it is
answered. Heartbeats overlap and an older one may replace a newer, so the argument is
about what was ever stored. `InventoryInv` says that the agent holds the last inventory
collected or none (`HeldIsLast`), and of every heartbeat on its way (`BeatsFit`) that it
carries the last one or an older one, that an invalid one is known as such before the
first statement, and that a handler of the last one which will not replace the
snapshot, or has answered, finds it among those stored.

*Recursive functions.* The library's induction theorems take an operator as a
parameter and cannot be used, but their well-founded core can: a set of naturals that
is not empty has a least member (`LeastNumber`), so a set that holds 0 and with each
number the next holds all (`UpTo`). With the set of indices at which the claim holds,
this proves that a recursive function exists and what it computes. The modules with
theorems reach no `RECURSIVE` operator.

*Only model-checked*: the liveness properties `JobsMoveOn`, `DueScheduleRuns`,
`EveryoneAnswered`, `ClaimedJobsFinish` and `OnboardingCompletes` (fairness and
`ENABLED` are outside TLAPS 1.4.5's reach), and `TimelineFaithful` of Heartbeats: its
samples pass through `SelectSeq` and a fold, of which the provers know nothing.

## 6. What is not modelled

* Text and bytes: playbook output and its parsing, parsers other than that of
  apt's upgradable list, package safety rules, rendered inventories, password hashes, tokens, encryption. They appear as
  success or failure.
* The web frontend, CLI, logging, support diagnostics, the inventory of nodes and
  containers, metrics and other read-only routes, vendored code: they keep no state on
  which a later step decides.
* The contents of Ansible roles: a playbook is a process that succeeds, fails or
  hangs.
* The installation of the Windows service and the text of the service manager's
  answers; the updater is modelled, each `sc` command as success or failure.
* The reconfiguration of an agent's Docker access, Docker samples in heartbeats,
  the retention of telemetry and the alert of an agent that fell silent.
* The life of a target across all modules: each module sees the part of it that
  its own properties need, so a race between, say, onboarding and package updates
  of one target is covered only where they meet in a table that both model.

## 7. Plan

Done: the modules of section 2, the runs of section 3, the proofs of section 5.
What is left, most important first:

1. An abstract specification of the target lock (a target is free, worked on or
   unresolved) that JobQueue with one worker implements, as a refinement property
   and then as a theorem.
2. JobQueue with JobEvents as one composition, and WindowsAgent on JobQueue's table,
   instead of the recovery action that stands for the worker.
3. What section 6 leaves out of modelled components: reconfiguration of agents,
   telemetry retention, the alert of a silent agent, package safety rules as a
   pure operator against a reference definition.
