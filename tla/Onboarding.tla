----------------------------- MODULE Onboarding -----------------------------
(* Enrollment of one container and its target.  create_enrollment keeps the *)
(* enrollment in memory and queues the agent's deployment; the onboarding   *)
(* pages (get_enrollment) and the controller's own tick                     *)
(* (reconcile_onboarding_jobs) read the job rows, move the enrollment on    *)
(* and queue the health check and then the first package inventory.  Every  *)
(* step between two awaits is an action, so what a poll has read may be old *)
(* when it is used.  Jobs are run by the worker, which is external here.    *)
EXTENDS Naturals, FiniteSets

CONSTANTS
  Enrollments,  \* enrollments of the container
  Pages, Tick,  \* callers of get_enrollment, the controller's tick
  MaxLosses,    \* bound: failed INSERTs and dropped requests
  MaxRestarts, MaxRetried, MaxResets  \* bounds

VARIABLES
  enrollment,  \* state of an enrollment and the step of the request that creates it
  rows,        \* ansible_jobs: the status of the row with a follow-up key
  memory,      \* AnsibleJobCoordinator: keys submitted since the start
  target,      \* is the target managed: in the store, in its row
  poll,        \* pages and tick
  conflict,    \* history: an INSERT met a row with its key
  used         \* counters of the bounds
onboardingVars == <<enrollment, rows, memory, target, poll, conflict, used>>

Kinds == {"deploy", "health", "inventory"}
JobKeys == Kinds \X Enrollments
EnrollmentState == {"requested", "discovering", "installing_agent", "registering_agent", "connected", "failed"}
IsActive(state) == state \in {"requested", "discovering", "installing_agent", "registering_agent"}
JobState == {"none", "queued", "applying", "succeeded", "failed", "reconcile_required"}

\* EnrollmentState::can_transition_to, for the states the server uses.
CanMove(from, to) ==
  \/ from = to
  \/ <<from, to>> \in {<<"requested", "discovering">>, <<"requested", "failed">>,
       <<"discovering", "installing_agent">>, <<"discovering", "failed">>,
       <<"installing_agent", "registering_agent">>, <<"installing_agent", "failed">>,
       <<"registering_agent", "connected">>, <<"registering_agent", "failed">>,
       <<"connected", "discovering">>, <<"failed", "discovering">>}
\* transition_to: a refused transition leaves the state.
MoveTo(from, to) == IF CanMove(from, to) THEN to ELSE from

NoPoll == [at |-> "idle", id |-> "-", status |-> "none", connected |-> FALSE, todo |-> {}, kind |-> "-"]
Unknown == [state |-> "none", step |-> "-"]

OnboardingInit ==
  /\ enrollment = [e \in Enrollments |-> Unknown]
  /\ rows = [k \in JobKeys |-> "none"]
  /\ memory = {} /\ target = [store |-> FALSE, row |-> FALSE]
  /\ poll = [p \in Pages \cup {Tick} |-> NoPoll]
  /\ conflict = FALSE
  /\ used = [faults |-> 0, restarts |-> 0, retries |-> 0, resets |-> 0]

Use(what, bound) == used[what] < bound /\ used' = [used EXCEPT ![what] = @ + 1]

----------------------------------------------------------------------------
(* create_enrollment and queue_enrollment_job.                              *)
\* A new key, and no enrollment of the container is active; the deployment
\* is queued when start_onboarding asks for it.
CreateEnrollment(e) ==
  /\ enrollment[e] = Unknown /\ \A k \in Kinds : rows[k, e] = "none"
  /\ \A o \in Enrollments : ~IsActive(enrollment[o].state)
  /\ \E step \in {"submit", "-"} : enrollment' = [enrollment EXCEPT ![e] = [state |-> "requested", step |-> step]]
  /\ UNCHANGED <<rows, memory, target, poll, conflict, used>>

\* The contract refuses the deployment, or the coordinator registers it.
SubmitDeployment(e) ==
  /\ enrollment[e].step = "submit"
  /\ \/ enrollment' = [enrollment EXCEPT ![e].step = "-"] /\ UNCHANGED memory
     \/ enrollment' = [enrollment EXCEPT ![e].step = "save"] /\ memory' = memory \cup {<<"deploy", e>>}
  /\ UNCHANGED <<rows, target, poll, conflict, used>>

SaveDeployment(e) ==
  /\ enrollment[e].step = "save"
  /\ \/ /\ rows' = [rows EXCEPT ![<<"deploy", e>>] = "queued"]
        /\ enrollment' = [enrollment EXCEPT ![e].step = "start"] /\ UNCHANGED used
     \/ /\ Use("faults", MaxLosses)
        /\ enrollment' = [enrollment EXCEPT ![e].step = "-"] /\ UNCHANGED rows
  /\ UNCHANGED <<memory, target, poll, conflict>>

StartDiscovery(e) ==
  /\ enrollment[e].step = "start"
  /\ enrollment' = [enrollment EXCEPT ![e] = [state |-> MoveTo(@.state, "discovering"), step |-> "-"]]
  /\ UNCHANGED <<rows, memory, target, poll, conflict, used>>

\* The browser is gone: the handler's future is dropped at an await.
CreateDropped(e) ==
  /\ enrollment[e].step # "-" /\ Use("faults", MaxLosses)
  /\ enrollment' = [enrollment EXCEPT ![e].step = "-"]
  /\ UNCHANGED <<rows, memory, target, poll, conflict>>

----------------------------------------------------------------------------
(* get_enrollment.                                                          *)
Step(p, at) == poll' = [poll EXCEPT ![p].at = at]
\* A page is answered; the tick goes on to its next deployment.
PollEnds(p) == poll' = [poll EXCEPT ![p] =
  IF p = Tick /\ poll[p].todo # {} THEN [NoPoll EXCEPT !.at = "next", !.todo = poll[p].todo] ELSE NoPoll]

ListJobs(p, e) ==
  /\ p \in Pages /\ poll[p].at = "idle" /\ enrollment[e].state # "none" /\ rows["deploy", e] # "none"
  /\ poll' = [poll EXCEPT ![p] = [NoPoll EXCEPT !.at = "look", !.id = e, !.status = rows["deploy", e]]]
  /\ UNCHANGED <<enrollment, rows, memory, target, conflict, used>>

LookAtTarget(p) ==
  /\ poll[p].at = "look"
  /\ poll' = [poll EXCEPT ![p].at = "view", ![p].connected = target.store]
  /\ UNCHANGED <<enrollment, rows, memory, target, conflict, used>>

\* The match over the job's status; fail() asks no can_transition_to.
View(state, status, connected) ==
  CASE status = "failed" -> "failed"
    [] status \in {"applying", "succeeded"} /\ state = "discovering" -> MoveTo(state, "installing_agent")
    [] status = "succeeded" /\ state # "discovering" /\ connected ->
         MoveTo(MoveTo(state, "registering_agent"), "connected")
    [] OTHER -> state

UpdateView(p) ==
  LET e == poll[p].id IN
  /\ poll[p].at = "view"
  /\ enrollment' = [enrollment EXCEPT ![e].state = View(@, poll[p].status, poll[p].connected)]
  /\ IF poll[p].status = "succeeded" THEN Step(p, "target") ELSE PollEnds(p)
  /\ UNCHANGED <<rows, memory, target, conflict, used>>

----------------------------------------------------------------------------
(* reconcile_onboarding_jobs and ensure_deployment_followups.               *)
TickLists ==
  LET done == {e \in Enrollments : rows["deploy", e] = "succeeded"} IN
  /\ poll[Tick].at = "idle" /\ done # {}
  /\ poll' = [poll EXCEPT ![Tick] = [NoPoll EXCEPT !.at = "next", !.todo = done]]
  /\ UNCHANGED <<enrollment, rows, memory, target, conflict, used>>

TickTakes(e) ==
  /\ poll[Tick].at = "next" /\ e \in poll[Tick].todo
  /\ poll' = [poll EXCEPT ![Tick] = [@ EXCEPT !.at = "target", !.id = e, !.status = "succeeded", !.todo = poll[Tick].todo \ {e}]]
  /\ UNCHANGED <<enrollment, rows, memory, target, conflict, used>>

FindManaged(p) ==
  /\ poll[p].at = "target"
  /\ IF target.store THEN Step(p, "jobs") ELSE PollEnds(p)
  /\ UNCHANGED <<enrollment, rows, memory, target, conflict, used>>

\* Mutant: a health check that succeeded still counts as pending.
NextFollowUpHealthOnly(e) == IF rows["health", e] = "none" THEN "health" ELSE "-"

NextFollowUp(e) ==
  IF rows["health", e] = "none" THEN "health"
  ELSE IF rows["health", e] = "succeeded" /\ rows["inventory", e] = "none" THEN "inventory"
  ELSE "-"

ListFollowUps(p) ==
  LET kind == NextFollowUp(poll[p].id) IN
  /\ poll[p].at = "jobs"
  /\ IF kind = "-" THEN PollEnds(p) ELSE poll' = [poll EXCEPT ![p].at = "submit", ![p].kind = kind]
  /\ UNCHANGED <<enrollment, rows, memory, target, conflict, used>>

\* Mutant: the rows alone say whether the job is new.
SubmitUnseen(p) ==
  /\ poll[p].at = "submit" /\ Step(p, "save")
  /\ memory' = memory \cup {<<poll[p].kind, poll[p].id>>}
  /\ UNCHANGED <<enrollment, rows, target, conflict, used>>

\* AnsibleJobCoordinator::submit: a key it knows is a duplicate.
SubmitFollowUp(p) ==
  LET key == <<poll[p].kind, poll[p].id>> IN
  /\ poll[p].at = "submit"
  /\ IF key \in memory THEN PollEnds(p) /\ UNCHANGED memory
     ELSE Step(p, "save") /\ memory' = memory \cup {key}
  /\ UNCHANGED <<enrollment, rows, target, conflict, used>>

SaveFollowUp(p) ==
  LET key == <<poll[p].kind, poll[p].id>> IN
  /\ poll[p].at = "save" /\ PollEnds(p)
  /\ \/ /\ rows' = [rows EXCEPT ![key] = IF @ = "none" THEN "queued" ELSE @]
        /\ conflict' = (conflict \/ rows[key] # "none") /\ UNCHANGED used
     \/ Use("faults", MaxLosses) /\ UNCHANGED <<rows, conflict>>
  /\ UNCHANGED <<enrollment, memory, target>>

----------------------------------------------------------------------------
(* The worker, the operator, the agent and the controller's host.           *)
RunJob(k) ==
  /\ \/ rows[k] = "queued" /\ rows' = [rows EXCEPT ![k] = "applying"]
     \/ /\ rows[k] \in {"applying", "reconcile_required"}
        /\ \E end \in {"succeeded", "failed"} : rows' = [rows EXCEPT ![k] = end]
     \/ /\ rows[k] = "applying" /\ k[1] = "deploy"
        /\ rows' = [rows EXCEPT ![k] = "reconcile_required"]
  /\ UNCHANGED <<enrollment, memory, target, poll, conflict, used>>

RetryFailed(k) ==
  /\ rows[k] = "failed" /\ Use("retries", MaxRetried)
  /\ rows' = [rows EXCEPT ![k] = "queued"]
  /\ UNCHANGED <<enrollment, memory, target, poll, conflict>>

\* receive_agent_heartbeat marks the target managed and then saves it; an
\* agent that was installed sends heartbeats.
Heartbeat ==
  /\ \E e \in Enrollments : rows["deploy", e] \notin {"none", "queued"}
  /\ target # [store |-> TRUE, row |-> TRUE]
  /\ \/ target' = [store |-> TRUE, row |-> TRUE] /\ UNCHANGED used
     \/ target' = [target EXCEPT !.store = TRUE] /\ Use("faults", MaxLosses)
  /\ UNCHANGED <<enrollment, rows, memory, poll, conflict>>

\* reset_targets_for_secret: the agent's token was rotated or revoked; a row
\* that could not be updated is not reported.
ResetTarget ==
  /\ target.store /\ used.resets < MaxResets
  /\ \/ /\ target' = [store |-> FALSE, row |-> FALSE]
        /\ used' = [used EXCEPT !.resets = @ + 1]
     \/ /\ target' = [target EXCEPT !.store = FALSE]
        /\ used.faults < MaxLosses /\ used' = [used EXCEPT !.resets = @ + 1, !.faults = @ + 1]
  /\ UNCHANGED <<enrollment, rows, memory, poll, conflict>>

\* Enrollments and coordinator live in memory; targets are restored.
RestartController ==
  /\ Use("restarts", MaxRestarts)
  /\ enrollment' = [e \in Enrollments |-> Unknown] /\ memory' = {}
  /\ poll' = [p \in Pages \cup {Tick} |-> NoPoll]
  /\ target' = [target EXCEPT !.store = target.row]
  /\ UNCHANGED <<rows, conflict>>

Creating(e) == SubmitDeployment(e) \/ SaveDeployment(e) \/ StartDiscovery(e)
Polling(p) ==
  \/ LookAtTarget(p) \/ UpdateView(p) \/ FindManaged(p) \/ ListFollowUps(p) \/ SubmitFollowUp(p) \/ SaveFollowUp(p)
  \/ p = Tick /\ (TickLists \/ \E e \in Enrollments : TickTakes(e))
OnboardingNext ==
  \/ \E e \in Enrollments : CreateEnrollment(e) \/ Creating(e) \/ CreateDropped(e)
  \/ \E p \in Pages, e \in Enrollments : ListJobs(p, e)
  \/ \E p \in Pages \cup {Tick} : Polling(p)
  \/ \E k \in JobKeys : RunJob(k) \/ RetryFailed(k)
  \/ Heartbeat \/ ResetTarget \/ RestartController
OnboardingSpec == OnboardingInit /\ [][OnboardingNext]_onboardingVars

(* The tick comes back every few seconds and some page stays open: each     *)
(* enrollment is polled again and again, and every poll that was begun ends.*)
OnboardingFairness ==
  /\ \A e \in Enrollments : WF_onboardingVars(Creating(e))
  /\ \A p \in Pages \cup {Tick} : WF_onboardingVars(Polling(p))
  /\ \A p \in Pages, e \in Enrollments : SF_onboardingVars(ListJobs(p, e))
OnboardingFairSpec == OnboardingSpec /\ OnboardingFairness

----------------------------------------------------------------------------
(* The types of the onboarding's state; until a restart the coordinator     *)
(* knows every job that has a row.                                          *)
OnboardingTypeOK ==
  /\ \A e \in Enrollments : enrollment[e].state \in EnrollmentState \cup {"none"}
  /\ \A k \in JobKeys : rows[k] \in JobState
  /\ memory \subseteq JobKeys
  /\ used.restarts = 0 => \A k \in JobKeys : rows[k] # "none" => k \in memory

(* An enrollment shown as connected was deployed, the first inventory is    *)
(* queued only after the health check succeeded, and that only after the    *)
(* deployment did, however old what the polls have read.                    *)
OnboardingInOrder ==
  \A e \in Enrollments :
    /\ enrollment[e].state = "connected" => rows["deploy", e] = "succeeded"
    /\ rows["health", e] # "none" => rows["deploy", e] = "succeeded"
    /\ rows["inventory", e] # "none" => rows["health", e] = "succeeded"

(* "polling and competing controller ticks cannot create duplicate          *)
(* follow-up jobs": no poll ever inserts a row whose key is taken, so none  *)
(* is answered with an error because of another.                            *)
CompetingPollsAgree == ~conflict

(* "This keeps the onboarding page from waiting forever": once the          *)
(* deployment has ended and discovery was started, polling takes the        *)
(* enrollment out of the active states, unless the target is reset or the   *)
(* job is retried.                                                          *)
EnrollmentSettles ==
  \A e \in Enrollments :
    /\ (rows["deploy", e] = "succeeded" /\ enrollment[e].state \in {"discovering", "installing_agent"})
         ~> (~IsActive(enrollment[e].state) \/ ~target.store)
    /\ rows["deploy", e] = "failed" ~> (~IsActive(enrollment[e].state) \/ rows["deploy", e] # "failed")

(* The controller owns the sequence: behind a deployment that succeeded on  *)
(* a managed target the health check is queued, and behind that the         *)
(* inventory, unless an INSERT failed, which leaves the key in memory only, *)
(* or the target is reset.                                                  *)
FollowUpsArrive ==
  \A e \in Enrollments :
    /\ (rows["deploy", e] = "succeeded" /\ target.store)
         ~> (rows["health", e] # "none" \/ ~target.store \/ used.faults > 0)
    /\ (rows["health", e] = "succeeded" /\ target.store)
         ~> (rows["inventory", e] # "none" \/ ~target.store \/ used.faults > 0)

(* Polls, ticks and restarts advance the enrollment in one order and never  *)
(* get into each other's way, however old what each of them has read.       *)
PollsKeepOrder == OnboardingTypeOK /\ OnboardingInOrder /\ CompetingPollsAgree

(* The onboarding comes to its end: the enrollment settles and its          *)
(* follow-up jobs are queued (the polls and advance_onboarding_workflows).  *)
OnboardingCompletes == EnrollmentSettles /\ FollowUpsArrive
=============================================================================
