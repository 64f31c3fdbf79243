--------------------------- MODULE PackageUpdates ---------------------------
(* Package updates of one target: an operator plans them under an update    *)
(* policy, applies a plan that succeeded inside the policy's maintenance    *)
(* window, and the controller's tick queues a package inventory after an    *)
(* apply that succeeded.  A request is judged in several steps between      *)
(* awaits (policy in memory, plan row, list of rows, coordinator, INSERT),  *)
(* while policies come and go, the clock runs and the controller restarts.  *)
(* The target is managed and not a Windows one.  Executing a job is the     *)
(* worker's part (JobQueue); here it is an outcome.                         *)
EXTENDS Integers, Sequences, FiniteSets

CONSTANTS
  Operators,    \* requests in flight at one time
  Policies,     \* ids of operator-defined policies
  Rules,        \* settings a policy can have: packages ({}: all), start, end, high
  PackageLists, \* package lists a request can name
  NoOperator,
  Day,          \* minutes of a day
  NoRule,       \* the policy does not exist
  MaxUpdateJobs, \* bound: jobs submitted
  MaxAsked,     \* bound: requests
  MaxMinutes,   \* bound: minutes that pass
  MaxUpsets     \* bound: failed statements, policy changes and restarts
VARIABLES
  rule,       \* store.update_policies
  ruleRow,    \* update_policies
  ruleWork,   \* what a policy request still has to do: "save" or "forget"
  minute,     \* of the day
  jobs,       \* the jobs the coordinator made, in order; a status from "queued" on is a row
  known,      \* those the coordinator still knows
  asked,      \* the requests being judged
  tick,       \* reconcile_onboarding_jobs: the applies it still looks at
  together,   \* history: plans two requests were past reject_reused_plan for at one time
  budget
ruleVars == <<rule, ruleRow, ruleWork>>
updateVars == <<ruleVars, minute, jobs, known, asked, tick, together, budget>>

Ids == 1 .. Len(jobs)
NoRequest == [at |-> "idle", mode |-> "none", pol |-> "none", pkgs |-> {}, plan |-> 0,
              token |-> NoOperator, rule |-> NoRule, checked |-> 0, id |-> 0]
NoTick == [at |-> "idle", todo |-> {}, update |-> 0, id |-> 0]
Saved(j) == jobs[j].status \notin {"unsaved", "lost"}
Rows == {j \in Ids : Saved(j)}
Applies(p) == {j \in Rows : jobs[j].mode = "apply" /\ jobs[j].plan = p}
\* The keys: package-plan:{policy}:{token}, package-apply:{plan}:{token},
\* package-update-inventory-{update}.  An operator's page keeps its token, so
\* asking again repeats the key.
SameKey(j, k) ==
  /\ j.mode = k.mode /\ j.plan = k.plan
  /\ j.mode = "plan" => j.pol = k.pol
  /\ j.mode # "check" => j.token = k.token
\* is_active_ansible_job_status
ActiveTarget == \E j \in Rows : jobs[j].status \in {"running", "reconcile_required"}

\* validate_update_policy_request: the minutes lie within a day.
RuleType(r) == r.start \in 0 .. Day - 1 /\ r.end \in 0 .. Day - 1 /\ r.high \in BOOLEAN
ASSUME RulesAssumption == Day \in Nat \ {0} /\ \A r \in Rules : RuleType(r)

\* validate_policy_allows_packages
AllowsPackages(r, pkgs) == r.high /\ (r.packages # {} => pkgs \subseteq r.packages)

\* The policies are there, and one plan was asked for and is queued.
UpdatesInit ==
  /\ rule \in [Policies -> Rules] /\ ruleRow = rule /\ ruleWork = [p \in Policies |-> "none"]
  /\ minute = 0 /\ known = {1}
  /\ \E p \in Policies, pkgs \in PackageLists :
       /\ AllowsPackages(rule[p], pkgs)
       /\ jobs = <<[mode |-> "plan", pol |-> p, pkgs |-> pkgs, plan |-> 0, token |-> NoOperator,
                    rule |-> NoRule, checked |-> 0, status |-> "queued"]>>
  /\ asked = [r \in Operators |-> NoRequest]
  /\ tick = NoTick /\ together = {}
  /\ budget = [asked |-> MaxAsked, minutes |-> MaxMinutes, upsets |-> MaxUpsets]
Upset == budget.upsets > 0 /\ budget' = [budget EXCEPT !.upsets = @ - 1]

-----------------------------------------------------------------------------
\* create_update_policy: memory first, then the row.
CreateUpdatePolicy(p, r) ==
  /\ rule[p] = NoRule /\ ruleWork[p] = "none"
  /\ rule' = [rule EXCEPT ![p] = r] /\ ruleWork' = [ruleWork EXCEPT ![p] = "save"]
  /\ UNCHANGED <<ruleRow, minute, jobs, known, asked, tick, together, budget>>
SaveUpdatePolicy(p) ==
  /\ ruleWork[p] = "save" /\ ruleWork' = [ruleWork EXCEPT ![p] = "none"]
  /\ \/ ruleRow' = [ruleRow EXCEPT ![p] = rule[p]] /\ UNCHANGED budget
     \/ Upset /\ UNCHANGED ruleRow
  /\ UNCHANGED <<rule, minute, jobs, known, asked, tick, together>>
\* delete_update_policy: the row first, then the memory.
DeleteUpdatePolicy(p) ==
  /\ ruleRow[p] # NoRule /\ ruleWork[p] = "none" /\ Upset
  /\ ruleRow' = [ruleRow EXCEPT ![p] = NoRule] /\ ruleWork' = [ruleWork EXCEPT ![p] = "forget"]
  /\ UNCHANGED <<rule, minute, jobs, known, asked, tick, together>>
ForgetUpdatePolicy(p) ==
  /\ ruleWork[p] = "forget" /\ ruleWork' = [ruleWork EXCEPT ![p] = "none"]
  /\ rule' = [rule EXCEPT ![p] = NoRule]
  /\ UNCHANGED <<ruleRow, minute, jobs, known, asked, tick, together, budget>>

-----------------------------------------------------------------------------
Reaches(r, at) == asked' = [asked EXCEPT ![r].at = at]
Refuse(r) == asked' = [asked EXCEPT ![r] = NoRequest]

\* UpdatePolicy::allows: the window, which may go over midnight.
InWindow(r, m) ==
  IF r.start <= r.end THEN r.start <= m /\ m <= r.end
  ELSE m >= r.start \/ m <= r.end

\* create_ansible_job up to the database: resolve_ansible_target, the policy in
\* memory, its rules about packages and, for an apply, the window at this
\* minute.  A refusal changes nothing.
ValidatePackageUpdate(r, mode, p, pkgs, plan) ==
  /\ asked[r] = NoRequest /\ budget.asked > 0 /\ budget' = [budget EXCEPT !.asked = @ - 1]
  /\ rule[p] # NoRule /\ AllowsPackages(rule[p], pkgs)
  /\ LET q == [NoRequest EXCEPT !.mode = mode, !.pol = p, !.pkgs = pkgs, !.token = r] IN
     \/ /\ mode = "plan" /\ plan = 0
        /\ asked' = [asked EXCEPT ![r] = [q EXCEPT !.at = "existing"]]
     \/ /\ mode = "apply" /\ plan \in Ids /\ InWindow(rule[p], minute)
        /\ asked' = [asked EXCEPT ![r] = [q EXCEPT !.at = "plan", !.plan = plan, !.rule = rule[p], !.checked = minute]]
  /\ UNCHANGED <<ruleVars, minute, jobs, known, tick, together>>

\* Mutant: a plan that was made is enough.
PlanWasMade(p, q) ==
  p \in Rows /\ jobs[p].mode = "plan" /\ jobs[p].pkgs = q.pkgs /\ jobs[p].pol = q.pol

\* load_package_plan and plan_matches_request
PlanMatchesRequest(p, q) ==
  /\ p \in Rows /\ jobs[p].mode = "plan" /\ jobs[p].status = "succeeded"
  /\ jobs[p].pkgs = q.pkgs /\ jobs[p].pol = q.pol
LoadPackagePlan(r) ==
  /\ asked[r].at = "plan"
  /\ IF PlanMatchesRequest(asked[r].plan, asked[r]) THEN Reaches(r, "reused") ELSE Refuse(r)
  /\ UNCHANGED <<ruleVars, minute, jobs, known, tick, together, budget>>

\* Requests that are past reject_reused_plan for plan p and not yet saved.
Passed(p) == {x \in Operators : asked[x].plan = p /\ asked[x].at \in {"existing", "submit", "save"}}

\* Mutant: only an apply that is still to run counts as an attempt.
RejectPendingPlan(r) ==
  LET p == asked[r].plan IN
  /\ asked[r].at = "reused"
  /\ IF \E j \in Applies(p) : jobs[j].status = "queued" THEN Refuse(r) /\ UNCHANGED together
     ELSE Reaches(r, "existing") /\ together' = IF Passed(p) = {} THEN together ELSE together \cup {p}
  /\ UNCHANGED <<ruleVars, minute, jobs, known, tick, budget>>

RejectReusedPlan(r) ==
  LET p == asked[r].plan IN
  /\ asked[r].at = "reused"
  /\ IF Applies(p) # {} THEN Refuse(r) /\ UNCHANGED together
     ELSE Reaches(r, "existing") /\ together' = IF Passed(p) = {} THEN together ELSE together \cup {p}
  /\ UNCHANGED <<ruleVars, minute, jobs, known, tick, budget>>

\* find_existing_job: the key's row is the answer; an active target refuses,
\* which has_reconciliation_required_target and find_active_target_job repeat.
FindExistingJob(r) ==
  /\ asked[r].at = "existing"
  /\ IF ActiveTarget \/ \E j \in Rows : SameKey(jobs[j], asked[r]) THEN Refuse(r) ELSE Reaches(r, "submit")
  /\ UNCHANGED <<ruleVars, minute, jobs, known, tick, together, budget>>

\* The coordinator's submit: a key it knows answers with its job.
Duplicate(q) == \E j \in known : SameKey(jobs[j], q)
Made(q) ==
  /\ Len(jobs) < MaxUpdateJobs
  /\ jobs' = Append(jobs, [mode |-> q.mode, pol |-> q.pol, pkgs |-> q.pkgs, plan |-> q.plan, token |-> q.token,
                           rule |-> q.rule, checked |-> q.checked, status |-> "unsaved"])
  /\ known' = known \cup {Len(jobs) + 1}
SubmitUpdate(r) ==
  /\ asked[r].at = "submit"
  /\ IF Duplicate(asked[r]) THEN Refuse(r) /\ UNCHANGED <<jobs, known>>
     ELSE Made(asked[r]) /\ asked' = [asked EXCEPT ![r].at = "save", ![r].id = Len(jobs) + 1]
  /\ UNCHANGED <<ruleVars, minute, tick, together, budget>>
\* persist_created_job; a failure leaves the job to the coordinator alone.
SaveUpdate(r) ==
  /\ asked[r].at = "save" /\ Refuse(r)
  /\ \/ jobs' = [jobs EXCEPT ![asked[r].id].status = "queued"] /\ UNCHANGED budget
     \/ Upset /\ UNCHANGED jobs
  /\ UNCHANGED <<ruleVars, minute, known, tick, together>>

-----------------------------------------------------------------------------
\* The tick: list the rows, then one follow-up after the other.
TickListsUpdates ==
  /\ tick = NoTick
  /\ \E done \in {{j \in Rows : jobs[j].mode = "apply" /\ jobs[j].status = "succeeded"}} :
       done # {} /\ tick' = [NoTick EXCEPT !.at = "next", !.todo = done]
  /\ UNCHANGED <<ruleVars, minute, jobs, known, asked, together, budget>>
FollowUp(u) == [NoRequest EXCEPT !.mode = "check", !.plan = u]

\* queue_package_inventory_followup: find_existing_job and the managed target.
FindFollowUp ==
  /\ tick.at = "next"
  /\ IF tick.todo = {} THEN tick' = NoTick
     ELSE \E u \in tick.todo :
            IF ActiveTarget \/ \E j \in Rows : SameKey(jobs[j], FollowUp(u))
              THEN tick' = [tick EXCEPT !.todo = @ \ {u}]
              ELSE tick' = [tick EXCEPT !.at = "submit", !.todo = @ \ {u}, !.update = u]
  /\ UNCHANGED <<ruleVars, minute, jobs, known, asked, together, budget>>
SubmitInventory ==
  /\ tick.at = "submit"
  /\ IF Duplicate(FollowUp(tick.update)) THEN tick' = [tick EXCEPT !.at = "next", !.update = 0] /\ UNCHANGED <<jobs, known>>
     ELSE Made(FollowUp(tick.update)) /\ tick' = [tick EXCEPT !.at = "save", !.id = Len(jobs) + 1]
  /\ UNCHANGED <<ruleVars, minute, asked, together, budget>>
SaveInventory ==
  /\ tick.at = "save" /\ tick' = [tick EXCEPT !.at = "next", !.id = 0, !.update = 0]
  /\ \/ jobs' = [jobs EXCEPT ![tick.id].status = "queued"] /\ UNCHANGED budget
     \/ Upset /\ UNCHANGED jobs
  /\ UNCHANGED <<ruleVars, minute, known, asked, together>>

-----------------------------------------------------------------------------
\* The worker claims a queued job of a free target, and ends it.
ClaimUpdate(j) ==
  /\ jobs[j].status = "queued" /\ ~ActiveTarget /\ jobs' = [jobs EXCEPT ![j].status = "running"]
  /\ UNCHANGED <<ruleVars, minute, known, asked, tick, together, budget>>
EndUpdate(j) ==
  /\ \/ jobs[j].status = "running"
          /\ \E s \in {"succeeded", "failed"} \cup (IF jobs[j].mode = "apply" THEN {"reconcile_required"} ELSE {}) :
               jobs' = [jobs EXCEPT ![j].status = s]
     \/ jobs[j].status = "reconcile_required"
          /\ \E s \in {"succeeded", "failed"} : jobs' = [jobs EXCEPT ![j].status = s]
  /\ UNCHANGED <<ruleVars, minute, known, asked, tick, together, budget>>
\* retry_ansible_job: a failed job, except an apply, is queued again.
RetryUpdate(j) ==
  /\ jobs[j].status = "failed" /\ jobs[j].mode # "apply" /\ Upset
  /\ jobs' = [jobs EXCEPT ![j].status = "queued"]
  /\ UNCHANGED <<ruleVars, minute, known, asked, tick, together>>
MinutePasses ==
  /\ budget.minutes > 0 /\ budget' = [budget EXCEPT !.minutes = @ - 1] /\ minute' = (minute + 1) % Day
  /\ UNCHANGED <<ruleVars, jobs, known, asked, tick, together>>

\* The controller starts again from the rows.
RestartUpdates ==
  /\ Upset /\ rule' = ruleRow /\ ruleWork' = [p \in Policies |-> "none"]
  /\ jobs' = [j \in Ids |-> IF jobs[j].status = "unsaved" THEN [jobs[j] EXCEPT !.status = "lost"] ELSE jobs[j]]
  /\ known' = {} /\ asked' = [r \in Operators |-> NoRequest] /\ tick' = NoTick
  /\ UNCHANGED <<ruleRow, minute, together>>

UpdatesNext ==
  \/ \E p \in Policies :
       (\E r \in Rules : CreateUpdatePolicy(p, r)) \/ SaveUpdatePolicy(p) \/ DeleteUpdatePolicy(p) \/ ForgetUpdatePolicy(p)
  \/ \E r \in Operators :
       \/ \E mode \in {"plan", "apply"}, p \in Policies, pkgs \in PackageLists, plan \in 0 .. Len(jobs) :
            ValidatePackageUpdate(r, mode, p, pkgs, plan)
       \/ LoadPackagePlan(r) \/ RejectReusedPlan(r) \/ FindExistingJob(r)
       \/ SubmitUpdate(r) \/ SaveUpdate(r)
  \/ TickListsUpdates \/ FindFollowUp \/ SubmitInventory \/ SaveInventory
  \/ \E j \in Ids : ClaimUpdate(j) \/ EndUpdate(j) \/ RetryUpdate(j)
  \/ MinutePasses \/ RestartUpdates
UpdatesSpec == UpdatesInit /\ [][UpdatesNext]_updateVars

-----------------------------------------------------------------------------
\* Type invariant of package updates: what the coordinator knows is a row or
\* may still become one.
UpdatesTypeOK ==
  /\ \A p \in Policies : rule[p] \in Rules \cup {NoRule} /\ ruleRow[p] \in Rules \cup {NoRule}
  /\ minute \in 0 .. Day - 1 /\ known \subseteq Ids /\ together \subseteq Ids
  /\ \A j \in Ids : jobs[j].status \in {"unsaved", "lost", "queued", "running", "succeeded", "failed", "reconcile_required"}
  /\ \A j \in known : jobs[j].status # "lost"
  /\ tick.todo \cup {tick.update} \subseteq 0 .. Len(jobs)

\* Every apply row rests on a plan row that has succeeded, of the same
\* packages and policy, though the plan was looked at several awaits before
\* the INSERT, and whatever became of the policy meanwhile.
AppliedAsPlanned ==
  \A j \in Rows : jobs[j].mode = "apply" =>
    \E p \in Rows : /\ p = jobs[j].plan /\ jobs[p].mode = "plan" /\ jobs[p].status = "succeeded"
                   /\ jobs[p].pkgs = jobs[j].pkgs /\ jobs[p].pol = jobs[j].pol

\* An apply was admitted at a minute that lies, going round the clock, between
\* the start and the end of a rule its policy had, and that rule permits the
\* risk and the packages: UpdatePolicy::allows is right about windows over midnight.
AdmittedInWindow ==
  \A j \in Rows : jobs[j].mode = "apply" =>
    LET r == jobs[j].rule IN
    /\ (jobs[j].checked - r.start) % Day <= (r.end - r.start) % Day
    /\ r.high /\ \A x \in jobs[j].pkgs : r.packages = {} \/ x \in r.packages

\* A plan has two applies only if two requests were past reject_reused_plan
\* together: one that comes after the INSERT of the other, or after a restart,
\* is refused whatever became of the first apply.
ReusedOnlyTogether ==
  \A p \in Ids : Cardinality(Applies(p)) > 1 => p \in together

\* Ticks and restarts, at whatever step, queue at most one package inventory
\* for an apply, and only for one that succeeded.
OneInventoryPerApply ==
  \A j \in Rows : jobs[j].mode = "check" =>
    /\ jobs[jobs[j].plan].mode = "apply" /\ jobs[jobs[j].plan].status = "succeeded"
    /\ \A k \in Rows \ {j} : ~(jobs[k].mode = "check" /\ jobs[k].plan = jobs[j].plan)

\* An apply rests on its own plan and was permitted when it was judged, though
\* policies, plans and the clock move on before its INSERT.
AppliesWerePermitted == UpdatesTypeOK /\ AppliedAsPlanned /\ AdmittedInWindow

\* A plan is used once and an apply followed up once, whatever requests, ticks
\* and restarts repeat; only requests that overlap get past reject_reused_plan.
OncePerPlan == ReusedOnlyTogether /\ OneInventoryPerApply
=============================================================================
