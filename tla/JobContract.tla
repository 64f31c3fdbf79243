----------------------------- MODULE JobContract -----------------------------
(***************************************************************************)
(* The validated execution contract of crates/lxcup-ansible: the           *)
(* operations and modes a workflow job may have, the life cycle of a job   *)
(* and the predicates the controller, the worker and the Windows agent     *)
(* route share.  Pure operators; there is no state here.                   *)
(***************************************************************************)

\* enum AnsibleOperation
Operation == {"deploy_agent", "update_agent", "update_packages",
              "repair_agent", "configure_target", "health_check",
              "collect_package_inventory"}

\* enum ExecutionMode
Mode == {"check", "plan", "apply", "reconcile"}

\* enum AnsibleJobStatus
Status == {"queued", "checking", "planned", "applying", "reconcile_required",
           "succeeded", "failed", "aborted"}

\* The statuses of the partial unique index ansible_jobs_one_active_target_idx
\* and of the NOT EXISTS (... active ...) of both claim queries.
Executing == {"checking", "planned", "applying"}

\* is_active_job_status / is_active_ansible_job_status: what the controller
\* treats as holding the target.
Active == Executing \cup {"reconcile_required"}

\* AnsibleJobStatus::can_transition_to
CanTransitionTo(s, n) ==
    \/ s = "queued"             /\ n \in {"checking", "planned", "aborted"}
    \/ s = "checking"           /\ n \in {"planned", "failed", "aborted"}
    \/ s = "planned"            /\ n \in {"applying", "succeeded", "failed", "aborted"}
    \/ s = "applying"           /\ n \in {"succeeded", "failed", "reconcile_required"}
    \/ s = "reconcile_required" /\ n \in {"succeeded", "failed"}
    \/ s = "failed"             /\ n = "queued"

\* AnsibleOperation::supported_modes, the contract shared with the frontend.
SupportedModes(op) ==
    CASE op \in {"deploy_agent", "update_agent", "repair_agent"} -> {"check", "plan", "apply"}
      [] op = "update_packages"  -> {"plan", "apply"}
      [] op = "configure_target" -> {"check", "apply"}
      [] OTHER                   -> {"check"}

\* AnsibleOperation::can_reconcile_apply
CanReconcileApply(op) ==
    op \in {"deploy_agent", "update_agent", "repair_agent", "update_packages"}

\* AnsibleJob::can_be_reconciled
CanBeReconciled(job) ==
    /\ job.status = "reconcile_required"
    /\ job.mode = "apply"
    /\ CanReconcileApply(job.op)

\* AnsibleJobRepository::retry and AnsibleJobCoordinator::retry: a failed job
\* may be queued again unless it is a package apply.
CanRetry(job) ==
    /\ job.status = "failed"
    /\ ~(job.op = "update_packages" /\ job.mode = "apply")
=============================================================================
