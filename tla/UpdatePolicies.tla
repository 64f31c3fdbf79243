--------------------------- MODULE UpdatePolicies ---------------------------
(* The shared standard update policy: one policy, in the store's memory and *)
(* as a row of update_policies, that should cover every registered target.  *)
(* create_target, list_update_policies and the restart each run             *)
(* ensure_default_update_policies, which reads the targets, reads the       *)
(* policy, writes the row and then writes the memory; each of the four is a *)
(* step between two awaits, and nothing keeps two handlers apart.           *)
EXTENDS Naturals, FiniteSets

CONSTANTS
  Handlers,    \* requests in flight at one time
  Resources,   \* targets that can be registered
  NoResource,
  MaxHandled,  \* bound: requests in a behaviour
  MaxTroubles  \* bound: failed statements, dropped requests and restarts
VARIABLES
  targetRows,   \* the targets table
  registered,   \* store.targets
  policyRow,    \* the standard policy's allowed_targets in the database; {}: no row
  allowed,      \* the same in memory
  handler,      \* the requests in flight
  settled,      \* history: what the last request was, if it ran alone to its end
  remaining     \* requests and troubles left
policyVars == <<targetRows, registered, policyRow, allowed, handler, settled, remaining>>

Unused == [kind |-> "none", at |-> "idle", target |-> NoResource, ids |-> {}, policy |-> {}, alone |-> FALSE]
HandlerSteps == {"idle", "saveTarget", "register", "targets", "policy", "insert", "merge", "save",
                 "memory", "deleteRows", "deleteMemory"}
Busy == {h \in Handlers : handler[h] # Unused}

PoliciesInit ==
  /\ targetRows = {} /\ registered = {} /\ policyRow = {} /\ allowed = {}
  /\ handler = [h \in Handlers |-> Unused] /\ settled = "no"
  /\ remaining = [requests |-> MaxHandled, troubles |-> MaxTroubles]

\* A request starts; whoever is in flight is no longer alone.  The
\* controller serves only when restore_update_policies is over.
Starts(h, q) ==
  /\ handler[h] = Unused /\ remaining.requests > 0
  /\ \A x \in Busy : handler[x].kind # "restart"
  /\ handler' = [x \in Handlers |->
       IF x = h THEN [q EXCEPT !.alone = Busy = {}] ELSE [handler[x] EXCEPT !.alone = FALSE]]
  /\ remaining' = [remaining EXCEPT !.requests = @ - 1] /\ settled' = "no"
Moves(h, step) == handler' = [handler EXCEPT ![h].at = step]
Completes(h) ==
  /\ handler' = [handler EXCEPT ![h] = Unused]
  /\ settled' = IF handler[h].alone THEN handler[h].kind ELSE "no"
\* ? after a storage error, or a dropped request: the steps not taken are lost.
GivesUp(h) ==
  /\ handler[h] # Unused /\ remaining.troubles > 0
  /\ handler[h].kind = "restart" => handler[h].at \in {"insert", "merge", "save"}
  /\ handler' = [handler EXCEPT ![h] = Unused] /\ settled' = "no"
  /\ remaining' = [remaining EXCEPT !.troubles = @ - 1]
  /\ UNCHANGED <<targetRows, registered, policyRow, allowed>>

CreateTarget(h, t) ==
  /\ t \notin targetRows /\ \A x \in Busy : handler[x].target # t
  /\ Starts(h, [Unused EXCEPT !.kind = "create", !.at = "saveTarget", !.target = t])
  /\ UNCHANGED <<targetRows, registered, policyRow, allowed>>
SaveTarget(h) ==
  /\ handler[h].at = "saveTarget" /\ Moves(h, "register")
  /\ targetRows' = targetRows \cup {handler[h].target}
  /\ UNCHANGED <<registered, policyRow, allowed, settled, remaining>>
RegisterTarget(h) ==
  /\ handler[h].at = "register" /\ Moves(h, "targets")
  /\ registered' = registered \cup {handler[h].target}
  /\ UNCHANGED <<targetRows, policyRow, allowed, settled, remaining>>
ListUpdatePolicies(h) ==
  /\ Starts(h, [Unused EXCEPT !.kind = "list", !.at = "targets"])
  /\ UNCHANGED <<targetRows, registered, policyRow, allowed>>

\* ensure_default_update_policies: registered_target_ids.
RegisteredTargetIds(h) ==
  /\ handler[h].at = "targets"
  /\ IF registered = {} THEN Completes(h)
     ELSE handler' = [handler EXCEPT ![h].at = "policy", ![h].ids = registered] /\ UNCHANGED settled
  /\ UNCHANGED <<targetRows, registered, policyRow, allowed, remaining>>

\* default_update_policy: all packages, the whole day, high risk, enabled;
\* only the targets of the standard policy ever change.
DefaultUpdatePolicy(ids) == ids
\* persist_standard_update_policy
PersistStep(exists) == IF exists THEN "save" ELSE "insert"

\* Mutant: an existing policy is taken to cover every target.
CreateStandardOnly(h) ==
  /\ handler[h].at = "policy"
  /\ IF allowed # {} THEN Completes(h)
     ELSE handler' = [handler EXCEPT ![h].at = "insert", ![h].policy = DefaultUpdatePolicy(handler[h].ids)]
          /\ UNCHANGED settled
  /\ UNCHANGED <<targetRows, registered, policyRow, allowed, remaining>>

\* The policy in memory, or the default one, extended by the targets.
ExtendStandardPolicy(h) ==
  LET current == IF allowed = {} THEN DefaultUpdatePolicy(handler[h].ids) ELSE allowed IN
  /\ handler[h].at = "policy"
  /\ IF allowed # {} /\ handler[h].ids \subseteq allowed THEN Completes(h)
     ELSE /\ handler' = [handler EXCEPT ![h].at = PersistStep(allowed # {}),
                                        ![h].policy = current \cup handler[h].ids]
          /\ UNCHANGED settled
  /\ UNCHANGED <<targetRows, registered, policyRow, allowed, remaining>>

\* persist_new_standard_policy: save_if_absent.
SaveIfAbsent(h) ==
  /\ handler[h].at = "insert"
  /\ IF policyRow = {} THEN policyRow' = handler[h].policy /\ Moves(h, "memory")
     ELSE Moves(h, "merge") /\ UNCHANGED policyRow
  /\ UNCHANGED <<targetRows, registered, allowed, settled, remaining>>

\* The row is there already: its targets are kept, and saved when they are fewer.
MergeConcurrentStandardPolicy(h) ==
  LET merged == policyRow \cup handler[h].policy IN
  /\ handler[h].at = "merge"
  /\ IF policyRow = {} THEN Completes(h)
     ELSE /\ handler' = [handler EXCEPT ![h].policy = merged,
                                        ![h].at = IF merged = policyRow THEN "memory" ELSE "save"]
          /\ UNCHANGED settled
  /\ UNCHANGED <<targetRows, registered, policyRow, allowed, remaining>>

\* UpdatePolicyRepository::save replaces the payload.
SavePolicy(h) ==
  /\ handler[h].at = "save" /\ Moves(h, "memory") /\ policyRow' = handler[h].policy
  /\ UNCHANGED <<targetRows, registered, allowed, settled, remaining>>
WritePolicyMemory(h) ==
  /\ handler[h].at = "memory" /\ Completes(h) /\ allowed' = handler[h].policy
  /\ UNCHANGED <<targetRows, registered, policyRow, remaining>>

\* delete_target: the transaction takes the target out of the row, and a
\* policy left with none goes; the memory follows.
DeleteResource(h, t) ==
  /\ t \in registered /\ \A x \in Busy : handler[x].target # t
  /\ \A x \in Busy : handler[x].kind # "delete"     \* scheduler_lock
  /\ Starts(h, [Unused EXCEPT !.kind = "delete", !.at = "deleteRows", !.target = t])
  /\ UNCHANGED <<targetRows, registered, policyRow, allowed>>
DeleteWithRelatedData(h) ==
  /\ handler[h].at = "deleteRows" /\ Moves(h, "deleteMemory")
  /\ targetRows' = targetRows \ {handler[h].target} /\ policyRow' = policyRow \ {handler[h].target}
  /\ UNCHANGED <<registered, allowed, settled, remaining>>
ForgetResource(h) ==
  /\ handler[h].at = "deleteMemory"
  /\ handler' = [handler EXCEPT ![h] = Unused] /\ UNCHANGED settled
  /\ registered' = registered \ {handler[h].target} /\ allowed' = allowed \ {handler[h].target}
  /\ UNCHANGED <<targetRows, policyRow, remaining>>

\* The controller stops; restore_targets and restore_update_policies, which
\* ends without policies when it cannot list them.
RestoreUpdatePolicies(h) ==
  /\ remaining.troubles > 0 /\ remaining' = [remaining EXCEPT !.troubles = @ - 1]
  /\ registered' = targetRows /\ settled' = "no"
  /\ \/ /\ allowed' = policyRow
        /\ handler' = [x \in Handlers |-> IF x = h
             THEN [Unused EXCEPT !.kind = "restart", !.at = "targets", !.alone = TRUE] ELSE Unused]
     \/ allowed' = {} /\ handler' = [x \in Handlers |-> Unused]
  /\ UNCHANGED <<targetRows, policyRow>>

HandlerStep(h) ==
  \/ SaveTarget(h) \/ RegisterTarget(h) \/ RegisteredTargetIds(h) \/ ExtendStandardPolicy(h)
  \/ SaveIfAbsent(h) \/ MergeConcurrentStandardPolicy(h) \/ SavePolicy(h) \/ WritePolicyMemory(h)
  \/ DeleteWithRelatedData(h) \/ ForgetResource(h)
PoliciesNext ==
  \E h \in Handlers :
    \/ \E t \in Resources : CreateTarget(h, t) \/ DeleteResource(h, t)
    \/ ListUpdatePolicies(h) \/ HandlerStep(h) \/ GivesUp(h) \/ RestoreUpdatePolicies(h)
PoliciesSpec == PoliciesInit /\ [][PoliciesNext]_policyVars

-----------------------------------------------------------------------------
\* Type invariant of the standard policy; one without targets is never written.
PoliciesTypeOK ==
  /\ targetRows \subseteq Resources /\ registered \subseteq Resources
  /\ policyRow \subseteq Resources /\ allowed \subseteq Resources
  /\ handler \in [Handlers -> [kind : {"none", "create", "list", "delete", "restart"}, at : HandlerSteps,
                               target : Resources \cup {NoResource}, ids : SUBSET Resources,
                               policy : SUBSET Resources, alone : BOOLEAN]]
  /\ settled \in {"no", "create", "list", "restart"}
  /\ \A h \in Handlers : handler[h].at \in {"insert", "merge", "save", "memory"} => handler[h].policy # {}

\* What overlapping, failed or dropped requests left out of the standard
\* policy is put back by the next create_target or list_update_policies that
\* runs alone: the memory, by which package requests are judged, then covers
\* every registered target.  Only a restart also repairs the row.
StandardPolicyRepaired ==
  /\ PoliciesTypeOK
  /\ settled # "no" => registered \subseteq allowed
  /\ settled = "restart" => registered \subseteq policyRow
=============================================================================
