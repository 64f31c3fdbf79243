----------------------------- MODULE Executions -----------------------------
(***************************************************************************)
(* Confirmed container updates: plans and the ExecutionCoordinator of the  *)
(* controller, its HTTP client with retries, and the agent that runs apt   *)
(* and caches one answer per idempotency key (the execution id).           *)
(*                                                                         *)
(* A handler holds no lock across an await: each step is what it does      *)
(* between two of them.  mark_connection_lost has no caller and is no      *)
(* action.  An attempt of a command is call[e][n]; a client that gives up  *)
(* drops the connection, upon which the agent's runtime may drop the       *)
(* handler while apt goes on ("orphan").                                   *)
(***************************************************************************)
EXTENDS Naturals

CONSTANTS
  Plans, Execs, Keys,   \* ids of plans and executions, idempotency keys
  Clients,              \* concurrent API requests
  Operations,           \* which of "abort" and "reconcile" are called
  MaxRetries,           \* AgentClientConfig::max_retries
  MaxFaults,            \* bound on storage errors, restarts, dropped requests
  NoPlan, NoExec

ASSUME NullAssumption == NoPlan \notin Plans /\ NoExec \notin Execs
ASSUME BoundAssumption ==
  MaxRetries \in Nat /\ MaxFaults \in Nat /\ Operations \subseteq {"abort", "reconcile"}

VARIABLES
  plan,       \* status of the plans in memory
  planRow,    \* plans stored in update_plans
  exec,       \* ExecutionCoordinator: status and plan of each execution
  key,        \* ExecutionCoordinator::idempotency
  view,       \* ApiStore::executions, what get_execution answers
  result,     \* ApiStore::results
  row,        \* the executions table
  resultRow,  \* executions with a row in execution_results
  known,      \* execution ids some client was told
  req,        \* the request of each client
  call,       \* the attempts of the agent command of each execution
  cache,      \* LocalAgentState::results
  applied,    \* executions of which an apt process exited 0
  faults

controller == <<plan, exec, key, view, result>>
tables == <<planRow, row, resultRow>>
agent == <<call, cache, applied>>
vars == <<controller, tables, known, req, agent, faults>>

PlanStatus == {"none", "ready", "blocked", "confirmed", "lost"}
Final == {"succeeded", "failed", "aborted"}
Outcome == {"succeeded", "failed"}
Status == {"none", "queued", "running", "lost"} \cup Final
Attempts == 0..MaxRetries
CallState == {"none", "sent", "running", "orphan", "lost"} \cup Outcome

Idle == [pc |-> "idle", plan |-> NoPlan, exec |-> NoExec, attempt |-> 0, got |-> "none"]
Request ==
  [pc : {"idle", "save_plan", "save_exec", "view", "send", "wait", "finish", "store",
         "update", "save_result"},
   plan : Plans \cup {NoPlan}, exec : Execs \cup {NoExec}, attempt : Attempts, got : Status]

Init ==
  /\ plan = [p \in Plans |-> "none"]
  /\ planRow = {}
  /\ exec = [e \in Execs |-> [status |-> "none", plan |-> NoPlan]]
  /\ key = [k \in Keys |-> NoExec]
  /\ view = [e \in Execs |-> "none"]
  /\ result = [e \in Execs |-> "none"]
  /\ row = [e \in Execs |-> "none"]
  /\ resultRow = {} /\ known = {}
  /\ req = [c \in Clients |-> Idle]
  /\ call = [e \in Execs |-> [n \in Attempts |-> "none"]]
  /\ cache = [e \in Execs |-> "none"]
  /\ applied = {}
  /\ faults = 0

Goto(c, pc) == req' = [req EXCEPT ![c].pc = pc]
Done(c) == req' = [req EXCEPT ![c] = Idle]
SetStatus(e, s) == exec' = [exec EXCEPT ![e].status = s]

----------------------------------------------------------------------------
(* Plans *)

(* UpdatePlanner::build: a removal, a downgrade or a distribution upgrade  *)
(* blocks the plan; held or unauthenticated packages are no plan at all.   *)
CreatePlan(c, p, blocked) ==
  /\ req[c] = Idle /\ plan[p] = "none"
  /\ plan' = [plan EXCEPT ![p] = IF blocked THEN "blocked" ELSE "ready"]
  /\ req' = [req EXCEPT ![c] = [Idle EXCEPT !.pc = "save_plan", !.plan = p]]
  /\ UNCHANGED <<exec, key, view, result, tables, known, agent, faults>>

SavePlan(c) ==
  /\ req[c].pc = "save_plan"
  /\ planRow' = planRow \cup {req[c].plan}
  /\ Done(c)
  /\ UNCHANGED <<controller, row, resultRow, known, agent, faults>>

(* confirm_plan under the store's write lock: the plan is confirmed first, *)
(* then ExecutionCoordinator::start looks the key up.  The input it is     *)
(* revalidated against is made of the plan, so it is always unchanged.     *)
ConfirmPlan(c, p, k) ==
  /\ req[c] = Idle /\ plan[p] = "ready"
  /\ plan' = [plan EXCEPT ![p] = "confirmed"]
  /\ \/ /\ key[k] # NoExec
        /\ known' = known \cup {key[k]}
        /\ UNCHANGED <<exec, key, view, req>>
     \/ \E e \in Execs :
          /\ key[k] = NoExec /\ exec[e].status = "none"
          /\ exec' = [exec EXCEPT ![e] = [status |-> "queued", plan |-> p]]
          /\ key' = [key EXCEPT ![k] = e]
          /\ view' = [view EXCEPT ![e] = "queued"]
          /\ req' = [req EXCEPT ![c] = [Idle EXCEPT !.pc = "save_exec", !.plan = p, !.exec = e]]
          /\ UNCHANGED known
  /\ UNCHANGED <<result, tables, agent, faults>>

(* An empty actor or key: start refuses, the plan stays confirmed. *)
ConfirmWithoutIdentity(p) ==
  /\ plan[p] = "ready"
  /\ plan' = [plan EXCEPT ![p] = "confirmed"]
  /\ UNCHANGED <<exec, key, view, result, tables, known, req, agent, faults>>

(* The INSERT of the queued clone; its foreign key asks for the plan's row. *)
SaveExecution(c) ==
  LET r == req[c]
  IN /\ r.pc = "save_exec"
     /\ IF r.plan \in planRow
        THEN row' = [row EXCEPT ![r.exec] = "queued"] /\ known' = known \cup {r.exec}
        ELSE UNCHANGED <<row, known>>
     /\ Done(c)
     /\ UNCHANGED <<controller, planRow, resultRow, agent, faults>>

----------------------------------------------------------------------------
(* abort_execution and reconcile_execution: the coordinator first, then    *)
(* the copy it returned replaces the one in the store.                     *)

AbortExecution(c, e) ==
  /\ req[c] = Idle /\ e \in known
  /\ exec[e].status \in {"queued", "running"}
  /\ SetStatus(e, "aborted")
  /\ req' = [req EXCEPT ![c] = [Idle EXCEPT !.pc = "view", !.exec = e, !.got = "aborted"]]
  /\ UNCHANGED <<plan, key, view, result, tables, known, agent, faults>>

(* A final state, and an observation that is running or unknown, change    *)
(* nothing; succeeded and failed finish a running execution.               *)
ReconcileExecution(c, e, observed) ==
  LET s == exec[e].status
      next == IF s = "running" /\ observed \in Outcome THEN observed ELSE s
  IN /\ req[c] = Idle /\ e \in known
     /\ s # "lost"
     /\ s = "queued" => observed \notin Outcome
     /\ SetStatus(e, next)
     /\ req' = [req EXCEPT ![c] = [Idle EXCEPT !.pc = "view", !.exec = e, !.got = next]]
     /\ UNCHANGED <<plan, key, view, result, tables, known, agent, faults>>

ReplaceView(c) ==
  /\ req[c].pc = "view"
  /\ view' = [view EXCEPT ![req[c].exec] = req[c].got]
  /\ Done(c)
  /\ UNCHANGED <<plan, exec, key, result, tables, known, agent, faults>>

----------------------------------------------------------------------------
(* run_execution *)

(* ExecutionCoordinator::begin, once the agent of the container is found. *)
BeginRun(c, e) ==
  /\ req[c] = Idle /\ e \in known
  /\ exec[e].status = "queued"
  /\ SetStatus(e, "running")
  /\ req' = [req EXCEPT ![c] = [Idle EXCEPT !.pc = "send", !.exec = e]]
  /\ UNCHANGED <<plan, key, view, result, tables, known, agent, faults>>

CallOf(r) == call[r.exec][r.attempt]
SetCall(e, n, s) == call' = [call EXCEPT ![e][n] = s]

SendCommand(c) ==
  LET r == req[c]
  IN /\ r.pc = "send"
     /\ SetCall(r.exec, r.attempt, "sent")
     /\ Goto(c, "wait")
     /\ UNCHANGED <<controller, tables, known, cache, applied, faults>>

(* A success status with the agent's answer. *)
ReceiveAnswer(c) ==
  LET r == req[c]
  IN /\ r.pc = "wait" /\ CallOf(r) \in Outcome
     /\ req' = [req EXCEPT ![c].pc = "finish", ![c].got = CallOf(r)]
     /\ UNCHANGED <<controller, tables, known, agent, faults>>

(* A success status whose body cannot be read or decoded: no retry. *)
AnswerUnreadable(c) ==
  /\ req[c].pc = "wait" /\ CallOf(req[c]) \in Outcome
  /\ req' = [req EXCEPT ![c].pc = "finish", ![c].got = "failed"]
  /\ UNCHANGED <<controller, tables, known, agent, faults>>

(* AgentClient::request after 20 s or a broken connection: another attempt *)
(* or AgentError::Transport, which run_execution turns into exit code 1.   *)
Timeout(c) ==
  LET r == req[c]
      s == CallOf(r)
  IN /\ r.pc = "wait"
     /\ \E left \in {s} \cup (CASE s = "running" -> {"orphan"}
                                [] s = "sent" -> {"lost"}
                                [] OTHER -> {}) : SetCall(r.exec, r.attempt, left)
     /\ req' = IF r.attempt < MaxRetries
               THEN [req EXCEPT ![c].pc = "send", ![c].attempt = @ + 1]
               ELSE [req EXCEPT ![c].pc = "finish", ![c].got = "failed"]
     /\ UNCHANGED <<controller, tables, known, cache, applied, faults>>

(* The agent answers 401, 409 or 400: no retry. *)
AgentRefuses(c) ==
  LET r == req[c]
  IN /\ r.pc = "wait" /\ CallOf(r) = "sent"
     /\ SetCall(r.exec, r.attempt, "lost")
     /\ req' = [req EXCEPT ![c].pc = "finish", ![c].got = "failed"]
     /\ UNCHANGED <<controller, tables, known, cache, applied, faults>>

(* ExecutionCoordinator::finish; an execution that was aborted or          *)
(* reconciled meanwhile refuses it and the answer is dropped.              *)
FinishRun(c) ==
  /\ req[c].pc = "finish"
  /\ IF exec[req[c].exec].status = "running"
     THEN SetStatus(req[c].exec, req[c].got) /\ Goto(c, "store")
     ELSE UNCHANGED exec /\ Done(c)
  /\ UNCHANGED <<plan, key, view, result, tables, known, agent, faults>>

StoreResult(c) ==
  LET r == req[c]
  IN /\ r.pc = "store"
     /\ view' = [view EXCEPT ![r.exec] = r.got]
     /\ result' = [result EXCEPT ![r.exec] = r.got]
     /\ Goto(c, "update")
     /\ UNCHANGED <<plan, exec, key, tables, known, agent, faults>>

(* An UPDATE that finds no row is no error. *)
UpdateRow(c) ==
  LET r == req[c]
  IN /\ r.pc = "update"
     /\ row' = [row EXCEPT ![r.exec] = IF @ = "none" THEN @ ELSE r.got]
     /\ Goto(c, "save_result")
     /\ UNCHANGED <<controller, planRow, resultRow, known, agent, faults>>

SaveResult(c) ==
  LET e == req[c].exec
  IN /\ req[c].pc = "save_result"
     /\ resultRow' = IF row[e] = "none" THEN resultRow ELSE resultRow \cup {e}
     /\ Done(c)
     /\ UNCHANGED <<controller, planRow, row, known, agent, faults>>

----------------------------------------------------------------------------
(* The agent *)

CacheBeforeRun(e, n) ==
  /\ call[e][n] = "sent"
  /\ IF cache[e] # "none"
     THEN SetCall(e, n, cache[e]) /\ UNCHANGED cache
     ELSE /\ SetCall(e, n, "running")
          /\ cache' = [cache EXCEPT ![e] = "succeeded"]
  /\ UNCHANGED <<controller, tables, known, req, applied, faults>>

(* agent_command: the lookup and the insert of the cache are two locks. *)
AgentCommand(e, n) ==
  /\ call[e][n] = "sent"
  /\ SetCall(e, n, IF cache[e] # "none" THEN cache[e] ELSE "running")
  /\ UNCHANGED <<controller, tables, known, req, cache, applied, faults>>

CommandEnds(e, n, out) ==
  /\ call[e][n] \in {"running", "orphan"}
  /\ applied' = IF out = "succeeded" THEN applied \cup {e} ELSE applied
  /\ IF call[e][n] = "running"
     THEN SetCall(e, n, out) /\ cache' = [cache EXCEPT ![e] = out]
     ELSE SetCall(e, n, "lost") /\ UNCHANGED cache
  /\ UNCHANGED <<controller, tables, known, req, faults>>

(* results.clear() at 512 entries. *)
CacheCleared ==
  /\ faults < MaxFaults /\ faults' = faults + 1
  /\ cache' = [e \in Execs |-> "none"]
  /\ UNCHANGED <<controller, tables, known, req, call, applied>>

(* systemd stops the processes of the service with it. *)
AgentRestart ==
  /\ faults < MaxFaults /\ faults' = faults + 1
  /\ cache' = [e \in Execs |-> "none"]
  /\ call' = [e \in Execs |-> [n \in Attempts |->
                IF call[e][n] \in {"sent", "running", "orphan"} THEN "lost" ELSE call[e][n]]]
  /\ UNCHANGED <<controller, tables, known, req, applied>>

----------------------------------------------------------------------------
(* Faults of the controller *)

(* A statement of a handler fails: 500, what memory holds stays. *)
StorageError(c) ==
  /\ req[c].pc \in {"save_plan", "save_exec", "update", "save_result"}
  /\ faults < MaxFaults /\ faults' = faults + 1
  /\ Done(c)
  /\ UNCHANGED <<controller, tables, known, agent>>

(* The browser disconnects and the runtime drops the handler. *)
RequestDropped(c) ==
  /\ req[c] # Idle
  /\ faults < MaxFaults /\ faults' = faults + 1
  /\ Done(c)
  /\ UNCHANGED <<controller, tables, known, agent>>

(* Nothing of plans and executions is restored at start. *)
ControllerRestart ==
  /\ faults < MaxFaults /\ faults' = faults + 1
  /\ plan' = [p \in Plans |-> IF plan[p] = "none" THEN "none" ELSE "lost"]
  /\ exec' = [e \in Execs |-> IF exec[e].status = "none" THEN exec[e]
                              ELSE [exec[e] EXCEPT !.status = "lost"]]
  /\ key' = [k \in Keys |-> NoExec]
  /\ view' = [e \in Execs |-> "none"]
  /\ result' = [e \in Execs |-> "none"]
  /\ req' = [c \in Clients |-> Idle]
  /\ UNCHANGED <<tables, known, agent>>

----------------------------------------------------------------------------
Arrival(c) ==
  \/ \E p \in Plans, blocked \in BOOLEAN : CreatePlan(c, p, blocked)
  \/ \E p \in Plans, k \in Keys : ConfirmPlan(c, p, k)
  \/ \E e \in Execs : BeginRun(c, e)
  \/ \E e \in Execs : "abort" \in Operations /\ AbortExecution(c, e)
  \/ \E e \in Execs, observed \in Outcome \cup {"running", "unknown"} :
        "reconcile" \in Operations /\ ReconcileExecution(c, e, observed)

Handler(c) ==
  \/ SavePlan(c) \/ SaveExecution(c) \/ ReplaceView(c)
  \/ SendCommand(c) \/ ReceiveAnswer(c) \/ AnswerUnreadable(c) \/ Timeout(c) \/ AgentRefuses(c)
  \/ FinishRun(c) \/ StoreResult(c) \/ UpdateRow(c) \/ SaveResult(c)

Agent ==
  \/ \E e \in Execs, n \in Attempts :
        AgentCommand(e, n) \/ \E out \in Outcome : CommandEnds(e, n, out)
  \/ CacheCleared \/ AgentRestart

Next ==
  \/ \E c \in Clients : Arrival(c) \/ Handler(c) \/ StorageError(c) \/ RequestDropped(c)
  \/ \E p \in Plans : ConfirmWithoutIdentity(p)
  \/ Agent
  \/ ControllerRestart

Spec == Init /\ [][Next]_vars

(* The runtime polls a handler until it answers; nothing is assumed of     *)
(* operators, of the agent or of the network.                              *)
FairSpec == Spec /\ \A c \in Clients : WF_vars(Handler(c))

----------------------------------------------------------------------------
(* Every table, map and request in flight has the shape of its type; no    *)
(* request makes more than max_retries retries.                            *)
TypeOK ==
  /\ plan \in [Plans -> PlanStatus] /\ planRow \subseteq Plans
  /\ exec \in [Execs -> [status : Status, plan : Plans \cup {NoPlan}]]
  /\ key \in [Keys -> Execs \cup {NoExec}]
  /\ view \in [Execs -> Status] /\ row \in [Execs -> Status]
  /\ result \in [Execs -> Outcome \cup {"none"}]
  /\ resultRow \subseteq Execs /\ known \subseteq Execs /\ applied \subseteq Execs
  /\ req \in [Clients -> Request]
  /\ call \in [Execs -> [Attempts -> CallState]]
  /\ cache \in [Execs -> Outcome \cup {"none"}]
  /\ faults \in 0..MaxFaults

(* A plan is executed at most once, whatever confirmations race and        *)
(* whichever idempotency keys they use, also across a restart.             *)
PlanExecutedOnce ==
  \A e, f \in Execs : exec[e].plan = exec[f].plan /\ exec[e].plan # NoPlan => e = f

(* Two run requests never command the agent for the same execution: begin  *)
(* lets one of them through.                                               *)
Commanding(c) == req[c].pc \in {"send", "wait", "finish"}
OneRunner ==
  \A c, d \in Clients : Commanding(c) /\ Commanding(d) /\ req[c].exec = req[d].exec => c = d

(* A stored result is the one the coordinator accepted, in memory and in   *)
(* the tables, although abort, reconcile and run race for the final state. *)
ResultsAgree ==
  \A e \in Execs :
    /\ result[e] # "none" => exec[e].status = result[e]
    /\ row[e] \in Final => exec[e].status \in {row[e], "lost"}

(* An execution a run reported as succeeded had an apt process that exited *)
(* 0, whatever was retried, cached, cleared or restarted in between.       *)
SucceededWasApplied == \A e \in Execs : result[e] = "succeeded" => e \in applied

(* A plan is executed once and the result of its execution is true: one     *)
(* request at a time commands the agent for it, the result stored is the    *)
(* one accepted, and a success is one of apt (start, begin, finish and      *)
(* reconcile of the coordinator, the agent's memory of answers).            *)
ExecutionsTrue == TypeOK /\ PlanExecutedOnce /\ OneRunner /\ ResultsAgree /\ SucceededWasApplied

(* Every request is answered: the retries of the agent client end.         *)
RequestsAnswered == \A c \in Clients : req[c] # Idle ~> req[c] = Idle

=============================================================================
