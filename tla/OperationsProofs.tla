-------------------------- MODULE OperationsProofs --------------------------
(***************************************************************************)
(* For any number of plans, keys, requests, retries and faults: a plan is  *)
(* executed once, one run request at a time commands the agent for an      *)
(* execution, stored results are the ones the coordinator accepted, and a  *)
(* reported success is a success of apt.  None of the four is inductive    *)
(* alone; ExecInv adds what a request in flight knows about its execution  *)
(* (RunnerBegun, StoredIsFinal), that an executed plan is spent            *)
(* (PlanSpent) and that every "succeeded" on its way from the agent to the *)
(* result stems from a process (AnswersAreReal).  The further parts, each  *)
(* with its own invariant, are about the terminal, the onboarding, the     *)
(* planner, the scans and the alerts.                                      *)
(***************************************************************************)
EXTENDS Executions, Terminal, Onboarding, Planner, Scans, TelemetryAlerts,
        FiniteSetTheorems, WellFoundedInduction, TLAPS

(* An executed plan cannot be confirmed again. *)
PlanSpent ==
  \A e \in Execs : exec[e].plan # NoPlan => plan[exec[e].plan] \in {"confirmed", "lost"}

(* A request that commands the agent has begun its execution. *)
RunnerBegun ==
  \A c \in Clients : Commanding(c) => exec[req[c].exec].status \notin {"none", "queued"}

(* A request that stores a result finished its execution with it. *)
StoredIsFinal ==
  \A c \in Clients : req[c].pc \in {"store", "update", "save_result"} =>
    req[c].got \in Outcome /\ exec[req[c].exec].status = req[c].got

(* Every success on its way to the result comes from a process. *)
AnswersAreReal ==
  /\ \A e \in Execs : cache[e] = "succeeded" => e \in applied
  /\ \A e \in Execs, n \in Attempts : call[e][n] = "succeeded" => e \in applied
  /\ \A c \in Clients : req[c].pc \in {"finish", "store"} /\ req[c].got = "succeeded" =>
       req[c].exec \in applied

(* Requests in flight name an execution or a plan where their step uses it. *)
Bound ==
  \A c \in Clients :
    /\ req[c].pc \in {"save_exec", "view", "send", "wait", "finish", "store", "update",
                      "save_result"} => req[c].exec \in Execs
    /\ req[c].pc = "save_plan" => req[c].plan \in Plans
    /\ req[c].pc \in {"finish", "store", "update", "save_result"} => req[c].got \in Outcome

ExecInv ==
  /\ TypeOK /\ Bound
  /\ PlanSpent /\ PlanExecutedOnce
  /\ RunnerBegun /\ OneRunner
  /\ StoredIsFinal /\ ResultsAgree
  /\ AnswersAreReal /\ SucceededWasApplied

----------------------------------------------------------------------------
LEMMA InitInv == Init => ExecInv
  BY NullAssumption, BoundAssumption
  DEF Init, ExecInv, TypeOK, Bound, PlanSpent, PlanExecutedOnce, RunnerBegun, OneRunner, Commanding,
      StoredIsFinal, ResultsAgree, AnswersAreReal, SucceededWasApplied, Request, Idle, Status,
      Outcome, Final, PlanStatus, CallState, Attempts

----------------------------------------------------------------------------
(* What a request may become, and what a step other than a confirmation or *)
(* a restart may do to the rest: executions move forward only, results and *)
(* rows take the status the coordinator holds, a success has its process.  *)

Begins(c) ==
  Commanding(c)' => \/ Commanding(c) /\ req'[c].exec = req[c].exec
                    \/ /\ exec[req'[c].exec].status = "queued"
                       /\ exec'[req'[c].exec].status = "running"

Fits(c) ==
  /\ req'[c].pc \in {"save_exec", "view", "send", "wait", "finish", "store", "update",
                     "save_result"} => req'[c].exec \in Execs
  /\ req'[c].pc = "save_plan" => req'[c].plan \in Plans
  /\ req'[c].pc \in {"finish", "store", "update", "save_result"} => req'[c].got \in Outcome
  /\ req'[c].pc \in {"store", "update", "save_result"} =>
       exec'[req'[c].exec].status = req'[c].got
  /\ req'[c].pc \in {"finish", "store"} /\ req'[c].got = "succeeded" =>
       req'[c].exec \in applied'
  /\ Begins(c)

OneRequest ==
  /\ \A c \in Clients : req'[c] = req[c] \/ Fits(c)
  /\ \A c, d \in Clients : req'[c] # req[c] /\ req'[d] # req[d] => c = d

PlansForward ==
  \A p \in Plans : plan'[p] = plan[p] \/ plan[p] \in {"none", "ready"}

ExecsForward ==
  \A e \in Execs :
    /\ exec'[e].plan = exec[e].plan
    /\ \/ exec'[e].status = exec[e].status
       \/ exec[e].status \in {"queued", "running"} /\ exec'[e].status \in {"running"} \cup Final

RecordsAgree ==
  \A e \in Execs :
    /\ result'[e] = result[e] \/ /\ result'[e] = exec'[e].status
                                 /\ result'[e] = "succeeded" => e \in applied'
    /\ row'[e] = row[e] \/ row'[e] \notin Final \/ row'[e] = exec'[e].status

SuccessesReal ==
  /\ applied \subseteq applied'
  /\ \A e \in Execs : cache'[e] = cache[e] \/ (cache'[e] = "succeeded" => e \in applied')
  /\ \A e \in Execs, n \in Attempts :
       call'[e][n] = call[e][n] \/ (call'[e][n] = "succeeded" => e \in applied')

Forward == OneRequest /\ PlansForward /\ ExecsForward /\ RecordsAgree /\ SuccessesReal

(* Such a step keeps the invariant. *)
LEMMA ForwardKeeps ==
  ASSUME ExecInv, TypeOK', Forward
  PROVE  ExecInv'
<1> USE DEF ExecInv
<1>1. Bound'
  BY DEF Bound, Forward, OneRequest, Fits
<1>2. PlanSpent'
  <2> SUFFICES ASSUME NEW e \in Execs, exec'[e].plan # NoPlan
               PROVE  plan'[exec'[e].plan] \in {"confirmed", "lost"}
    BY DEF PlanSpent
  <2>1. exec'[e].plan = exec[e].plan
    BY DEF Forward, ExecsForward
  <2>2. exec[e].plan \in Plans
    BY <2>1 DEF TypeOK
  <2>3. plan[exec[e].plan] \in {"confirmed", "lost"}
    BY <2>1 DEF PlanSpent
  <2>4. plan'[exec[e].plan] = plan[exec[e].plan]
    BY <2>2, <2>3 DEF Forward, PlansForward
  <2> QED BY <2>1, <2>3, <2>4
<1>3. PlanExecutedOnce'
  BY DEF PlanExecutedOnce, Forward, ExecsForward
<1>4. RunnerBegun'
  <2> SUFFICES ASSUME NEW c \in Clients, Commanding(c)'
               PROVE  exec'[req'[c].exec].status \notin {"none", "queued"}
    BY DEF RunnerBegun
  <2>1. req'[c].exec \in Execs
    BY <1>1 DEF Bound, Commanding
  <2>2. \/ Commanding(c) /\ req'[c].exec = req[c].exec
        \/ exec'[req'[c].exec].status = "running"
    BY DEF Forward, OneRequest, Fits, Begins, Commanding
  <2> QED BY <2>1, <2>2 DEF RunnerBegun, Forward, ExecsForward, Final
<1>5. OneRunner'
  <2> SUFFICES ASSUME NEW c \in Clients, NEW d \in Clients, Commanding(c)', Commanding(d)',
                      req'[c].exec = req'[d].exec, c # d
               PROVE  FALSE
    BY DEF OneRunner
  <2>1. ASSUME NEW x \in Clients, NEW y \in Clients, Commanding(x)', Commanding(y)',
               req'[x].exec = req'[y].exec, x # y, req'[x] = req[x]
        PROVE  FALSE
    <3>1. Commanding(x)
      BY <2>1 DEF Commanding
    <3>2. ~ Commanding(y) \/ req'[y].exec # req[y].exec
      BY <2>1, <3>1 DEF OneRunner
    <3>3. exec[req'[y].exec].status = "queued"
      BY <2>1, <3>2 DEF Forward, OneRequest, Fits, Begins, Commanding
    <3> QED BY <2>1, <3>1, <3>3 DEF RunnerBegun
  <2>2. req'[c] = req[c] \/ req'[d] = req[d]
    BY DEF Forward, OneRequest
  <2> QED BY <2>1, <2>2
<1>6. StoredIsFinal'
  <2> SUFFICES ASSUME NEW c \in Clients, req'[c].pc \in {"store", "update", "save_result"}
               PROVE  req'[c].got \in Outcome /\ exec'[req'[c].exec].status = req'[c].got
    BY DEF StoredIsFinal
  <2>1. req'[c].exec \in Execs
    BY <1>1 DEF Bound
  <2>2. CASE req'[c] = req[c]
    BY <2>1, <2>2 DEF StoredIsFinal, Forward, ExecsForward, Outcome
  <2>3. CASE Fits(c)
    BY <2>3 DEF Fits
  <2> QED BY <2>2, <2>3 DEF Forward, OneRequest
<1>7. ResultsAgree'
  <2> SUFFICES ASSUME NEW e \in Execs
               PROVE  /\ result'[e] # "none" => exec'[e].status = result'[e]
                      /\ row'[e] \in Final => exec'[e].status \in {row'[e], "lost"}
    BY DEF ResultsAgree
  <2>1. result'[e] # "none" => exec'[e].status = result'[e]
    <3>1. result[e] \in Outcome \cup {"none"}
      BY DEF TypeOK
    <3> QED BY <3>1 DEF Forward, RecordsAgree, ExecsForward, ResultsAgree, Outcome
  <2>2. row'[e] \in Final => exec'[e].status \in {row'[e], "lost"}
    BY DEF Forward, RecordsAgree, ExecsForward, ResultsAgree, Final
  <2> QED BY <2>1, <2>2
<1>8. AnswersAreReal'
  <2>1. \A e \in Execs : cache'[e] = "succeeded" => e \in applied'
    BY DEF AnswersAreReal, Forward, SuccessesReal
  <2>2. \A e \in Execs, n \in Attempts : call'[e][n] = "succeeded" => e \in applied'
    BY DEF AnswersAreReal, Forward, SuccessesReal
  <2>3. \A c \in Clients : req'[c].pc \in {"finish", "store"} /\ req'[c].got = "succeeded" =>
          req'[c].exec \in applied'
    BY DEF AnswersAreReal, Forward, SuccessesReal, OneRequest, Fits
  <2> QED BY <2>1, <2>2, <2>3 DEF AnswersAreReal
<1>9. SucceededWasApplied'
  BY DEF SucceededWasApplied, Forward, RecordsAgree, SuccessesReal
<1> QED BY <1>1, <1>2, <1>3, <1>4, <1>5, <1>6, <1>7, <1>8, <1>9

----------------------------------------------------------------------------
(* The effect of one assignment to a request or to an execution. *)

Becomes(c, r) ==
  /\ req' \in [Clients -> Request]
  /\ req'[c] = r
  /\ \A d \in Clients : d # c => req'[d] = req[d]

LEMMA IdleRequest ==
  /\ Idle \in Request
  /\ Idle.pc = "idle" /\ Idle.plan = NoPlan /\ Idle.exec = NoExec
  /\ Idle.attempt = 0 /\ Idle.got = "none"
BY BoundAssumption DEF Idle, Request, Attempts, Status

LEMMA RequestBecomes ==
  ASSUME TypeOK, NEW c \in Clients, NEW r \in Request, req' = [req EXCEPT ![c] = r]
  PROVE  Becomes(c, r)
BY DEF TypeOK, Becomes

(* A request that becomes one that fits moves alone. *)
LEMMA BecomesFits ==
  ASSUME NEW c \in Clients, NEW r \in Request, Becomes(c, r), Fits(c)
  PROVE  OneRequest
BY DEF Becomes, OneRequest

(* A request that is answered asks for nothing more. *)
LEMMA DoneFits ==
  ASSUME TypeOK, NEW c \in Clients, Done(c)
  PROVE  OneRequest /\ req' \in [Clients -> Request]
<1>1. Becomes(c, Idle)
  BY IdleRequest, RequestBecomes DEF Done
<1>2. req'[c].pc = "idle"
  BY <1>1, IdleRequest DEF Becomes
<1>3. Fits(c)
  BY <1>2 DEF Fits, Begins, Commanding
<1> QED BY <1>1, <1>3, IdleRequest, BecomesFits DEF Becomes

LEMMA RequestFields ==
  ASSUME NEW r \in Request,
         NEW pc \in {"idle", "save_plan", "save_exec", "view", "send", "wait", "finish", "store",
                     "update", "save_result"},
         NEW g \in Status, NEW n \in Attempts,
         NEW p \in Plans \cup {NoPlan}, NEW e \in Execs \cup {NoExec}
  PROVE  /\ [r EXCEPT !.pc = pc] \in Request
         /\ [r EXCEPT !.pc = pc, !.got = g] \in Request
         /\ [r EXCEPT !.pc = pc, !.attempt = n] \in Request
         /\ [r EXCEPT !.pc = pc, !.plan = p] \in Request
         /\ [r EXCEPT !.pc = pc, !.exec = e] \in Request
         /\ [r EXCEPT !.pc = pc, !.exec = e, !.got = g] \in Request
         /\ [r EXCEPT !.pc = pc, !.plan = p, !.exec = e] \in Request
<1>1. [r EXCEPT !.pc = pc] \in Request
  BY DEF Request
<1>2. [r EXCEPT !.pc = pc, !.got = g] \in Request
  BY DEF Request
<1>3. [r EXCEPT !.pc = pc, !.attempt = n] \in Request
  BY DEF Request
<1>4. [r EXCEPT !.pc = pc, !.plan = p] \in Request
  BY DEF Request
<1>5. [r EXCEPT !.pc = pc, !.exec = e] \in Request
  BY DEF Request
<1>6. [r EXCEPT !.pc = pc, !.exec = e, !.got = g] \in Request
  BY DEF Request
<1>7. [r EXCEPT !.pc = pc, !.plan = p, !.exec = e] \in Request
  BY DEF Request
<1> QED BY <1>1, <1>2, <1>3, <1>4, <1>5, <1>6, <1>7

LEMMA DefaultFields ==
  /\ 0 \in Attempts /\ "none" \in Status
  /\ NoPlan \in Plans \cup {NoPlan} /\ NoExec \in Execs \cup {NoExec}
BY BoundAssumption DEF Attempts, Status

(* The coordinator's transition of one execution. *)
LEMMA StatusSet ==
  ASSUME TypeOK, NEW e \in Execs, NEW s \in Status, SetStatus(e, s)
  PROVE  /\ exec' \in [Execs -> [status : Status, plan : Plans \cup {NoPlan}]]
         /\ exec'[e].status = s
         /\ \A f \in Execs : exec'[f].plan = exec[f].plan
         /\ \A f \in Execs : f # e => exec'[f].status = exec[f].status
BY DEF TypeOK, SetStatus

(* The state of one attempt. *)
LEMMA CallSet ==
  ASSUME TypeOK, NEW e \in Execs, NEW n \in Attempts, NEW s \in CallState, SetCall(e, n, s)
  PROVE  /\ call' \in [Execs -> [Attempts -> CallState]]
         /\ call'[e][n] = s
         /\ \A f \in Execs, m \in Attempts : f # e \/ m # n => call'[f][m] = call[f][m]
BY DEF TypeOK, SetCall

(* Steps that leave the coordinator, the plans, the records or the agent   *)
(* alone, each for the part of Forward it settles.                         *)
LEMMA Untouched ==
  /\ UNCHANGED plan => PlansForward
  /\ UNCHANGED exec => ExecsForward
  /\ UNCHANGED <<result, row>> => RecordsAgree
  /\ UNCHANGED agent => SuccessesReal
BY DEF PlansForward, ExecsForward, RecordsAgree, SuccessesReal, agent

----------------------------------------------------------------------------
(* Requests that arrive *)

LEMMA CreatePlanKeeps ==
  ASSUME ExecInv, NEW c \in Clients, NEW p \in Plans, NEW blocked \in BOOLEAN,
         CreatePlan(c, p, blocked)
  PROVE  ExecInv'
<1> DEFINE r == [Idle EXCEPT !.pc = "save_plan", !.plan = p]
<1>0. TypeOK
  BY DEF ExecInv
<1>1. r \in Request /\ r.pc = "save_plan" /\ r.plan = p
  <2>1. r \in Request
    BY IdleRequest, DefaultFields, RequestFields
  <2>2. r.pc = "save_plan" /\ r.plan = p
    BY DEF Idle
  <2> QED BY <2>1, <2>2
<1>2. Becomes(c, r)
  BY <1>0, <1>1, RequestBecomes DEF CreatePlan
<1>3. plan' \in [Plans -> PlanStatus] /\ PlansForward
  BY <1>0 DEF CreatePlan, TypeOK, PlanStatus, PlansForward
<1>4. TypeOK'
  BY <1>0, <1>2, <1>3 DEF CreatePlan, TypeOK, Becomes, tables, agent
<1>5. Fits(c)
  <2>1. req'[c].pc = "save_plan" /\ req'[c].plan = p
    BY <1>1, <1>2 DEF Becomes
  <2> QED BY <2>1 DEF Fits, Begins, Commanding
<1>6. OneRequest
  BY <1>1, <1>2, <1>5, BecomesFits
<1>7. Forward
  BY <1>3, <1>6, Untouched DEF Forward, CreatePlan, tables
<1> QED BY <1>4, <1>7, ForwardKeeps

LEMMA BeginRunKeeps ==
  ASSUME ExecInv, NEW c \in Clients, NEW e \in Execs, BeginRun(c, e)
  PROVE  ExecInv'
<1> DEFINE r == [Idle EXCEPT !.pc = "send", !.exec = e]
<1>0. TypeOK
  BY DEF ExecInv
<1>1. r \in Request /\ r.pc = "send" /\ r.exec = e
  <2>1. r \in Request
    BY IdleRequest, DefaultFields, RequestFields
  <2>2. r.pc = "send" /\ r.exec = e
    BY DEF Idle
  <2> QED BY <2>1, <2>2
<1>2. Becomes(c, r)
  BY <1>0, <1>1, RequestBecomes DEF BeginRun
<1>3. /\ exec' \in [Execs -> [status : Status, plan : Plans \cup {NoPlan}]]
      /\ exec'[e].status = "running"
      /\ ExecsForward
  <2>1. "running" \in Status
    BY DEF Status
  <2> QED BY <1>0, <2>1, StatusSet DEF BeginRun, ExecsForward
<1>4. TypeOK'
  BY <1>0, <1>2, <1>3 DEF BeginRun, TypeOK, Becomes, tables, agent
<1>5. Fits(c)
  <2>1. req'[c].pc = "send" /\ req'[c].exec = e
    BY <1>1, <1>2 DEF Becomes
  <2> QED BY <1>3, <2>1 DEF Fits, Begins, Commanding, BeginRun
<1>6. OneRequest
  BY <1>1, <1>2, <1>5, BecomesFits
<1>7. Forward
  BY <1>3, <1>6, Untouched DEF Forward, BeginRun, tables
<1> QED BY <1>4, <1>7, ForwardKeeps

(* abort_execution and reconcile_execution differ in the status they set. *)
LEMMA AnswerWithViewKeeps ==
  ASSUME ExecInv, NEW c \in Clients, NEW e \in Execs, NEW s \in Status,
         SetStatus(e, s),
         s = exec[e].status \/ (exec[e].status \in {"queued", "running"} /\ s \in Final),
         req' = [req EXCEPT ![c] = [Idle EXCEPT !.pc = "view", !.exec = e, !.got = s]],
         UNCHANGED <<plan, key, view, result, tables, known, agent, faults>>
  PROVE  ExecInv'
<1> DEFINE r == [Idle EXCEPT !.pc = "view", !.exec = e, !.got = s]
<1>0. TypeOK
  BY DEF ExecInv
<1>1. r \in Request /\ r.pc = "view" /\ r.exec = e
  <2>1. r \in Request
    BY IdleRequest, DefaultFields, RequestFields
  <2>2. r.pc = "view" /\ r.exec = e
    BY DEF Idle
  <2> QED BY <2>1, <2>2
<1>2. Becomes(c, r)
  BY <1>0, <1>1, RequestBecomes
<1>3. /\ exec' \in [Execs -> [status : Status, plan : Plans \cup {NoPlan}]]
      /\ ExecsForward
  BY <1>0, StatusSet DEF ExecsForward
<1>4. TypeOK'
  BY <1>0, <1>2, <1>3 DEF TypeOK, Becomes, tables, agent
<1>5. Fits(c)
  <2>1. req'[c].pc = "view" /\ req'[c].exec = e
    BY <1>1, <1>2 DEF Becomes
  <2> QED BY <2>1 DEF Fits, Begins, Commanding
<1>6. OneRequest
  BY <1>1, <1>2, <1>5, BecomesFits
<1>7. Forward
  BY <1>3, <1>6, Untouched DEF Forward, tables
<1> QED BY <1>4, <1>7, ForwardKeeps

LEMMA AbortKeeps ==
  ASSUME ExecInv, NEW c \in Clients, NEW e \in Execs, AbortExecution(c, e)
  PROVE  ExecInv'
<1>1. "aborted" \in Status /\ "aborted" \in Final
  BY DEF Status, Final
<1> QED BY <1>1, AnswerWithViewKeeps DEF AbortExecution

LEMMA ReconcileKeeps ==
  ASSUME ExecInv, NEW c \in Clients, NEW e \in Execs,
         NEW observed \in Outcome \cup {"running", "unknown"}, ReconcileExecution(c, e, observed)
  PROVE  ExecInv'
<1> DEFINE s == IF exec[e].status = "running" /\ observed \in Outcome THEN observed
                ELSE exec[e].status
<1>1. s \in Status
  BY DEF ExecInv, TypeOK, Status, Outcome, Final
<1>2. s = exec[e].status \/ (exec[e].status \in {"queued", "running"} /\ s \in Final)
  BY DEF Outcome, Final
<1>3. /\ SetStatus(e, s)
      /\ req' = [req EXCEPT ![c] = [Idle EXCEPT !.pc = "view", !.exec = e, !.got = s]]
      /\ UNCHANGED <<plan, key, view, result, tables, known, agent, faults>>
  BY DEF ReconcileExecution
<1> HIDE DEF s
<1> QED BY <1>1, <1>2, <1>3, AnswerWithViewKeeps

(* confirm_plan makes the only new executions: of a plan that was ready,   *)
(* which none before it was made of.                                       *)
LEMMA StartKeeps ==
  ASSUME ExecInv, NEW c \in Clients, NEW p \in Plans, NEW k \in Keys, NEW e \in Execs,
         plan[p] = "ready", plan' = [plan EXCEPT ![p] = "confirmed"],
         exec[e].status = "none",
         exec' = [exec EXCEPT ![e] = [status |-> "queued", plan |-> p]],
         key' = [key EXCEPT ![k] = e],
         view' = [view EXCEPT ![e] = "queued"],
         req' = [req EXCEPT ![c] = [Idle EXCEPT !.pc = "save_exec", !.plan = p, !.exec = e]],
         UNCHANGED <<result, tables, known, agent, faults>>
  PROVE  ExecInv'
<1> DEFINE r == [Idle EXCEPT !.pc = "save_exec", !.plan = p, !.exec = e]
<1>0. TypeOK
  BY DEF ExecInv
<1>1. r \in Request /\ r.pc = "save_exec" /\ r.exec = e
  <2>1. r \in Request
    BY IdleRequest, DefaultFields, RequestFields
  <2>2. r.pc = "save_exec" /\ r.exec = e
    BY DEF Idle
  <2> QED BY <2>1, <2>2
<1>2. Becomes(c, r)
  BY <1>0, <1>1, RequestBecomes
<1>3. /\ exec' \in [Execs -> [status : Status, plan : Plans \cup {NoPlan}]]
      /\ exec'[e].status = "queued" /\ exec'[e].plan = p
      /\ \A f \in Execs : f # e => exec'[f] = exec[f]
  <2>1. [status |-> "queued", plan |-> p] \in [status : Status, plan : Plans \cup {NoPlan}]
    BY DEF Status
  <2> QED BY <1>0, <2>1 DEF TypeOK
<1>4. /\ plan' \in [Plans -> PlanStatus] /\ plan'[p] = "confirmed"
      /\ \A q \in Plans : q # p => plan'[q] = plan[q]
  BY <1>0 DEF TypeOK, PlanStatus
<1>5. TypeOK'
  <2>1. key' \in [Keys -> Execs \cup {NoExec}]
    BY <1>0 DEF TypeOK
  <2>2. view' \in [Execs -> Status]
    BY <1>0 DEF TypeOK, Status
  <2> QED BY <1>0, <1>2, <1>3, <1>4, <2>1, <2>2 DEF TypeOK, Becomes, tables, agent
<1>6. /\ req'[c].pc = "save_exec" /\ req'[c].exec = e
      /\ \A d \in Clients : d # c => req'[d] = req[d]
  BY <1>1, <1>2 DEF Becomes
<1>7. Bound'
  BY <1>6 DEF ExecInv, Bound
<1>8. \A f \in Execs : exec[f].plan # p
  BY NullAssumption DEF ExecInv, PlanSpent
<1>9. PlanSpent'
  <2> SUFFICES ASSUME NEW f \in Execs, exec'[f].plan # NoPlan
               PROVE  plan'[exec'[f].plan] \in {"confirmed", "lost"}
    BY DEF PlanSpent
  <2>1. CASE f = e
    BY <1>3, <1>4, <2>1
  <2>2. CASE f # e
    BY <1>0, <1>3, <1>4, <1>8, <2>2 DEF ExecInv, PlanSpent, TypeOK
  <2> QED BY <2>1, <2>2
<1>10. PlanExecutedOnce'
  BY <1>3, <1>8 DEF ExecInv, PlanExecutedOnce
<1>11. RunnerBegun'
  BY <1>3, <1>6 DEF ExecInv, Bound, RunnerBegun, Commanding
<1>12. OneRunner'
  BY <1>6 DEF ExecInv, OneRunner, Commanding
<1>13. StoredIsFinal'
  BY <1>3, <1>6 DEF ExecInv, Bound, StoredIsFinal, Outcome
<1>14. ResultsAgree'
  <2> SUFFICES ASSUME NEW f \in Execs
               PROVE  /\ result[f] # "none" => exec'[f].status = result[f]
                      /\ row[f] \in Final => exec'[f].status \in {row[f], "lost"}
    BY DEF ResultsAgree, tables
  <2>1. result[f] \in Outcome \cup {"none"}
    BY <1>0 DEF TypeOK
  <2>2. f = e => result[f] = "none" /\ row[f] \notin Final
    BY <2>1 DEF ExecInv, ResultsAgree, Outcome, Final
  <2> QED BY <1>3, <2>2 DEF ExecInv, ResultsAgree
<1>15. AnswersAreReal'
  BY <1>6 DEF ExecInv, AnswersAreReal, agent
<1>16. SucceededWasApplied'
  BY DEF ExecInv, SucceededWasApplied, agent
<1> QED BY <1>5, <1>7, <1>9, <1>10, <1>11, <1>12, <1>13, <1>14, <1>15, <1>16 DEF ExecInv

LEMMA PlanOnlyKeeps ==
  ASSUME ExecInv, NEW p \in Plans, plan[p] = "ready", plan' = [plan EXCEPT ![p] = "confirmed"],
         known' \subseteq Execs,
         UNCHANGED <<exec, key, view, result, tables, req, agent, faults>>
  PROVE  ExecInv'
<1>0. TypeOK
  BY DEF ExecInv
<1>1. plan' \in [Plans -> PlanStatus] /\ PlansForward
  BY <1>0 DEF TypeOK, PlanStatus, PlansForward
<1>2. TypeOK'
  BY <1>0, <1>1 DEF TypeOK, tables, agent
<1>3. OneRequest
  BY DEF OneRequest
<1>4. Forward
  BY <1>1, <1>3, Untouched DEF Forward, tables
<1> QED BY <1>2, <1>4, ForwardKeeps

LEMMA ConfirmKeeps ==
  ASSUME ExecInv, NEW c \in Clients, NEW p \in Plans, NEW k \in Keys, ConfirmPlan(c, p, k)
  PROVE  ExecInv'
<1>1. CASE /\ key[k] # NoExec
           /\ known' = known \cup {key[k]}
           /\ UNCHANGED <<exec, key, view, req>>
  <2>1. known' \subseteq Execs
    BY <1>1 DEF ExecInv, TypeOK
  <2> QED BY <1>1, <2>1, PlanOnlyKeeps DEF ConfirmPlan
<1>2. ASSUME NEW e \in Execs,
             key[k] = NoExec /\ exec[e].status = "none",
             exec' = [exec EXCEPT ![e] = [status |-> "queued", plan |-> p]],
             key' = [key EXCEPT ![k] = e],
             view' = [view EXCEPT ![e] = "queued"],
             req' = [req EXCEPT ![c] = [Idle EXCEPT !.pc = "save_exec", !.plan = p, !.exec = e]],
             UNCHANGED known
      PROVE  ExecInv'
  BY <1>2, StartKeeps DEF ConfirmPlan
<1> QED BY <1>1, <1>2 DEF ConfirmPlan

LEMMA ArrivalKeeps ==
  ASSUME ExecInv, NEW c \in Clients, Arrival(c)
  PROVE  ExecInv'
BY CreatePlanKeeps, ConfirmKeeps, BeginRunKeeps, AbortKeeps, ReconcileKeeps DEF Arrival

----------------------------------------------------------------------------
(* Requests in progress *)

(* A step that ends a request and touches neither the plans, nor the       *)
(* coordinator, nor the agent: it writes the tables and the view.          *)
LEMMA AnsweredKeeps ==
  ASSUME ExecInv, NEW c \in Clients, Done(c), TypeOK',
         UNCHANGED <<plan, exec, result, agent>>, RecordsAgree
  PROVE  ExecInv'
<1>1. OneRequest
  BY DoneFits DEF ExecInv
<1>2. Forward
  BY <1>1, Untouched DEF Forward
<1> QED BY <1>2, ForwardKeeps

LEMMA SavesKeep ==
  ASSUME ExecInv, NEW c \in Clients,
         SavePlan(c) \/ SaveExecution(c) \/ ReplaceView(c) \/ SaveResult(c)
  PROVE  ExecInv'
<1>0. TypeOK /\ Bound /\ req[c] \in Request
  BY DEF ExecInv, TypeOK
<1>1. CASE SavePlan(c)
  <2>1. Done(c) /\ req' \in [Clients -> Request]
    BY <1>0, <1>1, DoneFits DEF SavePlan
  <2>2. planRow' \subseteq Plans
    BY <1>0, <1>1 DEF SavePlan, TypeOK, Bound
  <2>3. TypeOK' /\ RecordsAgree
    BY <1>0, <1>1, <2>1, <2>2 DEF SavePlan, TypeOK, RecordsAgree, controller, agent
  <2> QED BY <1>1, <2>1, <2>3, AnsweredKeeps DEF SavePlan, controller
<1>2. CASE SaveExecution(c)
  <2>1. Done(c) /\ req' \in [Clients -> Request]
    BY <1>0, <1>2, DoneFits DEF SaveExecution
  <2>2. req[c].exec \in Execs
    BY <1>0, <1>2 DEF SaveExecution, Bound
  <2>3. row' \in [Execs -> Status] /\ known' \subseteq Execs /\ RecordsAgree
    BY <1>0, <1>2, <2>2 DEF SaveExecution, TypeOK, Status, Final, RecordsAgree, controller
  <2>4. TypeOK'
    BY <1>0, <1>2, <2>1, <2>3 DEF SaveExecution, TypeOK, controller, agent
  <2> QED BY <1>2, <2>1, <2>3, <2>4, AnsweredKeeps DEF SaveExecution, controller
<1>3. CASE ReplaceView(c)
  <2>1. Done(c) /\ req' \in [Clients -> Request]
    BY <1>0, <1>3, DoneFits DEF ReplaceView
  <2>2. req[c].got \in Status
    BY <1>0 DEF Request
  <2>3. view' \in [Execs -> Status]
    BY <1>0, <1>3, <2>2 DEF ReplaceView, TypeOK
  <2>4. TypeOK' /\ RecordsAgree
    BY <1>0, <1>3, <2>1, <2>3 DEF ReplaceView, TypeOK, RecordsAgree, tables, agent
  <2> QED BY <1>3, <2>1, <2>4, AnsweredKeeps DEF ReplaceView
<1>4. CASE SaveResult(c)
  <2>1. Done(c) /\ req' \in [Clients -> Request]
    BY <1>0, <1>4, DoneFits DEF SaveResult
  <2>2. resultRow' \subseteq Execs
    BY <1>0, <1>4 DEF SaveResult, TypeOK, Bound
  <2>3. TypeOK' /\ RecordsAgree
    BY <1>0, <1>4, <2>1, <2>2 DEF SaveResult, TypeOK, RecordsAgree, controller, agent
  <2> QED BY <1>4, <2>1, <2>3, AnsweredKeeps DEF SaveResult, controller
<1> QED BY <1>1, <1>2, <1>3, <1>4

LEMMA FaultKeeps ==
  ASSUME ExecInv, NEW c \in Clients, StorageError(c) \/ RequestDropped(c)
  PROVE  ExecInv'
<1>1. /\ Done(c) /\ UNCHANGED <<controller, tables, known, agent>>
      /\ faults < MaxFaults /\ faults' = faults + 1
  BY DEF StorageError, RequestDropped
<1>2. req' \in [Clients -> Request]
  BY <1>1, DoneFits DEF ExecInv
<1>3. faults' \in 0..MaxFaults
  BY <1>1, BoundAssumption DEF ExecInv, TypeOK
<1>4. TypeOK' /\ RecordsAgree
  BY <1>1, <1>2, <1>3 DEF ExecInv, TypeOK, RecordsAgree, controller, tables, agent
<1> QED BY <1>1, <1>4, AnsweredKeeps DEF controller

(* A request that goes on commanding the agent for its execution: only the *)
(* attempt it is at and the answer it holds change.                        *)
LEMMA RunnerKeeps ==
  ASSUME ExecInv, NEW c \in Clients, Commanding(c),
         NEW r \in Request, req' = [req EXCEPT ![c] = r],
         r.exec = req[c].exec, r.pc \in {"send", "wait", "finish"},
         r.pc = "finish" => r.got \in Outcome,
         r.pc = "finish" /\ r.got = "succeeded" => r.exec \in applied',
         call' \in [Execs -> [Attempts -> CallState]], SuccessesReal,
         UNCHANGED <<controller, tables, known, cache, applied, faults>>
  PROVE  ExecInv'
<1>0. TypeOK
  BY DEF ExecInv
<1>1. Becomes(c, r)
  BY <1>0, RequestBecomes
<1>2. TypeOK'
  BY <1>0, <1>1 DEF TypeOK, Becomes, controller, tables
<1>3. req'[c] = r
  BY <1>1 DEF Becomes
<1>4. Fits(c)
  <2>1. r.exec \in Execs
    BY DEF ExecInv, Bound, Commanding
  <2> QED BY <1>3, <2>1 DEF Fits, Begins, Commanding
<1>5. OneRequest
  BY <1>1, <1>4, BecomesFits
<1>6. Forward
  BY <1>5, Untouched DEF Forward, controller, tables
<1> QED BY <1>2, <1>6, ForwardKeeps

(* The attempt of a request that commands the agent. *)
LEMMA RunnerCall ==
  ASSUME ExecInv, NEW c \in Clients, Commanding(c)
  PROVE  /\ req[c] \in Request /\ req[c].exec \in Execs /\ req[c].attempt \in Attempts
         /\ CallOf(req[c]) \in CallState
         /\ CallOf(req[c]) = "succeeded" => req[c].exec \in applied
BY DEF ExecInv, TypeOK, Bound, Commanding, Request, CallOf, AnswersAreReal

(* The fields of a request after an EXCEPT on its own record. *)
LEMMA FieldsAfter ==
  ASSUME NEW r \in Request, NEW pc, NEW g, NEW n
  PROVE  /\ [r EXCEPT !.pc = pc].pc = pc /\ [r EXCEPT !.pc = pc].exec = r.exec
         /\ [r EXCEPT !.pc = pc].got = r.got
         /\ [r EXCEPT !.pc = pc, !.got = g].pc = pc /\ [r EXCEPT !.pc = pc, !.got = g].got = g
         /\ [r EXCEPT !.pc = pc, !.got = g].exec = r.exec
         /\ [r EXCEPT !.pc = pc, !.attempt = n].pc = pc
         /\ [r EXCEPT !.pc = pc, !.attempt = n].exec = r.exec
BY DEF Request

LEMMA SendKeeps ==
  ASSUME ExecInv, NEW c \in Clients, SendCommand(c)
  PROVE  ExecInv'
<1> DEFINE r == [req[c] EXCEPT !.pc = "wait"]
<1>1. Commanding(c)
  BY DEF SendCommand, Commanding
<1>2. req[c] \in Request /\ req[c].exec \in Execs /\ req[c].attempt \in Attempts
  BY <1>1, RunnerCall
<1>3. r \in Request /\ r.pc = "wait" /\ r.exec = req[c].exec
  BY <1>2, DefaultFields, RequestFields, FieldsAfter
<1>4. call' \in [Execs -> [Attempts -> CallState]] /\ SuccessesReal
  <2>1. TypeOK /\ "sent" \in CallState /\ SetCall(req[c].exec, req[c].attempt, "sent")
    BY DEF ExecInv, CallState, SendCommand
  <2>2. /\ call' \in [Execs -> [Attempts -> CallState]]
        /\ call'[req[c].exec][req[c].attempt] = "sent"
        /\ \A f \in Execs, m \in Attempts :
             f # req[c].exec \/ m # req[c].attempt => call'[f][m] = call[f][m]
    BY <1>2, <2>1, CallSet
  <2> QED BY <2>2 DEF SuccessesReal, SendCommand
<1>5. req' = [req EXCEPT ![c] = r]
  BY DEF SendCommand, Goto
<1> QED BY <1>1, <1>3, <1>4, <1>5, RunnerKeeps DEF SendCommand

LEMMA ReceiveKeeps ==
  ASSUME ExecInv, NEW c \in Clients, ReceiveAnswer(c) \/ AnswerUnreadable(c)
  PROVE  ExecInv'
<1>1. Commanding(c) /\ CallOf(req[c]) \in Outcome
  BY DEF ReceiveAnswer, AnswerUnreadable, Commanding
<1>2. PICK g \in {CallOf(req[c]), "failed"} :
         req' = [req EXCEPT ![c] = [req[c] EXCEPT !.pc = "finish", !.got = g]]
  BY DEF ReceiveAnswer, AnswerUnreadable
<1> DEFINE r == [req[c] EXCEPT !.pc = "finish", !.got = g]
<1>3. g \in Outcome /\ g \in Status
  BY <1>1, <1>2 DEF Outcome, Status, Final
<1>4. r \in Request /\ r.pc = "finish" /\ r.got = g /\ r.exec = req[c].exec
  <2>1. req[c] \in Request
    BY <1>1, RunnerCall
  <2>2. r \in Request
    BY <1>3, <2>1 DEF Request
  <2> QED BY <2>1, <2>2, FieldsAfter
<1>5. g = "succeeded" => r.exec \in applied
  BY <1>1, <1>2, <1>4, RunnerCall
<1>6. call' \in [Execs -> [Attempts -> CallState]] /\ SuccessesReal
  BY Untouched DEF ExecInv, TypeOK, ReceiveAnswer, AnswerUnreadable, agent
<1> QED BY <1>1, <1>2, <1>3, <1>4, <1>5, <1>6, RunnerKeeps
        DEF ReceiveAnswer, AnswerUnreadable, agent

(* A request that gives an attempt up leaves it as it is, abandoned or     *)
(* lost, and goes on to the next attempt or to a failure.                  *)
LEMMA GiveUpKeeps ==
  ASSUME ExecInv, NEW c \in Clients, Timeout(c) \/ AgentRefuses(c)
  PROVE  ExecInv'
<1>1. Commanding(c)
  BY DEF Timeout, AgentRefuses, Commanding
<1>2. req[c] \in Request /\ req[c].exec \in Execs /\ req[c].attempt \in Attempts
  BY <1>1, RunnerCall
<1>3. PICK left \in {CallOf(req[c]), "orphan", "lost"} :
        SetCall(req[c].exec, req[c].attempt, left)
  BY DEF Timeout, AgentRefuses
<1>4. call' \in [Execs -> [Attempts -> CallState]] /\ SuccessesReal
  <2>1. TypeOK /\ left \in CallState
    BY <1>1, <1>3, RunnerCall DEF ExecInv, CallState
  <2>2. /\ call' \in [Execs -> [Attempts -> CallState]]
        /\ call'[req[c].exec][req[c].attempt] = left
        /\ \A f \in Execs, m \in Attempts :
             f # req[c].exec \/ m # req[c].attempt => call'[f][m] = call[f][m]
    BY <1>2, <1>3, <2>1, CallSet
  <2>3. left = "succeeded" => req[c].exec \in applied
    BY <1>1, <1>3, RunnerCall
  <2>4. UNCHANGED <<cache, applied>>
    BY DEF Timeout, AgentRefuses
  <2> QED BY <2>2, <2>3, <2>4 DEF SuccessesReal
<1>5. UNCHANGED <<controller, tables, known, cache, applied, faults>>
  BY DEF Timeout, AgentRefuses
<1>6. CASE req' = [req EXCEPT ![c] = [req[c] EXCEPT !.pc = "finish", !.got = "failed"]]
  <2> DEFINE r == [req[c] EXCEPT !.pc = "finish", !.got = "failed"]
  <2>1. "failed" \in Status /\ "failed" \in Outcome
    BY DEF Status, Outcome, Final
  <2>2. r \in Request /\ r.pc = "finish" /\ r.got = "failed" /\ r.exec = req[c].exec
    <3>1. r \in Request
      BY <1>2, <2>1 DEF Request
    <3> QED BY <1>2, <3>1, FieldsAfter
  <2> QED BY <1>1, <1>4, <1>5, <1>6, <2>1, <2>2, RunnerKeeps
<1>7. CASE /\ req[c].attempt < MaxRetries
           /\ req' = [req EXCEPT ![c] = [req[c] EXCEPT !.pc = "send",
                                                       !.attempt = req[c].attempt + 1]]
  <2> DEFINE r == [req[c] EXCEPT !.pc = "send", !.attempt = req[c].attempt + 1]
  <2>1. req[c].attempt + 1 \in Attempts
    BY <1>2, <1>7, BoundAssumption DEF Attempts
  <2>2. r \in Request /\ r.pc = "send" /\ r.exec = req[c].exec
    <3>1. r \in Request
      BY <1>2, <2>1 DEF Request
    <3> QED BY <1>2, <3>1, FieldsAfter
  <2> QED BY <1>1, <1>4, <1>5, <1>7, <2>2, RunnerKeeps
<1> QED BY <1>6, <1>7 DEF Timeout, AgentRefuses

(* finish, and what run_execution stores after it. *)
LEMMA FinishKeeps ==
  ASSUME ExecInv, NEW c \in Clients, FinishRun(c)
  PROVE  ExecInv'
<1>0. TypeOK
  BY DEF ExecInv
<1> DEFINE e == req[c].exec
           g == req[c].got
<1>1. /\ req[c] \in Request /\ e \in Execs /\ g \in Outcome /\ g \in Status /\ g \in Final
      /\ g = "succeeded" => e \in applied
  BY <1>0 DEF ExecInv, TypeOK, FinishRun, Bound, AnswersAreReal, Outcome, Status, Final
<1>2. CASE exec[e].status = "running"
  <2> DEFINE r == [req[c] EXCEPT !.pc = "store"]
  <2>1. r \in Request
    BY <1>1 DEF Request
  <2>2. r.pc = "store" /\ r.exec = e /\ r.got = g
    BY <1>1, FieldsAfter
  <2>3. SetStatus(e, g) /\ req' = [req EXCEPT ![c] = r]
    BY <1>2 DEF FinishRun, Goto
  <2>4. Becomes(c, r)
    BY <1>0, <2>1, <2>3, RequestBecomes
  <2>5. /\ exec' \in [Execs -> [status : Status, plan : Plans \cup {NoPlan}]]
        /\ exec'[e].status = g
        /\ \A f \in Execs : exec'[f].plan = exec[f].plan
        /\ \A f \in Execs : f # e => exec'[f].status = exec[f].status
    BY <1>0, <1>1, <2>3, StatusSet
  <2>6. ExecsForward
    BY <1>1, <1>2, <2>5 DEF ExecsForward
  <2>7. TypeOK'
    BY <1>0, <2>4, <2>5 DEF FinishRun, TypeOK, Becomes, tables, agent
  <2>8. req'[c].pc = "store" /\ req'[c].exec = e /\ req'[c].got = g
    BY <2>2, <2>4 DEF Becomes
  <2>9. Fits(c)
    <3>1. applied' = applied
      BY DEF FinishRun, agent
    <3> QED BY <1>1, <2>5, <2>8, <3>1 DEF Fits, Begins, Commanding
  <2>10. OneRequest
    BY <2>1, <2>4, <2>9, BecomesFits
  <2>11. Forward
    BY <2>6, <2>10, Untouched DEF Forward, FinishRun, tables
  <2> QED BY <2>7, <2>11, ForwardKeeps
<1>3. CASE exec[e].status # "running"
  <2>1. Done(c) /\ UNCHANGED exec
    BY <1>3 DEF FinishRun
  <2>2. req' \in [Clients -> Request]
    BY <1>0, <2>1, DoneFits
  <2>3. TypeOK' /\ RecordsAgree
    BY <1>0, <2>1, <2>2 DEF FinishRun, TypeOK, RecordsAgree, tables, agent
  <2> QED BY <2>1, <2>3, AnsweredKeeps DEF FinishRun
<1> QED BY <1>2, <1>3

LEMMA StoreKeeps ==
  ASSUME ExecInv, NEW c \in Clients, StoreResult(c) \/ UpdateRow(c)
  PROVE  ExecInv'
<1>0. TypeOK
  BY DEF ExecInv
<1> DEFINE e == req[c].exec
           g == req[c].got
<1>1. /\ req[c] \in Request /\ e \in Execs /\ g \in Outcome /\ g \in Status
      /\ exec[e].status = g
      /\ req[c].pc = "store" /\ g = "succeeded" => e \in applied
  BY <1>0 DEF ExecInv, TypeOK, StoreResult, UpdateRow, Bound, StoredIsFinal, AnswersAreReal,
              Outcome, Status, Final
<1>2. PICK pc \in {"update", "save_result"} : Goto(c, pc)
  BY DEF StoreResult, UpdateRow
<1> DEFINE r == [req[c] EXCEPT !.pc = pc]
<1>3. r \in Request
  BY <1>1, <1>2 DEF Request
<1>4. r.pc = pc /\ r.exec = e /\ r.got = g
  BY <1>1, FieldsAfter
<1>5. Becomes(c, r)
  BY <1>0, <1>2, <1>3, RequestBecomes DEF Goto
<1>6. UNCHANGED <<plan, exec, agent>> /\ applied' = applied
  BY DEF StoreResult, UpdateRow, controller, agent
<1>7. OneRequest
  <2>1. req'[c].pc = pc /\ req'[c].exec = e /\ req'[c].got = g
    BY <1>4, <1>5 DEF Becomes
  <2>2. Fits(c)
    BY <1>1, <1>2, <1>6, <2>1 DEF Fits, Begins, Commanding
  <2> QED BY <1>3, <1>5, <2>2, BecomesFits
<1>8. TypeOK' /\ RecordsAgree
  <2>1. CASE StoreResult(c)
    <3>1. view' \in [Execs -> Status] /\ result' \in [Execs -> Outcome \cup {"none"}]
      BY <1>0, <1>1, <2>1 DEF StoreResult, TypeOK
    <3>2. result'[e] = g /\ \A f \in Execs : f # e => result'[f] = result[f]
      BY <1>0, <1>1, <2>1 DEF StoreResult, TypeOK
    <3>3. RecordsAgree
      BY <1>1, <1>6, <2>1, <3>2 DEF StoreResult, RecordsAgree, tables
    <3> QED BY <1>0, <1>5, <2>1, <3>1, <3>3 DEF StoreResult, TypeOK, Becomes, tables, agent
  <2>2. CASE UpdateRow(c)
    <3>1. row' \in [Execs -> Status]
      BY <1>0, <1>1, <2>2 DEF UpdateRow, TypeOK
    <3>2. row'[e] \in {row[e], g} /\ \A f \in Execs : f # e => row'[f] = row[f]
      BY <1>0, <1>1, <2>2 DEF UpdateRow, TypeOK
    <3>3. RecordsAgree
      BY <1>1, <1>6, <2>2, <3>2 DEF UpdateRow, RecordsAgree, controller
    <3> QED BY <1>0, <1>5, <2>2, <3>1, <3>3 DEF UpdateRow, TypeOK, Becomes, controller, agent
  <2> QED BY <2>1, <2>2
<1>9. Forward
  BY <1>6, <1>7, <1>8, Untouched DEF Forward
<1> QED BY <1>8, <1>9, ForwardKeeps

LEMMA HandlerKeeps ==
  ASSUME ExecInv, NEW c \in Clients, Handler(c)
  PROVE  ExecInv'
BY SavesKeep, SendKeeps, ReceiveKeeps, GiveUpKeeps, FinishKeeps, StoreKeeps DEF Handler

----------------------------------------------------------------------------
(* The agent and the restart of the controller *)

(* A step of the agent: what it answers as a success it saw apt end. *)
LEMMA AgentStepKeeps ==
  ASSUME ExecInv, UNCHANGED <<controller, tables, known, req>>, SuccessesReal,
         call' \in [Execs -> [Attempts -> CallState]],
         cache' \in [Execs -> Outcome \cup {"none"}],
         applied' \subseteq Execs, faults' \in 0..MaxFaults
  PROVE  ExecInv'
<1>1. TypeOK'
  BY DEF ExecInv, TypeOK, controller, tables
<1>2. OneRequest
  BY DEF OneRequest
<1>3. Forward
  BY <1>2, Untouched DEF Forward, controller, tables
<1> QED BY <1>1, <1>3, ForwardKeeps

LEMMA AgentKeeps ==
  ASSUME ExecInv, Agent
  PROVE  ExecInv'
<1>0. TypeOK /\ AnswersAreReal
  BY DEF ExecInv
<1>1. ASSUME NEW e \in Execs, NEW n \in Attempts, AgentCommand(e, n)
      PROVE  ExecInv'
  <2> DEFINE s == IF cache[e] # "none" THEN cache[e] ELSE "running"
  <2>1. s \in CallState /\ (s = "succeeded" => e \in applied)
    BY <1>0 DEF TypeOK, AnswersAreReal, CallState, Outcome
  <2>2. SetCall(e, n, s)
    BY <1>1 DEF AgentCommand
  <2> HIDE DEF s
  <2>3. /\ call' \in [Execs -> [Attempts -> CallState]]
        /\ call'[e][n] = s
        /\ \A f \in Execs, m \in Attempts : f # e \/ m # n => call'[f][m] = call[f][m]
    BY <1>0, <2>1, <2>2, CallSet
  <2>4. SuccessesReal
    BY <1>1, <2>1, <2>3 DEF SuccessesReal, AgentCommand
  <2> QED BY <1>0, <1>1, <2>3, <2>4, AgentStepKeeps DEF AgentCommand, TypeOK
<1>2. ASSUME NEW e \in Execs, NEW n \in Attempts, NEW out \in Outcome, CommandEnds(e, n, out)
      PROVE  ExecInv'
  <2>1. /\ applied \subseteq applied' /\ applied' \subseteq Execs
        /\ out = "succeeded" => e \in applied'
    BY <1>0, <1>2 DEF CommandEnds, TypeOK
  <2>2. PICK s \in {out, "lost"} : SetCall(e, n, s)
    BY <1>2 DEF CommandEnds
  <2>3. s \in CallState
    BY <2>2 DEF CallState
  <2>4. /\ call' \in [Execs -> [Attempts -> CallState]]
        /\ call'[e][n] = s
        /\ \A f \in Execs, m \in Attempts : f # e \/ m # n => call'[f][m] = call[f][m]
    BY <1>0, <2>2, <2>3, CallSet
  <2>5. /\ cache' \in [Execs -> Outcome \cup {"none"}]
        /\ cache'[e] \in {cache[e], out}
        /\ \A f \in Execs : f # e => cache'[f] = cache[f]
    BY <1>0, <1>2 DEF CommandEnds, TypeOK
  <2>6. SuccessesReal
    BY <2>1, <2>2, <2>4, <2>5 DEF SuccessesReal
  <2> QED BY <1>0, <1>2, <2>1, <2>4, <2>5, <2>6, AgentStepKeeps DEF CommandEnds, TypeOK
<1>3. CASE CacheCleared \/ AgentRestart
  <2>1. /\ cache' \in [Execs -> Outcome \cup {"none"}]
        /\ \A e \in Execs : cache'[e] = "none"
    BY <1>3 DEF CacheCleared, AgentRestart
  <2>2. /\ call' \in [Execs -> [Attempts -> CallState]]
        /\ \A e \in Execs, n \in Attempts : call'[e][n] \in {call[e][n], "lost"}
    BY <1>0, <1>3 DEF CacheCleared, AgentRestart, TypeOK, CallState
  <2>3. faults' \in 0..MaxFaults
    BY <1>0, <1>3, BoundAssumption DEF CacheCleared, AgentRestart, TypeOK
  <2>4. UNCHANGED <<controller, tables, known, req, applied>>
    BY <1>3 DEF CacheCleared, AgentRestart
  <2>5. SuccessesReal
    BY <2>1, <2>2, <2>4 DEF SuccessesReal
  <2> QED BY <1>0, <2>1, <2>2, <2>3, <2>4, <2>5, AgentStepKeeps DEF TypeOK
<1> QED BY <1>1, <1>2, <1>3 DEF Agent

(* A restart forgets requests, keys and results; an executed plan is lost  *)
(* and stays executed.                                                     *)
LEMMA RestartKeeps ==
  ASSUME ExecInv, ControllerRestart
  PROVE  ExecInv'
<1>0. TypeOK
  BY DEF ExecInv
<1>1. \A c \in Clients : req'[c] = Idle /\ req'[c].pc = "idle"
  BY IdleRequest DEF ControllerRestart
<1>2. /\ exec' \in [Execs -> [status : Status, plan : Plans \cup {NoPlan}]]
      /\ \A e \in Execs : exec'[e].plan = exec[e].plan
      /\ \A e \in Execs : exec'[e].status = IF exec[e].status = "none" THEN "none" ELSE "lost"
  <2>1. \A e \in Execs : exec[e] \in [status : Status, plan : Plans \cup {NoPlan}]
    BY <1>0 DEF TypeOK
  <2>2. "lost" \in Status
    BY DEF Status
  <2> QED BY <2>1, <2>2 DEF ControllerRestart
<1>3. /\ plan' \in [Plans -> PlanStatus]
      /\ \A p \in Plans : plan'[p] = IF plan[p] = "none" THEN "none" ELSE "lost"
  BY DEF ControllerRestart, PlanStatus
<1>4. TypeOK'
  <2>1. req' \in [Clients -> Request]
    BY IdleRequest DEF ControllerRestart
  <2>2. view' \in [Execs -> Status] /\ result' \in [Execs -> Outcome \cup {"none"}]
    BY DefaultFields DEF ControllerRestart
  <2>3. key' \in [Keys -> Execs \cup {NoExec}]
    BY DEF ControllerRestart
  <2>4. faults' \in 0..MaxFaults
    BY <1>0, BoundAssumption DEF ControllerRestart, TypeOK
  <2> QED BY <1>0, <1>2, <1>3, <2>1, <2>2, <2>3, <2>4 DEF ControllerRestart, TypeOK, tables, agent
<1>5. Bound' /\ RunnerBegun' /\ OneRunner' /\ StoredIsFinal'
  BY <1>1 DEF Bound, RunnerBegun, OneRunner, StoredIsFinal, Commanding
<1>6. PlanSpent'
  BY <1>0, <1>2, <1>3 DEF ExecInv, PlanSpent, TypeOK
<1>7. PlanExecutedOnce'
  BY <1>2 DEF ExecInv, PlanExecutedOnce
<1>8. ResultsAgree'
  BY <1>2 DEF ExecInv, ResultsAgree, ControllerRestart, tables, Final
<1>9. AnswersAreReal'
  BY <1>0, <1>1 DEF ExecInv, AnswersAreReal, ControllerRestart, agent
<1>10. SucceededWasApplied'
  BY DEF SucceededWasApplied, ControllerRestart
<1> QED BY <1>4, <1>5, <1>6, <1>7, <1>8, <1>9, <1>10 DEF ExecInv

----------------------------------------------------------------------------
LEMMA NextKeeps ==
  ASSUME ExecInv, [Next]_vars
  PROVE  ExecInv'
<1>1. ASSUME NEW p \in Plans, ConfirmWithoutIdentity(p) PROVE ExecInv'
  <2>1. known' \subseteq Execs
    BY <1>1 DEF ConfirmWithoutIdentity, ExecInv, TypeOK
  <2> QED BY <1>1, <2>1, PlanOnlyKeeps DEF ConfirmWithoutIdentity
<1>2. CASE UNCHANGED vars
  <2>1. TypeOK' /\ OneRequest
    BY <1>2 DEF ExecInv, TypeOK, OneRequest, vars, controller, tables, agent
  <2>2. Forward
    BY <1>2, <2>1, Untouched DEF Forward, vars, controller, tables
  <2> QED BY <2>1, <2>2, ForwardKeeps
<1> QED BY <1>1, <1>2, ArrivalKeeps, HandlerKeeps, FaultKeeps, AgentKeeps, RestartKeeps DEF Next

(* A plan is executed once and the result of its execution is true, for    *)
(* any number of plans, keys, concurrent requests, retries and faults, a   *)
(* restart of the controller and of the agent among them                   *)
(* (ExecutionCoordinator, confirm_plan, run_execution, agent_command).     *)
THEOREM ExecutionsTrueAlways == Spec => []ExecutionsTrue
<1>1. Init => ExecInv
  BY InitInv
<1>2. ExecInv /\ [Next]_vars => ExecInv'
  BY NextKeeps
<1>3. ExecInv => ExecutionsTrue
  BY DEF ExecInv, ExecutionsTrue
<1> QED BY <1>1, <1>2, <1>3, PTL DEF Spec

(***************************************************************************)
(* For any number of administrators, targets and sessions: open shells are *)
(* leased and within the limits, and nothing is passed on for someone      *)
(* whose rights were gone when it arrived.  ShellsGuarded is not           *)
(* inductive: the limits are kept by the registry and not by the channels, *)
(* so TerminalInv says at which steps a session has a lease, a shell and   *)
(* an audited start (PlacesAgree), bounds the leases (LeasesLimited) and   *)
(* follows a message from its arrival to the check of the rights           *)
(* (MessagesTimely).                                                       *)
(***************************************************************************)

Shell == {"ready", "select", "check", "pass", "notice", "close"}
Audited == Shell \cup {"upgrade", "connect", "shell", "refused", "finish"}
Leased == Audited \cup {"started"}
TerminalRecord ==
  [at : Leased \cup {"new", "find", "done"}, user : Admins \cup {Nobody},
   target : Targets \cup {Nobody}, age : Nat, idle : Nat, due : BOOLEAN]

RecordsTyped ==
  /\ session \in [Sessions -> TerminalRecord]
  /\ inbox \in [Sessions -> {"none", "timely", "late"}]
  /\ registry \subseteq Sessions /\ channel \subseteq Sessions /\ rights \subseteq Admins
  /\ log \in [started : SUBSET Sessions, ended : SUBSET Sessions]
  /\ log.ended \subseteq log.started

(* A session has a lease, a shell and an audited start as its step says. *)
PlacesAgree ==
  \A i \in Sessions :
    /\ i \in registry <=> session[i].at \in Leased
    /\ i \in channel <=> session[i].at \in Shell
    /\ session[i].at \in Audited => i \in log.started

(* The registry's limits. *)
LeasesLimited ==
  /\ \A t \in Targets : Cardinality(OfTarget(t)) <= MaxSessionsPerTarget
  /\ \A u \in Admins : Cardinality(OfUser(u)) <= MaxSessionsPerUser

(* A message that waits is one of an open shell; a late one is of someone  *)
(* without rights, so that the check before PassOn stops it.               *)
MessagesTimely ==
  \A i \in Sessions :
    /\ inbox[i] # "none" => i \in channel
    /\ inbox[i] = "late" => session[i].user \notin rights
    /\ session[i].at \in {"check", "pass"} => inbox[i] # "none"
    /\ session[i].at = "pass" => inbox[i] # "late"

TerminalInv ==
  RecordsTyped /\ PlacesAgree /\ LeasesLimited /\ MessagesTimely /\ NothingPassedLate

----------------------------------------------------------------------------
LEMMA TerminalInitInv == TerminalInit => TerminalInv
<1> SUFFICES ASSUME TerminalInit PROVE TerminalInv
  OBVIOUS
<1>1. RecordsTyped
  <2>1. Unused \in TerminalRecord
    BY DEF Unused, TerminalRecord
  <2> QED BY <2>1 DEF TerminalInit, RecordsTyped
<1>2. PlacesAgree
  BY DEF TerminalInit, PlacesAgree, Unused, Leased, Shell, Audited
<1>3. LeasesLimited
  <2>1. \A t : OfTarget(t) = {} /\ OfUser(t) = {}
    BY DEF TerminalInit, OfTarget, OfUser
  <2> QED BY <2>1, FS_EmptySet, LimitAssumption DEF LeasesLimited
<1>4. MessagesTimely /\ NothingPassedLate
  BY DEF TerminalInit, MessagesTimely, NothingPassedLate, Unused
<1> QED BY <1>1, <1>2, <1>3, <1>4 DEF TerminalInv

(* Leases are only given back: the limits hold on. *)
LEMMA LeasesShrink ==
  ASSUME TerminalInv,
         \A j \in registry' : /\ j \in registry
                              /\ session'[j].user = session[j].user
                              /\ session'[j].target = session[j].target
  PROVE  LeasesLimited'
<1>0. IsFiniteSet(registry) /\ registry \subseteq Sessions
  BY FS_Subset, LimitAssumption DEF TerminalInv, RecordsTyped
<1>1. ASSUME NEW t \in Targets PROVE Cardinality(OfTarget(t)') <= MaxSessionsPerTarget
  <2>1. OfTarget(t)' \subseteq OfTarget(t) /\ OfTarget(t) \subseteq registry
    BY DEF OfTarget
  <2>2. IsFiniteSet(OfTarget(t))
    BY <1>0, <2>1, FS_Subset
  <2>3. Cardinality(OfTarget(t)') <= Cardinality(OfTarget(t)) /\ IsFiniteSet(OfTarget(t)')
    BY <2>1, <2>2, FS_Subset
  <2>4. Cardinality(OfTarget(t)) \in Nat /\ Cardinality(OfTarget(t)') \in Nat
    BY <2>2, <2>3, FS_CardinalityType
  <2> QED BY <2>3, <2>4, LimitAssumption DEF TerminalInv, LeasesLimited
<1>2. ASSUME NEW u \in Admins PROVE Cardinality(OfUser(u)') <= MaxSessionsPerUser
  <2>1. OfUser(u)' \subseteq OfUser(u) /\ OfUser(u) \subseteq registry
    BY DEF OfUser
  <2>2. IsFiniteSet(OfUser(u))
    BY <1>0, <2>1, FS_Subset
  <2>3. Cardinality(OfUser(u)') <= Cardinality(OfUser(u)) /\ IsFiniteSet(OfUser(u)')
    BY <2>1, <2>2, FS_Subset
  <2>4. Cardinality(OfUser(u)) \in Nat /\ Cardinality(OfUser(u)') \in Nat
    BY <2>2, <2>3, FS_CardinalityType
  <2> QED BY <2>3, <2>4, LimitAssumption DEF TerminalInv, LeasesLimited
<1> QED BY <1>1, <1>2 DEF LeasesLimited

(* A step of one session leaves the others alone. *)
OthersRest(i) ==
  /\ \A j \in Sessions \ {i} :
       /\ session'[j] = session[j] /\ inbox'[j] = inbox[j]
       /\ j \in registry' <=> j \in registry
       /\ j \in channel' <=> j \in channel
  /\ log.started \subseteq log'.started
  /\ rights' = rights

(* What the invariant says of one session. *)
InOrder(i) ==
  /\ i \in registry <=> session[i].at \in Leased
  /\ i \in channel <=> session[i].at \in Shell
  /\ session[i].at \in Audited => i \in log.started
  /\ inbox[i] # "none" => i \in channel
  /\ inbox[i] = "late" => session[i].user \notin rights
  /\ session[i].at \in {"check", "pass"} => inbox[i] # "none"
  /\ session[i].at = "pass" => inbox[i] # "late"

LEMMA InOrderAlways ==
  ASSUME TerminalInv, NEW i \in Sessions
  PROVE  InOrder(i)
BY DEF TerminalInv, PlacesAgree, MessagesTimely, InOrder

LEMMA OneSession ==
  ASSUME TerminalInv, NEW i \in Sessions, RecordsTyped', OthersRest(i), InOrder(i)',
         i \in registry' => /\ i \in registry
                            /\ session'[i].user = session[i].user
                            /\ session'[i].target = session[i].target,
         passed' = {}
  PROVE  TerminalInv'
<1>1. PlacesAgree'
  BY DEF TerminalInv, PlacesAgree, InOrder, OthersRest
<1>2. MessagesTimely'
  BY DEF TerminalInv, MessagesTimely, InOrder, OthersRest
<1>3. LeasesLimited'
  <2>1. registry' \subseteq Sessions
    BY DEF RecordsTyped
  <2> QED BY <2>1, LeasesShrink DEF OthersRest
<1> QED BY <1>1, <1>2, <1>3 DEF TerminalInv, NothingPassedLate

(* The effect of one assignment to a session. *)
LEMMA GoesEffect ==
  ASSUME RecordsTyped, NEW i \in Sessions, NEW step \in Leased \cup {"new", "find", "done"},
         Goes(i, step)
  PROVE  /\ session' \in [Sessions -> TerminalRecord]
         /\ session'[i].at = step
         /\ session'[i].user = session[i].user /\ session'[i].target = session[i].target
         /\ \A j \in Sessions \ {i} : session'[j] = session[j]
BY DEF RecordsTyped, Goes, TerminalRecord

LEMMA EndsEffect ==
  ASSUME RecordsTyped, NEW i \in Sessions, Ends(i)
  PROVE  /\ session' \in [Sessions -> TerminalRecord]
         /\ session'[i].at = "done"
         /\ \A j \in Sessions \ {i} : session'[j] = session[j]
<1>1. [Unused EXCEPT !.at = "done"] \in TerminalRecord /\ [Unused EXCEPT !.at = "done"].at = "done"
  BY DEF Unused, TerminalRecord
<1> QED BY <1>1 DEF RecordsTyped, Ends

----------------------------------------------------------------------------
(* A session that ends before or after it had a shell. *)
LEMMA EndKeeps ==
  ASSUME TerminalInv, NEW i \in Sessions, Ends(i), session[i].at \notin Shell,
         registry' = registry \ {i},
         log' \in [started : SUBSET Sessions, ended : SUBSET Sessions],
         log'.ended \subseteq log'.started, log.started \subseteq log'.started,
         UNCHANGED <<channel, inbox, rights, passed>>
  PROVE  TerminalInv'
<1>0. RecordsTyped /\ passed = {}
  BY DEF TerminalInv, NothingPassedLate
<1>1. /\ session' \in [Sessions -> TerminalRecord]
      /\ session'[i].at = "done"
      /\ \A j \in Sessions \ {i} : session'[j] = session[j]
  BY <1>0, EndsEffect
<1>2. RecordsTyped'
  BY <1>0, <1>1 DEF RecordsTyped
<1>3. OthersRest(i)
  BY <1>1 DEF OthersRest
<1>4. InOrder(i)'
  <2>1. i \notin channel /\ inbox[i] = "none"
    BY <1>0, InOrderAlways DEF InOrder
  <2> QED BY <1>1, <2>1 DEF InOrder, Leased, Audited, Shell
<1> QED BY <1>0, <1>2, <1>3, <1>4, OneSession

(* A session that moves on with its lease, its shell and its messages. *)
LEMMA MoveKeeps ==
  ASSUME TerminalInv, NEW i \in Sessions, NEW step \in Shell,
         session[i].at \in Shell,
         session' \in [Sessions -> TerminalRecord],
         session'[i].at = step,
         session'[i].user = session[i].user, session'[i].target = session[i].target,
         \A j \in Sessions \ {i} : session'[j] = session[j],
         step \in {"check", "pass"} => inbox[i] # "none",
         step = "pass" => inbox[i] # "late",
         UNCHANGED <<registry, channel, inbox, rights, log, passed>>
  PROVE  TerminalInv'
<1>0. RecordsTyped /\ passed = {} /\ InOrder(i)
  BY InOrderAlways DEF TerminalInv, NothingPassedLate
<1>1. RecordsTyped'
  BY <1>0 DEF RecordsTyped
<1>2. OthersRest(i)
  BY DEF OthersRest
<1>3. InOrder(i)'
  BY <1>0 DEF InOrder, Leased, Audited
<1> QED BY <1>0, <1>1, <1>2, <1>3, OneSession

LEMMA OpeningKeeps ==
  ASSUME TerminalInv, NEW i \in Sessions,
         \/ RefuseTerminal(i) \/ ReserveTerminalSession(i) \/ RecordStarted(i) \/ Upgrade(i)
         \/ Connect(i) \/ OpenShell(i) \/ SendRefusal(i) \/ SendReady(i)
  PROVE  TerminalInv'
<1>0. RecordsTyped /\ passed = {} /\ InOrder(i)
  BY InOrderAlways DEF TerminalInv, NothingPassedLate
<1>1. CASE RefuseTerminal(i)
  <2>1. i \notin registry /\ session[i].at \notin Shell
    BY <1>0, <1>1 DEF RefuseTerminal, At, InOrder, Leased, Audited, Shell
  <2> QED BY <1>0, <1>1, <2>1, EndKeeps DEF RefuseTerminal, RecordsTyped
<1>2. CASE ReserveTerminalSession(i)
  <2> DEFINE t == session[i].target
             u == session[i].user
  <2>1. i \notin registry /\ session[i].at = "find"
    BY <1>0, <1>2 DEF ReserveTerminalSession, At, InOrder, Leased, Audited, Shell
  <2>2. CASE ~ (/\ Cardinality(OfTarget(t)) < MaxSessionsPerTarget
                /\ Cardinality(OfUser(u)) < MaxSessionsPerUser)
    <3>1. Ends(i) /\ UNCHANGED <<registry, channel, inbox, rights, log, passed>>
      BY <1>2, <2>2 DEF ReserveTerminalSession
    <3>2. session[i].at \notin Shell
      BY <2>1 DEF Shell
    <3> QED BY <1>0, <2>1, <3>1, <3>2, EndKeeps DEF RecordsTyped
  <2>3. CASE /\ Cardinality(OfTarget(t)) < MaxSessionsPerTarget
             /\ Cardinality(OfUser(u)) < MaxSessionsPerUser
    <3>1. /\ registry' = registry \cup {i} /\ Goes(i, "started")
          /\ UNCHANGED <<channel, inbox, rights, log, passed>>
      BY <1>2, <2>3 DEF ReserveTerminalSession
    <3>2. /\ session' \in [Sessions -> TerminalRecord]
          /\ session'[i].at = "started"
          /\ session'[i].user = u /\ session'[i].target = t
          /\ \A j \in Sessions \ {i} : session'[j] = session[j]
      BY <1>0, <3>1, GoesEffect DEF Leased
    <3>3. RecordsTyped'
      BY <1>0, <3>1, <3>2 DEF RecordsTyped
    <3>4. InOrder(i)'
      BY <1>0, <2>1, <3>1, <3>2 DEF InOrder, Leased, Audited, Shell
    <3>5. PlacesAgree' /\ MessagesTimely'
      BY <1>0, <3>1, <3>2, <3>4 DEF TerminalInv, PlacesAgree, MessagesTimely, InOrder
    <3>6. IsFiniteSet(registry) /\ registry \subseteq Sessions
      BY <1>0, FS_Subset, LimitAssumption DEF RecordsTyped
    <3>7. ASSUME NEW x \in Targets PROVE Cardinality(OfTarget(x)') <= MaxSessionsPerTarget
      <4>1. OfTarget(x) \subseteq registry
        BY DEF OfTarget
      <4>2. IsFiniteSet(OfTarget(x))
        BY <3>6, <4>1, FS_Subset
      <4>3. Cardinality(OfTarget(x)) \in Nat
        BY <4>2, FS_CardinalityType
      <4>4. CASE x = t
        <5>1. OfTarget(x)' = OfTarget(x) \cup {i} /\ i \notin OfTarget(x)
          BY <2>1, <3>1, <3>2, <3>6, <4>4 DEF OfTarget
        <5>2. Cardinality(OfTarget(x)') = Cardinality(OfTarget(x)) + 1
          BY <4>2, <5>1, FS_AddElement
        <5> QED BY <2>3, <4>3, <4>4, <5>2, LimitAssumption
      <4>5. CASE x # t
        <5>1. OfTarget(x)' = OfTarget(x)
          BY <2>1, <3>1, <3>2, <3>6, <4>5 DEF OfTarget
        <5> QED BY <5>1 DEF TerminalInv, LeasesLimited
      <4> QED BY <4>4, <4>5
    <3>8. ASSUME NEW x \in Admins PROVE Cardinality(OfUser(x)') <= MaxSessionsPerUser
      <4>1. OfUser(x) \subseteq registry
        BY DEF OfUser
      <4>2. IsFiniteSet(OfUser(x))
        BY <3>6, <4>1, FS_Subset
      <4>3. Cardinality(OfUser(x)) \in Nat
        BY <4>2, FS_CardinalityType
      <4>4. CASE x = u
        <5>1. OfUser(x)' = OfUser(x) \cup {i} /\ i \notin OfUser(x)
          BY <2>1, <3>1, <3>2, <3>6, <4>4 DEF OfUser
        <5>2. Cardinality(OfUser(x)') = Cardinality(OfUser(x)) + 1
          BY <4>2, <5>1, FS_AddElement
        <5> QED BY <2>3, <4>3, <4>4, <5>2, LimitAssumption
      <4>5. CASE x # u
        <5>1. OfUser(x)' = OfUser(x)
          BY <2>1, <3>1, <3>2, <3>6, <4>5 DEF OfUser
        <5> QED BY <5>1 DEF TerminalInv, LeasesLimited
      <4> QED BY <4>4, <4>5
    <3>9. LeasesLimited'
      BY <3>7, <3>8 DEF LeasesLimited
    <3> QED BY <1>0, <3>1, <3>3, <3>5, <3>9 DEF TerminalInv, NothingPassedLate
  <2> QED BY <2>2, <2>3
<1>3. CASE RecordStarted(i)
  <2>1. session[i].at = "started" /\ i \in registry /\ i \notin channel /\ inbox[i] = "none"
    BY <1>0, <1>3 DEF RecordStarted, At, InOrder, Leased, Audited, Shell
  <2>2. CASE Ends(i) /\ registry' = registry \ {i} /\ UNCHANGED log
    <3>1. session[i].at \notin Shell
      BY <2>1 DEF Shell
    <3> QED BY <1>0, <1>3, <2>2, <3>1, EndKeeps DEF RecordStarted, RecordsTyped
  <2>3. CASE /\ log' = [log EXCEPT !.started = @ \cup {i}]
             /\ Goes(i, "upgrade") /\ UNCHANGED registry
    <3>1. /\ session' \in [Sessions -> TerminalRecord]
          /\ session'[i].at = "upgrade"
          /\ session'[i].user = session[i].user /\ session'[i].target = session[i].target
          /\ \A j \in Sessions \ {i} : session'[j] = session[j]
      BY <1>0, <2>3, GoesEffect DEF Leased, Audited
    <3>2. /\ log' \in [started : SUBSET Sessions, ended : SUBSET Sessions]
          /\ log'.started = log.started \cup {i} /\ log'.ended = log.ended
      BY <1>0, <2>3 DEF RecordsTyped
    <3>3. RecordsTyped'
      BY <1>0, <1>3, <2>3, <3>1, <3>2 DEF RecordsTyped, RecordStarted
    <3>4. OthersRest(i)
      BY <1>3, <2>3, <3>1, <3>2 DEF OthersRest, RecordStarted
    <3>5. InOrder(i)'
      BY <1>3, <2>1, <2>3, <3>1, <3>2 DEF InOrder, RecordStarted, Leased, Audited, Shell
    <3> QED BY <1>0, <1>3, <2>1, <3>1, <3>3, <3>4, <3>5, OneSession DEF RecordStarted
  <2> QED BY <1>3, <2>2, <2>3 DEF RecordStarted
<1>4. CASE Upgrade(i) \/ Connect(i) \/ OpenShell(i) \/ SendRefusal(i)
  <2>1. /\ i \in registry /\ i \notin channel /\ inbox[i] = "none" /\ i \in log.started
        /\ UNCHANGED <<registry, inbox, rights, log, passed>>
    BY <1>0, <1>4 DEF Upgrade, Connect, OpenShell, SendRefusal, At, InOrder, Leased, Audited, Shell
  <2>2. PICK step \in {"connect", "shell", "refused", "ready", "finish"} :
          /\ Goes(i, step)
          /\ channel' = IF step = "ready" THEN channel \cup {i} ELSE channel
    BY <1>4 DEF Upgrade, Connect, OpenShell, SendRefusal
  <2>3. /\ session' \in [Sessions -> TerminalRecord]
        /\ session'[i].at = step
        /\ session'[i].user = session[i].user /\ session'[i].target = session[i].target
        /\ \A j \in Sessions \ {i} : session'[j] = session[j]
    BY <1>0, <2>2, GoesEffect DEF Leased, Audited, Shell
  <2>4. RecordsTyped' /\ OthersRest(i)
    BY <1>0, <2>1, <2>2, <2>3 DEF RecordsTyped, OthersRest
  <2>5. InOrder(i)'
    BY <2>1, <2>2, <2>3 DEF InOrder, Leased, Audited, Shell
  <2> QED BY <1>0, <2>1, <2>3, <2>4, <2>5, OneSession
<1>5. CASE SendReady(i)
  <2>1. session[i].at \in Shell
    BY <1>5 DEF SendReady, At, Shell
  <2>2. CASE session' = [session EXCEPT ![i].at = "select", ![i].due = TRUE]
    <3>1. /\ session' \in [Sessions -> TerminalRecord]
          /\ session'[i].at = "select"
          /\ session'[i].user = session[i].user /\ session'[i].target = session[i].target
          /\ \A j \in Sessions \ {i} : session'[j] = session[j]
      BY <1>0, <2>2 DEF RecordsTyped, TerminalRecord, Leased, Audited, Shell
    <3>2. "select" \in Shell
      BY DEF Shell
    <3> QED BY <1>5, <2>1, <3>1, <3>2, MoveKeeps DEF SendReady
  <2>3. CASE Goes(i, "close")
    <3>1. "close" \in Shell /\ "close" \in Leased
      BY DEF Shell, Leased, Audited
    <3> QED BY <1>0, <1>5, <2>1, <2>3, <3>1, GoesEffect, MoveKeeps DEF SendReady
  <2> QED BY <1>5, <2>2, <2>3 DEF SendReady
<1> QED BY <1>1, <1>2, <1>3, <1>4, <1>5

----------------------------------------------------------------------------
(* The arms of select!: a session with a shell goes on or closes. *)
LEMMA ServingKeeps ==
  ASSUME TerminalInv, NEW i \in Sessions,
         \/ Deadline(i) \/ AuthCheck(i) \/ Incoming(i) \/ CheckMessage(i) \/ StreamEnds(i)
         \/ SendNotice(i)
  PROVE  TerminalInv'
<1>0. RecordsTyped /\ InOrder(i)
  BY InOrderAlways DEF TerminalInv
<1>1. session[i].at \in Shell /\ UNCHANGED <<registry, channel, inbox, rights, log, passed>>
  BY DEF Deadline, AuthCheck, Incoming, CheckMessage, StreamEnds, SendNotice, At, Shell
<1>2. "close" \in Shell /\ "check" \in Shell /\ "pass" \in Shell /\ "select" \in Shell
      /\ "notice" \in Shell
      /\ Shell \subseteq Leased
  BY DEF Shell, Leased, Audited
<1>3. CASE Goes(i, "close") \/ Goes(i, "notice")
  <2>1. PICK step \in {"close", "notice"} : Goes(i, step)
    BY <1>3
  <2> QED BY <1>0, <1>1, <1>2, <2>1, GoesEffect, MoveKeeps
<1>4. CASE Incoming(i)
  <2>1. Goes(i, "check") /\ inbox[i] # "none"
    BY <1>4 DEF Incoming
  <2> QED BY <1>0, <1>1, <1>2, <2>1, GoesEffect, MoveKeeps
<1>5. CASE AuthCheck(i) /\ session' = [session EXCEPT ![i].due = FALSE]
  <2>1. session[i].at = "select"
    BY <1>5 DEF AuthCheck, At
  <2>2. /\ session' \in [Sessions -> TerminalRecord]
        /\ session'[i].at = "select"
        /\ session'[i].user = session[i].user /\ session'[i].target = session[i].target
        /\ \A j \in Sessions \ {i} : session'[j] = session[j]
    BY <1>0, <1>5, <2>1 DEF RecordsTyped, TerminalRecord
  <2> QED BY <1>1, <1>2, <2>2, MoveKeeps
<1>6. CASE /\ CheckMessage(i) /\ Admin(i)
           /\ Goes(i, "pass") \/ session' = [session EXCEPT ![i].at = "pass", ![i].idle = 0]
  <2>1. inbox[i] # "none" /\ inbox[i] # "late"
    BY <1>0, <1>6 DEF CheckMessage, At, InOrder, Admin
  <2>2. /\ session' \in [Sessions -> TerminalRecord]
        /\ session'[i].at = "pass"
        /\ session'[i].user = session[i].user /\ session'[i].target = session[i].target
        /\ \A j \in Sessions \ {i} : session'[j] = session[j]
    <3>1. CASE Goes(i, "pass")
      BY <1>0, <1>2, <3>1, GoesEffect
    <3>2. CASE session' = [session EXCEPT ![i].at = "pass", ![i].idle = 0]
      BY <1>0, <1>2, <3>2 DEF RecordsTyped, TerminalRecord
    <3> QED BY <1>6, <3>1, <3>2
  <2> QED BY <1>1, <1>2, <2>1, <2>2, MoveKeeps
<1> QED BY <1>3, <1>4, <1>5, <1>6
        DEF Deadline, AuthCheck, CheckMessage, StreamEnds, SendNotice, Goes

LEMMA PassOnKeeps ==
  ASSUME TerminalInv, NEW i \in Sessions, PassOn(i)
  PROVE  TerminalInv'
<1>0. RecordsTyped /\ InOrder(i) /\ passed = {}
  BY InOrderAlways DEF TerminalInv, NothingPassedLate
<1>1. inbox[i] # "late" /\ i \in registry /\ i \in channel /\ i \in log.started
  BY <1>0 DEF PassOn, At, InOrder, Leased, Audited, Shell
<1>2. passed' = {}
  BY <1>0, <1>1 DEF PassOn
<1>3. PICK step \in {"select", "close"} : Goes(i, step)
  BY DEF PassOn
<1>4. /\ session' \in [Sessions -> TerminalRecord]
      /\ session'[i].at = step
      /\ session'[i].user = session[i].user /\ session'[i].target = session[i].target
      /\ \A j \in Sessions \ {i} : session'[j] = session[j]
  BY <1>0, <1>3, GoesEffect DEF Leased, Audited, Shell
<1>5. /\ inbox' \in [Sessions -> {"none", "timely", "late"}] /\ inbox'[i] = "none"
      /\ \A j \in Sessions \ {i} : inbox'[j] = inbox[j]
  BY <1>0 DEF PassOn, RecordsTyped
<1>6. RecordsTyped' /\ OthersRest(i)
  BY <1>0, <1>4, <1>5 DEF RecordsTyped, OthersRest, PassOn
<1>7. InOrder(i)'
  BY <1>1, <1>3, <1>4, <1>5 DEF InOrder, PassOn, Leased, Audited, Shell
<1> QED BY <1>1, <1>2, <1>4, <1>6, <1>7, OneSession DEF PassOn

LEMMA CloseKeeps ==
  ASSUME TerminalInv, NEW i \in Sessions, CloseChannel(i)
  PROVE  TerminalInv'
<1>0. RecordsTyped /\ InOrder(i) /\ passed = {}
  BY InOrderAlways DEF TerminalInv, NothingPassedLate
<1>1. i \in registry /\ i \in log.started
  BY <1>0 DEF CloseChannel, At, InOrder, Leased, Audited, Shell
<1>2. /\ session' \in [Sessions -> TerminalRecord]
      /\ session'[i].at = "finish"
      /\ session'[i].user = session[i].user /\ session'[i].target = session[i].target
      /\ \A j \in Sessions \ {i} : session'[j] = session[j]
  BY <1>0, GoesEffect DEF CloseChannel, Leased, Audited
<1>3. /\ inbox' \in [Sessions -> {"none", "timely", "late"}] /\ inbox'[i] = "none"
      /\ \A j \in Sessions \ {i} : inbox'[j] = inbox[j]
  BY <1>0 DEF CloseChannel, RecordsTyped
<1>4. RecordsTyped' /\ OthersRest(i)
  BY <1>0, <1>2, <1>3 DEF RecordsTyped, OthersRest, CloseChannel
<1>5. InOrder(i)'
  BY <1>1, <1>2, <1>3 DEF InOrder, CloseChannel, Leased, Audited, Shell
<1> QED BY <1>0, <1>1, <1>2, <1>4, <1>5, OneSession DEF CloseChannel

LEMMA LeavingKeeps ==
  ASSUME TerminalInv, NEW i \in Sessions, EndSession(i) \/ TerminalDropped(i)
  PROVE  TerminalInv'
<1>0. RecordsTyped /\ InOrder(i)
  BY InOrderAlways DEF TerminalInv
<1>1. CASE EndSession(i)
  <2>1. session[i].at \notin Shell /\ i \in log.started
    BY <1>0, <1>1 DEF EndSession, At, InOrder, Audited, Shell
  <2>2. /\ log' \in [started : SUBSET Sessions, ended : SUBSET Sessions]
        /\ log'.started = log.started /\ log'.ended \subseteq log.ended \cup {i}
    BY <1>0, <1>1 DEF EndSession, RecordsTyped
  <2>3. log'.ended \subseteq log'.started
    BY <1>0, <2>1, <2>2 DEF RecordsTyped
  <2> QED BY <1>1, <2>1, <2>2, <2>3, EndKeeps DEF EndSession
<1>2. CASE TerminalDropped(i)
  <2>1. session[i].at \notin Shell
    BY <1>2 DEF TerminalDropped, Shell
  <2> QED BY <1>0, <1>2, <2>1, EndKeeps DEF TerminalDropped, RecordsTyped
<1> QED BY <1>1, <1>2

LEMMA MessageArrivalKeeps ==
  ASSUME TerminalInv, NEW i \in Sessions, NEW u \in Admins, NEW t \in Targets,
         TerminalSession(i, u, t)
  PROVE  TerminalInv'
<1>0. RecordsTyped /\ InOrder(i) /\ passed = {}
  BY InOrderAlways DEF TerminalInv, NothingPassedLate
<1>1. i \notin registry /\ i \notin channel /\ inbox[i] = "none"
  BY <1>0 DEF TerminalSession, At, InOrder, Leased, Audited, Shell
<1>2. /\ session' \in [Sessions -> TerminalRecord]
      /\ session'[i].at = "find"
      /\ \A j \in Sessions \ {i} : session'[j] = session[j]
  <2> DEFINE r == [session[i] EXCEPT !.at = "find", !.user = u, !.target = t]
  <2>1. session[i] \in TerminalRecord
    BY <1>0 DEF RecordsTyped
  <2>2. r \in TerminalRecord /\ r.at = "find"
    BY <2>1 DEF TerminalRecord
  <2>3. session' = [session EXCEPT ![i] = r]
    BY DEF TerminalSession
  <2> QED BY <1>0, <2>2, <2>3 DEF RecordsTyped
<1>3. RecordsTyped' /\ OthersRest(i)
  BY <1>0, <1>2 DEF RecordsTyped, OthersRest, TerminalSession
<1>4. InOrder(i)'
  BY <1>1, <1>2 DEF InOrder, TerminalSession, Leased, Audited, Shell
<1> QED BY <1>0, <1>1, <1>3, <1>4, OneSession DEF TerminalSession

LEMMA MessageKeeps ==
  ASSUME TerminalInv, NEW i \in Sessions, MessageArrives(i)
  PROVE  TerminalInv'
<1>0. RecordsTyped /\ InOrder(i) /\ passed = {}
  BY InOrderAlways DEF TerminalInv, NothingPassedLate
<1>1. /\ inbox' \in [Sessions -> {"none", "timely", "late"}]
      /\ inbox'[i] = IF Admin(i) THEN "timely" ELSE "late"
      /\ \A j \in Sessions \ {i} : inbox'[j] = inbox[j]
  BY <1>0 DEF MessageArrives, RecordsTyped
<1>2. RecordsTyped' /\ OthersRest(i)
  BY <1>0, <1>1 DEF RecordsTyped, OthersRest, MessageArrives
<1>3. InOrder(i)'
  BY <1>0, <1>1 DEF InOrder, MessageArrives, Admin
<1> QED BY <1>0, <1>2, <1>3, OneSession DEF MessageArrives

(* Time passes for every session with a shell at once. *)
LEMMA IntervalKeeps ==
  ASSUME TerminalInv, Interval
  PROVE  TerminalInv'
<1>0. RecordsTyped
  BY DEF TerminalInv
<1>1. ASSUME NEW a \in Nat, NEW b \in Nat PROVE Min({a + 1, b}) \in Nat
  <2>1. \E x \in {a + 1, b} : \A y \in {a + 1, b} : x <= y
    OBVIOUS
  <2>2. Min({a + 1, b}) \in {a + 1, b}
    BY <2>1 DEF Min
  <2> QED BY <2>2
<1>2. /\ session' \in [Sessions -> TerminalRecord]
      /\ \A i \in Sessions :
           /\ session'[i].at = session[i].at
           /\ session'[i].user = session[i].user /\ session'[i].target = session[i].target
  <2>1. ASSUME NEW i \in Sessions
        PROVE  /\ session'[i] \in TerminalRecord
               /\ session'[i].at = session[i].at
               /\ session'[i].user = session[i].user /\ session'[i].target = session[i].target
    <3>1. session[i] \in TerminalRecord
      BY <1>0 DEF RecordsTyped
    <3>2. /\ Min({session[i].age + 1, MaxSessionDuration}) \in Nat
          /\ Min({session[i].idle + 1, IdleTimeout}) \in Nat
      BY <1>1, <3>1, LimitAssumption DEF TerminalRecord
    <3>3. CASE session'[i] = session[i]
      BY <3>1, <3>3
    <3>4. CASE session'[i] = [session[i] EXCEPT
                                !.age = Min({session[i].age + 1, MaxSessionDuration}),
                                !.idle = Min({session[i].idle + 1, IdleTimeout}), !.due = TRUE]
      BY <3>1, <3>2, <3>4 DEF TerminalRecord
    <3> QED BY <3>3, <3>4 DEF Interval
  <2> QED BY <2>1 DEF Interval
<1>3. RecordsTyped'
  BY <1>0, <1>2 DEF RecordsTyped, Interval
<1>4. PlacesAgree' /\ MessagesTimely'
  <2>1. UNCHANGED <<registry, channel, inbox, rights, log, passed>>
    BY DEF Interval
  <2>2. PlacesAgree'
    BY <1>2, <2>1 DEF TerminalInv, PlacesAgree
  <2>3. MessagesTimely'
    BY <1>2, <2>1 DEF TerminalInv, MessagesTimely
  <2> QED BY <2>2, <2>3
<1>5. LeasesLimited'
  BY <1>0, <1>2, LeasesShrink DEF Interval, RecordsTyped
<1> QED BY <1>3, <1>4, <1>5 DEF TerminalInv, NothingPassedLate, Interval

LEMMA RightsKeeps ==
  ASSUME TerminalInv, NEW u \in Admins, LoseRights(u)
  PROVE  TerminalInv'
<1>1. RecordsTyped' /\ PlacesAgree' /\ MessagesTimely'
  BY DEF TerminalInv, RecordsTyped, PlacesAgree, MessagesTimely, LoseRights
<1>2. LeasesLimited'
  BY LeasesShrink DEF LoseRights
<1> QED BY <1>1, <1>2 DEF TerminalInv, NothingPassedLate, LoseRights

LEMMA TerminalStepKeeps ==
  ASSUME TerminalInv, [TerminalNext]_terminalVars
  PROVE  TerminalInv'
<1>1. CASE UNCHANGED terminalVars
  <2>1. LeasesLimited'
    BY <1>1, LeasesShrink DEF terminalVars
  <2> QED BY <1>1, <2>1 DEF terminalVars, TerminalInv, RecordsTyped, PlacesAgree, MessagesTimely,
                            NothingPassedLate
<1> QED BY <1>1, OpeningKeeps, ServingKeeps, PassOnKeeps, CloseKeeps, LeavingKeeps, MessageArrivalKeeps,
           MessageKeeps, IntervalKeeps, RightsKeeps DEF TerminalNext, OwnStep, PeerStep

----------------------------------------------------------------------------
(* Open shells hold leases of the registry. *)
LEMMA InvIsEnough == TerminalInv => ShellsGuarded
<1> SUFFICES ASSUME TerminalInv PROVE ShellsGuarded
  OBVIOUS
<1>1. channel \subseteq registry /\ channel \subseteq log.started
  BY DEF TerminalInv, RecordsTyped, PlacesAgree, Leased, Audited
<1>2. TerminalTypeOK
  BY <1>1 DEF TerminalInv, RecordsTyped, TerminalRecord, TerminalTypeOK
<1>3. IsFiniteSet(registry)
  BY FS_Subset, LimitAssumption DEF TerminalInv, RecordsTyped
<1>4. ASSUME NEW t \in Targets
      PROVE  Cardinality({i \in channel : session[i].target = t}) <= MaxSessionsPerTarget
  <2> DEFINE S == {i \in channel : session[i].target = t}
  <2>1. S \subseteq OfTarget(t) /\ OfTarget(t) \subseteq registry
    BY <1>1 DEF OfTarget
  <2>2. IsFiniteSet(OfTarget(t))
    BY <1>3, <2>1, FS_Subset
  <2>3. Cardinality(S) <= Cardinality(OfTarget(t)) /\ IsFiniteSet(S)
    BY <2>1, <2>2, FS_Subset
  <2>4. Cardinality(S) \in Nat /\ Cardinality(OfTarget(t)) \in Nat
    BY <2>2, <2>3, FS_CardinalityType
  <2> QED BY <2>3, <2>4, LimitAssumption DEF TerminalInv, LeasesLimited
<1>5. ASSUME NEW u \in Admins
      PROVE  Cardinality({i \in channel : session[i].user = u}) <= MaxSessionsPerUser
  <2> DEFINE S == {i \in channel : session[i].user = u}
  <2>1. S \subseteq OfUser(u) /\ OfUser(u) \subseteq registry
    BY <1>1 DEF OfUser
  <2>2. IsFiniteSet(OfUser(u))
    BY <1>3, <2>1, FS_Subset
  <2>3. Cardinality(S) <= Cardinality(OfUser(u)) /\ IsFiniteSet(S)
    BY <2>1, <2>2, FS_Subset
  <2>4. Cardinality(S) \in Nat /\ Cardinality(OfUser(u)) \in Nat
    BY <2>2, <2>3, FS_CardinalityType
  <2> QED BY <2>3, <2>4, LimitAssumption DEF TerminalInv, LeasesLimited
<1> QED BY <1>1, <1>2, <1>4, <1>5 DEF TerminalInv, ShellsGuarded, ShellsWithinLimits

(* A shell is one of few and serves an administrator only: for any number  *)
(* of administrators, targets and sessions that open, check, pass on and   *)
(* close in any order while rights are withdrawn (reserve_terminal_session *)
(* and its lease, session_is_admin before every message).                  *)
THEOREM ShellsAlwaysGuarded == TerminalSpec => []ShellsGuarded
<1>1. TerminalInit => TerminalInv
  BY TerminalInitInv
<1>2. TerminalInv /\ [TerminalNext]_terminalVars => TerminalInv'
  BY TerminalStepKeeps
<1> QED BY <1>1, <1>2, InvIsEnough, PTL DEF TerminalSpec
----------------------------------------------------------------------------
(* Onboarding: for any number of enrollments, pages, losses, retries, resets *)
(* and restarts, polls that act on what they have read before keep the order *)
(* of the follow-up jobs and never meet each other's rows.  PollsKeepOrder   *)
(* is not inductive: OnboardingInv adds what each poll may still rely on     *)
(* where it stands (Sound: the deployment it saw succeed stays succeeded,    *)
(* the key it is about to save is its own and has no row), that two polls    *)
(* never save under one key (SavesApart), and that a request still queueing  *)
(* a deployment finds no row (RequestsSound).                                *)

PollRec ==
  [at : {"idle", "look", "view", "next", "target", "jobs", "submit", "save"}, id : Enrollments \cup {"-"},
   status : JobState, connected : BOOLEAN, todo : SUBSET Enrollments, kind : Kinds \cup {"-"}]
Pollers == Pages \cup {Tick}
KeyOf(q) == <<q.kind, q.id>>

EnrollmentsTyped ==
  enrollment \in [Enrollments -> [state : EnrollmentState \cup {"none"}, step : {"-", "submit", "save", "start"}]]
RowsTyped == rows \in [JobKeys -> JobState]
UsedTyped == used \in [faults : Nat, restarts : Nat, retries : Nat, resets : Nat]
PollsTyped == poll \in [Pollers -> PollRec]

(* What a poll has read and where it is fit the rows R and the keys M the   *)
(* coordinator knows.                                                       *)
Sound(q, R, M) ==
  /\ q.status = "succeeded" => q.id \in Enrollments /\ R[<<"deploy", q.id>>] = "succeeded"
  /\ q.at \in {"look", "view"} => q.id \in Enrollments
  /\ q.at \in {"target", "jobs", "submit", "save"} => q.status = "succeeded"
  /\ \A e \in q.todo : R[<<"deploy", e>>] = "succeeded"
  /\ q.at \in {"submit", "save"} =>
       /\ q.kind \in {"health", "inventory"}
       /\ q.kind = "inventory" => R[<<"health", q.id>>] = "succeeded"
  /\ q.at = "submit" => R[KeyOf(q)] = "none" \/ KeyOf(q) \in M
  /\ q.at = "save" => R[KeyOf(q)] = "none" /\ KeyOf(q) \in M
PollsSound == \A p \in Pollers : Sound(poll[p], rows, memory)
SavesApart ==
  \A p, q \in Pollers :
    poll[p].at = "save" /\ poll[q].at = "save" /\ KeyOf(poll[p]) = KeyOf(poll[q]) => p = q
RequestsSound ==
  \A e \in Enrollments :
    /\ enrollment[e].step \in {"submit", "save"} => rows[<<"deploy", e>>] = "none"
    /\ enrollment[e].step = "save" => <<"deploy", e>> \in memory
KnownUntilRestart == used.restarts = 0 => \A k \in JobKeys : rows[k] # "none" => k \in memory
ShownInOrder == \A e \in Enrollments : enrollment[e].state = "connected" => rows[<<"deploy", e>>] = "succeeded"
RowsInOrder ==
  \A e \in Enrollments :
    /\ rows[<<"health", e>>] # "none" => rows[<<"deploy", e>>] = "succeeded"
    /\ rows[<<"inventory", e>>] # "none" => rows[<<"health", e>>] = "succeeded"

OnboardingInv ==
  /\ EnrollmentsTyped /\ RowsTyped /\ memory \subseteq JobKeys /\ UsedTyped /\ PollsTyped
  /\ PollsSound /\ SavesApart /\ RequestsSound /\ KnownUntilRestart /\ ShownInOrder /\ RowsInOrder /\ ~conflict

PollsRest == PollsTyped /\ PollsSound /\ SavesApart

\* What is sound stays so when rows move on and the coordinator learns keys.
LEMMA SoundKept ==
  ASSUME NEW q \in PollRec, NEW R, NEW M, NEW R2, NEW M2, Sound(q, R, M), M \subseteq M2,
         \A k \in JobKeys : R[k] = "succeeded" => R2[k] = "succeeded",
         \A k \in JobKeys : R[k] = "none" /\ R2[k] # "none" => k \in M2 /\ ~(q.at = "save" /\ k = KeyOf(q))
  PROVE  Sound(q, R2, M2)
<1>0. q.todo \subseteq Enrollments
  BY DEF PollRec
<1>a. \A e \in Enrollments : <<"deploy", e>> \in JobKeys /\ <<"health", e>> \in JobKeys
  BY DEF JobKeys, Kinds
<1>1. (q.status = "succeeded" => q.id \in Enrollments /\ R2[<<"deploy", q.id>>] = "succeeded")
  BY <1>a DEF Sound
<1>2. \A e \in q.todo : R2[<<"deploy", e>>] = "succeeded"
  BY <1>0, <1>a DEF Sound
<1>3. ASSUME q.at \in {"submit", "save"}
      PROVE  /\ q.kind \in {"health", "inventory"}
             /\ q.kind = "inventory" => R2[<<"health", q.id>>] = "succeeded"
             /\ KeyOf(q) \in JobKeys
  <2>1. q.id \in Enrollments
    BY <1>3 DEF Sound
  <2>2. q.kind \in {"health", "inventory"} /\ (q.kind = "inventory" => R[<<"health", q.id>>] = "succeeded")
    BY <1>3 DEF Sound
  <2> QED
    BY <2>1, <2>2, <1>a DEF KeyOf, JobKeys, Kinds
<1>4. q.at = "submit" => R2[KeyOf(q)] = "none" \/ KeyOf(q) \in M2
  <2> SUFFICES ASSUME q.at = "submit" PROVE R2[KeyOf(q)] = "none" \/ KeyOf(q) \in M2
    OBVIOUS
  <2>1. KeyOf(q) \in JobKeys
    BY <1>3
  <2>2. R[KeyOf(q)] = "none" \/ KeyOf(q) \in M
    BY DEF Sound
  <2> QED
    BY <2>1, <2>2
<1>5. q.at = "save" => R2[KeyOf(q)] = "none" /\ KeyOf(q) \in M2
  <2> SUFFICES ASSUME q.at = "save" PROVE R2[KeyOf(q)] = "none" /\ KeyOf(q) \in M2
    OBVIOUS
  <2>1. KeyOf(q) \in JobKeys
    BY <1>3
  <2>2. R[KeyOf(q)] = "none" /\ KeyOf(q) \in M
    BY DEF Sound
  <2> QED
    BY <2>1, <2>2
<1>6. (q.at \in {"look", "view"} => q.id \in Enrollments) /\ (q.at \in {"target", "jobs", "submit", "save"} => q.status = "succeeded")
  BY DEF Sound
<1> QED
  BY <1>1, <1>2, <1>3, <1>4, <1>5, <1>6 DEF Sound

\* The polls beside a step that leaves them where they are.
LEMMA PollsStay ==
  ASSUME OnboardingInv, UNCHANGED poll, memory \subseteq memory',
         \A k \in JobKeys : rows[k] = "succeeded" => rows'[k] = "succeeded",
         \A k \in JobKeys : rows[k] = "none" /\ rows'[k] # "none" =>
           k \in memory' /\ \A p \in Pollers : ~(poll[p].at = "save" /\ k = KeyOf(poll[p]))
  PROVE  PollsRest'
<1>1. PollsTyped' /\ SavesApart'
  BY DEF OnboardingInv, PollsTyped, SavesApart, KeyOf
<1>2. ASSUME NEW p \in Pollers PROVE Sound(poll'[p], rows', memory')
  <2>1. PICK q \in PollRec : q = poll[p]
    BY DEF OnboardingInv, PollsTyped
  <2>2. Sound(q, rows, memory)
    BY <2>1 DEF OnboardingInv, PollsSound
  <2>3. Sound(q, rows', memory')
    BY <2>1, <2>2, SoundKept
  <2> QED
    BY <2>1, <2>3
<1> QED
  BY <1>1, <1>2 DEF PollsRest, PollsSound

\* The polls when one of them moves on.
LEMMA PollMoves ==
  ASSUME OnboardingInv, NEW p0 \in Pollers, NEW q0 \in PollRec, poll' = [poll EXCEPT ![p0] = q0],
         memory \subseteq memory', Sound(q0, rows', memory'),
         \A k \in JobKeys : rows[k] = "succeeded" => rows'[k] = "succeeded",
         \A k \in JobKeys : rows[k] = "none" /\ rows'[k] # "none" =>
           k \in memory' /\ \A p \in Pollers \ {p0} : ~(poll[p].at = "save" /\ k = KeyOf(poll[p])),
         q0.at = "save" => \A p \in Pollers \ {p0} : ~(poll[p].at = "save" /\ KeyOf(q0) = KeyOf(poll[p]))
  PROVE  PollsRest'
<1>0. PollsTyped
  BY DEF OnboardingInv
<1>a. poll'[p0] = q0 /\ \A p \in Pollers \ {p0} : poll'[p] = poll[p]
  BY <1>0 DEF PollsTyped
<1>1. PollsTyped'
  BY <1>0 DEF PollsTyped
<1>2. ASSUME NEW p \in Pollers PROVE Sound(poll'[p], rows', memory')
  <2>1. CASE p = p0
    BY <2>1, <1>a
  <2>2. CASE p # p0
    <3>1. PICK q \in PollRec : q = poll[p]
      BY <1>0 DEF PollsTyped
    <3>2. Sound(q, rows, memory)
      BY <3>1 DEF OnboardingInv, PollsSound
    <3>3. Sound(q, rows', memory')
      BY <2>2, <3>1, <3>2, SoundKept
    <3> QED
      BY <2>2, <3>1, <3>3, <1>a
  <2> QED
    BY <2>1, <2>2
<1>3. ASSUME NEW p \in Pollers, NEW q \in Pollers, poll'[p].at = "save", poll'[q].at = "save", KeyOf(poll'[p]) = KeyOf(poll'[q])
      PROVE  p = q
  <2>1. CASE p # p0 /\ q # p0
    BY <1>3, <2>1, <1>a DEF OnboardingInv, SavesApart
  <2>2. CASE p = p0 /\ q # p0
    BY <1>3, <2>2, <1>a
  <2>3. CASE p # p0 /\ q = p0
    BY <1>3, <2>3, <1>a
  <2> QED
    BY <2>1, <2>2, <2>3
<1>4. SavesApart'
  BY <1>3 DEF SavesApart, KeyOf
<1> QED
  BY <1>1, <1>2, <1>4 DEF PollsRest, PollsSound

\* A poll that ends, or the tick that goes on to its next deployment.
LEMMA PollEndsMoves ==
  ASSUME OnboardingInv, NEW p0 \in Pollers, PollEnds(p0), memory \subseteq memory',
         \A k \in JobKeys : rows[k] = "succeeded" => rows'[k] = "succeeded",
         \A k \in JobKeys : rows[k] = "none" /\ rows'[k] # "none" =>
           k \in memory' /\ \A p \in Pollers \ {p0} : ~(poll[p].at = "save" /\ k = KeyOf(poll[p]))
  PROVE  PollsRest'
<1>0. poll[p0] \in PollRec /\ Sound(poll[p0], rows, memory)
  BY DEF OnboardingInv, PollsTyped, PollsSound
<1>a. NoPoll \in PollRec
  BY DEF NoPoll, PollRec, JobState
<1>1. PICK q : q = IF p0 = Tick /\ poll[p0].todo # {} THEN [NoPoll EXCEPT !.at = "next", !.todo = poll[p0].todo] ELSE NoPoll
  OBVIOUS
<1>2. poll' = [poll EXCEPT ![p0] = q]
  BY <1>1 DEF PollEnds
<1>3. q \in PollRec
  BY <1>0, <1>1, <1>a DEF PollRec
<1>4. q.at \in {"idle", "next"} /\ q.status = "none" /\ q.todo \subseteq poll[p0].todo
  BY <1>1 DEF NoPoll
<1>5. \A e \in poll[p0].todo : e \in Enrollments /\ rows[<<"deploy", e>>] = "succeeded"
  BY <1>0 DEF Sound, PollRec
<1>6. \A e \in q.todo : rows'[<<"deploy", e>>] = "succeeded"
  BY <1>4, <1>5 DEF JobKeys, Kinds
<1>7. Sound(q, rows', memory')
  BY <1>4, <1>6 DEF Sound
<1> QED
  BY <1>2, <1>3, <1>4, <1>7, PollMoves

LEMMA ViewKeeps ==
  ASSUME NEW state \in EnrollmentState \cup {"none"}, NEW status \in JobState, NEW seen \in BOOLEAN
  PROVE  /\ View(state, status, seen) \in EnrollmentState \cup {"none"}
         /\ View(state, status, seen) = "connected" => state = "connected" \/ status = "succeeded"
<1>0. \A s, t \in EnrollmentState \cup {"none"} : MoveTo(s, t) \in {s, t}
  BY DEF MoveTo
<1>1. MoveTo(state, "installing_agent") \in {state, "installing_agent"}
      /\ MoveTo(MoveTo(state, "registering_agent"), "connected") \in {state, "registering_agent", "connected"}
  BY <1>0 DEF EnrollmentState
<1>2. CASE status = "failed"
  <2>1. View(state, status, seen) = "failed"
    BY <1>2 DEF View
  <2> QED
    BY <2>1 DEF EnrollmentState
<1>3. CASE status \in {"applying", "succeeded"} /\ state = "discovering"
  <2>1. View(state, status, seen) = MoveTo(state, "installing_agent")
    BY <1>3 DEF View
  <2> QED
    BY <2>1, <1>1 DEF EnrollmentState
<1>4. CASE status = "succeeded" /\ state # "discovering" /\ seen
  <2>1. View(state, status, seen) = MoveTo(MoveTo(state, "registering_agent"), "connected")
    BY <1>4 DEF View
  <2> QED
    BY <2>1, <1>1, <1>4 DEF EnrollmentState
<1>5. CASE ~(status = "failed") /\ ~(status \in {"applying", "succeeded"} /\ state = "discovering")
           /\ ~(status = "succeeded" /\ state # "discovering" /\ seen)
  <2>1. View(state, status, seen) = state
    BY <1>5 DEF View
  <2> QED
    BY <2>1
<1> QED
  BY <1>2, <1>3, <1>4, <1>5

\* A request that creates an enrollment and changes no row.
LEMMA RequestStep ==
  ASSUME OnboardingInv, NEW e \in Enrollments,
         NEW x \in [state : EnrollmentState \cup {"none"}, step : {"-", "submit", "save", "start"}],
         enrollment' = [enrollment EXCEPT ![e] = x], UNCHANGED <<rows, poll, conflict>>,
         memory \subseteq memory', memory' \subseteq JobKeys, UsedTyped', used'.restarts = used.restarts,
         x.state = "connected" => enrollment[e].state = "connected",
         x.step \in {"submit", "save"} => rows[<<"deploy", e>>] = "none",
         x.step = "save" => <<"deploy", e>> \in memory'
  PROVE  OnboardingInv'
<1>0. EnrollmentsTyped
  BY DEF OnboardingInv
<1>1. EnrollmentsTyped'
  BY <1>0 DEF EnrollmentsTyped
<1>2. enrollment'[e] = x /\ \A o \in Enrollments \ {e} : enrollment'[o] = enrollment[o]
  BY <1>0 DEF EnrollmentsTyped
<1>3. RequestsSound'
  BY <1>2 DEF OnboardingInv, RequestsSound
<1>4. ShownInOrder'
  BY <1>2 DEF OnboardingInv, ShownInOrder
<1>5. PollsRest'
  BY PollsStay
<1>6. KnownUntilRestart'
  BY DEF OnboardingInv, KnownUntilRestart
<1>7. RowsTyped' /\ RowsInOrder' /\ ~conflict'
  BY DEF OnboardingInv, RowsTyped, RowsInOrder
<1> QED
  BY <1>1, <1>3, <1>4, <1>5, <1>6, <1>7 DEF OnboardingInv, PollsRest

\* A poll that moves on and changes nothing else.
LEMMA PollStep ==
  ASSUME OnboardingInv, PollsRest', UNCHANGED <<enrollment, rows, conflict, used>>,
         memory \subseteq memory', memory' \subseteq JobKeys
  PROVE  OnboardingInv'
<1>1. EnrollmentsTyped' /\ RowsTyped' /\ UsedTyped' /\ ShownInOrder' /\ RowsInOrder' /\ ~conflict'
  BY DEF OnboardingInv, EnrollmentsTyped, RowsTyped, UsedTyped, ShownInOrder, RowsInOrder
<1>2. RequestsSound' /\ KnownUntilRestart'
  BY DEF OnboardingInv, RequestsSound, KnownUntilRestart
<1> QED
  BY <1>1, <1>2 DEF OnboardingInv, PollsRest

LEMMA UseTyped ==
  ASSUME UsedTyped, NEW what \in {"faults", "restarts", "retries", "resets"}, NEW bound, Use(what, bound)
  PROVE  /\ UsedTyped'
         /\ what # "restarts" => used'.restarts = used.restarts
         /\ what = "restarts" => used'.restarts # 0
<1>1. used' = [used EXCEPT ![what] = @ + 1]
  BY DEF Use
<1>2. CASE what = "faults"
  BY <1>1, <1>2 DEF UsedTyped
<1>3. CASE what = "restarts"
  BY <1>1, <1>3 DEF UsedTyped
<1>4. CASE what = "retries"
  BY <1>1, <1>4 DEF UsedTyped
<1>5. CASE what = "resets"
  BY <1>1, <1>5 DEF UsedTyped
<1> QED
  BY <1>2, <1>3, <1>4, <1>5

LEMMA CreateKeeps ==
  ASSUME OnboardingInv, NEW e \in Enrollments, CreateEnrollment(e)
  PROVE  OnboardingInv'
<1>1. PICK step \in {"submit", "-"} : enrollment' = [enrollment EXCEPT ![e] = [state |-> "requested", step |-> step]]
  BY DEF CreateEnrollment
<1>2. PICK x : x = [state |-> "requested", step |-> step]
  OBVIOUS
<1>3. x \in [state : EnrollmentState \cup {"none"}, step : {"-", "submit", "save", "start"}]
  BY <1>1, <1>2 DEF EnrollmentState
<1>4. x.state = "requested" /\ x.step \in {"submit", "-"} /\ enrollment' = [enrollment EXCEPT ![e] = x]
  BY <1>1, <1>2
<1>5. rows[<<"deploy", e>>] = "none"
  BY DEF CreateEnrollment, Kinds
<1>6. UNCHANGED <<rows, memory, poll, conflict, used>>
  BY DEF CreateEnrollment
<1>7. UsedTyped' /\ memory' \subseteq JobKeys
  BY <1>6 DEF OnboardingInv, UsedTyped
<1> QED
  BY <1>3, <1>4, <1>5, <1>6, <1>7, RequestStep

LEMMA SubmitDeploymentKeeps ==
  ASSUME OnboardingInv, NEW e \in Enrollments, SubmitDeployment(e)
  PROVE  OnboardingInv'
<1>0. enrollment[e] \in [state : EnrollmentState \cup {"none"}, step : {"-", "submit", "save", "start"}]
  BY DEF OnboardingInv, EnrollmentsTyped
<1>1. UNCHANGED <<rows, poll, conflict, used>> /\ enrollment[e].step = "submit"
  BY DEF SubmitDeployment
<1>2. UsedTyped' /\ memory \subseteq JobKeys /\ <<"deploy", e>> \in JobKeys
  BY <1>1 DEF OnboardingInv, UsedTyped, JobKeys, Kinds
<1>3. rows[<<"deploy", e>>] = "none"
  BY <1>1 DEF OnboardingInv, RequestsSound
<1>4. CASE enrollment' = [enrollment EXCEPT ![e].step = "-"] /\ UNCHANGED memory
  <2>1. PICK x : x = [enrollment[e] EXCEPT !.step = "-"]
    OBVIOUS
  <2>2. x \in [state : EnrollmentState \cup {"none"}, step : {"-", "submit", "save", "start"}]
        /\ x.step = "-" /\ x.state = enrollment[e].state
    BY <1>0, <2>1
  <2>3. enrollment' = [enrollment EXCEPT ![e] = x]
    BY <1>4, <2>1
  <2> QED
    BY <1>1, <1>2, <1>4, <2>2, <2>3, RequestStep
<1>5. CASE enrollment' = [enrollment EXCEPT ![e].step = "save"] /\ memory' = memory \cup {<<"deploy", e>>}
  <2>1. PICK x : x = [enrollment[e] EXCEPT !.step = "save"]
    OBVIOUS
  <2>2. x \in [state : EnrollmentState \cup {"none"}, step : {"-", "submit", "save", "start"}]
        /\ x.step = "save" /\ x.state = enrollment[e].state
    BY <1>0, <2>1
  <2>3. enrollment' = [enrollment EXCEPT ![e] = x]
    BY <1>5, <2>1
  <2>4. memory \subseteq memory' /\ memory' \subseteq JobKeys /\ <<"deploy", e>> \in memory'
    BY <1>2, <1>5
  <2> QED
    BY <1>1, <1>2, <1>3, <2>2, <2>3, <2>4, RequestStep
<1> QED
  BY <1>4, <1>5 DEF SubmitDeployment

LEMMA StepDroppedKeeps ==
  ASSUME OnboardingInv, NEW e \in Enrollments, Use("faults", MaxLosses),
         enrollment' = [enrollment EXCEPT ![e].step = "-"], UNCHANGED <<rows, memory, poll, conflict>>
  PROVE  OnboardingInv'
<1>0. enrollment[e] \in [state : EnrollmentState \cup {"none"}, step : {"-", "submit", "save", "start"}]
  BY DEF OnboardingInv, EnrollmentsTyped
<1>1. PICK x : x = [enrollment[e] EXCEPT !.step = "-"]
  OBVIOUS
<1>2. x \in [state : EnrollmentState \cup {"none"}, step : {"-", "submit", "save", "start"}]
      /\ x.step = "-" /\ x.state = enrollment[e].state
  BY <1>0, <1>1
<1>3. enrollment' = [enrollment EXCEPT ![e] = x]
  BY <1>1
<1>4. UsedTyped' /\ used'.restarts = used.restarts /\ memory' \subseteq JobKeys
  BY UseTyped DEF OnboardingInv
<1> QED
  BY <1>2, <1>3, <1>4, RequestStep

LEMMA SaveDeploymentKeeps ==
  ASSUME OnboardingInv, NEW e \in Enrollments, SaveDeployment(e)
  PROVE  OnboardingInv'
<1>1. CASE rows' = [rows EXCEPT ![<<"deploy", e>>] = "queued"] /\ enrollment' = [enrollment EXCEPT ![e].step = "start"] /\ UNCHANGED used
  <2>0. EnrollmentsTyped /\ RowsTyped /\ UNCHANGED <<memory, poll, conflict>> /\ enrollment[e].step = "save"
    BY DEF OnboardingInv, SaveDeployment
  <2>a. <<"deploy", e>> \in JobKeys /\ \A k \in JobKeys : k # <<"deploy", e>> => rows'[k] = rows[k]
    BY <1>1, <2>0 DEF RowsTyped, JobKeys, Kinds
  <2>b. rows[<<"deploy", e>>] = "none" /\ <<"deploy", e>> \in memory
    BY <2>0 DEF OnboardingInv, RequestsSound
  <2>c. enrollment'[e].step = "start" /\ (\A o \in Enrollments : enrollment'[o].state = enrollment[o].state)
        /\ \A o \in Enrollments \ {e} : enrollment'[o] = enrollment[o]
    BY <1>1, <2>0 DEF EnrollmentsTyped
  <2>1. EnrollmentsTyped' /\ RowsTyped'
    BY <1>1, <2>0 DEF EnrollmentsTyped, RowsTyped, JobState
  <2>2. ASSUME NEW p \in Pollers PROVE ~(poll[p].at = "save" /\ <<"deploy", e>> = KeyOf(poll[p]))
    <3>1. Sound(poll[p], rows, memory)
      BY DEF OnboardingInv, PollsSound
    <3> QED
      BY <3>1 DEF Sound, KeyOf
  <2>3. PollsRest'
    BY <2>0, <2>a, <2>b, <2>2, PollsStay
  <2>4. RequestsSound'
    <3> SUFFICES ASSUME NEW o \in Enrollments
                 PROVE  /\ enrollment'[o].step \in {"submit", "save"} => rows'[<<"deploy", o>>] = "none"
                        /\ enrollment'[o].step = "save" => <<"deploy", o>> \in memory'
      BY DEF RequestsSound
    <3>1. CASE o = e
      BY <3>1, <2>c
    <3>2. CASE o # e
      <4>1. rows'[<<"deploy", o>>] = rows[<<"deploy", o>>]
        BY <3>2, <2>a DEF JobKeys, Kinds
      <4> QED
        BY <3>2, <4>1, <2>0, <2>c DEF OnboardingInv, RequestsSound
    <3> QED
      BY <3>1, <3>2
  <2>5. KnownUntilRestart'
    BY <1>1, <2>0, <2>a, <2>b DEF OnboardingInv, KnownUntilRestart
  <2>6. ShownInOrder'
    <3> SUFFICES ASSUME NEW o \in Enrollments, enrollment'[o].state = "connected" PROVE rows'[<<"deploy", o>>] = "succeeded"
      BY DEF ShownInOrder
    <3>1. rows[<<"deploy", o>>] = "succeeded"
      BY <2>c DEF OnboardingInv, ShownInOrder
    <3>2. <<"deploy", o>> # <<"deploy", e>> /\ <<"deploy", o>> \in JobKeys
      BY <3>1, <2>b DEF JobKeys, Kinds
    <3> QED
      BY <3>1, <3>2, <2>a
  <2>7. RowsInOrder'
    <3> SUFFICES ASSUME NEW o \in Enrollments
                 PROVE  /\ rows'[<<"health", o>>] # "none" => rows'[<<"deploy", o>>] = "succeeded"
                        /\ rows'[<<"inventory", o>>] # "none" => rows'[<<"health", o>>] = "succeeded"
      BY DEF RowsInOrder
    <3>1. rows'[<<"health", o>>] = rows[<<"health", o>>] /\ rows'[<<"inventory", o>>] = rows[<<"inventory", o>>]
      BY <2>a DEF JobKeys, Kinds
    <3>2. rows[<<"deploy", o>>] = "succeeded" => rows'[<<"deploy", o>>] = "succeeded"
      BY <2>a, <2>b DEF JobKeys, Kinds
    <3> QED
      BY <3>1, <3>2 DEF OnboardingInv, RowsInOrder
  <2>8. UsedTyped' /\ memory' \subseteq JobKeys /\ ~conflict'
    BY <1>1, <2>0 DEF OnboardingInv, UsedTyped
  <2> QED
    BY <2>1, <2>3, <2>4, <2>5, <2>6, <2>7, <2>8 DEF OnboardingInv, PollsRest
<1>2. CASE Use("faults", MaxLosses) /\ enrollment' = [enrollment EXCEPT ![e].step = "-"] /\ UNCHANGED rows
  BY <1>2, StepDroppedKeeps DEF SaveDeployment
<1> QED
  BY <1>1, <1>2 DEF SaveDeployment

LEMMA StartDiscoveryKeeps ==
  ASSUME OnboardingInv, NEW e \in Enrollments, StartDiscovery(e)
  PROVE  OnboardingInv'
<1>0. enrollment[e] \in [state : EnrollmentState \cup {"none"}, step : {"-", "submit", "save", "start"}]
  BY DEF OnboardingInv, EnrollmentsTyped
<1>1. PICK x : x = [state |-> MoveTo(enrollment[e].state, "discovering"), step |-> "-"]
  OBVIOUS
<1>2. MoveTo(enrollment[e].state, "discovering") \in {enrollment[e].state, "discovering"}
  BY DEF MoveTo
<1>3. x \in [state : EnrollmentState \cup {"none"}, step : {"-", "submit", "save", "start"}]
      /\ x.step = "-" /\ x.state \in {enrollment[e].state, "discovering"}
  BY <1>0, <1>1, <1>2 DEF EnrollmentState
<1>4. enrollment' = [enrollment EXCEPT ![e] = x] /\ UNCHANGED <<rows, memory, poll, conflict, used>>
  BY <1>1 DEF StartDiscovery
<1>5. UsedTyped' /\ used'.restarts = used.restarts /\ memory' \subseteq JobKeys
  BY <1>4 DEF OnboardingInv, UsedTyped
<1> QED
  BY <1>3, <1>4, <1>5, RequestStep

LEMMA CreateDroppedKeeps ==
  ASSUME OnboardingInv, NEW e \in Enrollments, CreateDropped(e)
  PROVE  OnboardingInv'
BY StepDroppedKeeps DEF CreateDropped

\* The facts about the poll that moves.
LEMMA PollFacts ==
  ASSUME OnboardingInv, NEW p \in Pollers
  PROVE  poll[p] \in PollRec /\ Sound(poll[p], rows, memory)
BY DEF OnboardingInv, PollsTyped, PollsSound

\* A poll goes on to a record that is sound; nothing else is changed.
LEMMA PollGoesOn ==
  ASSUME OnboardingInv, NEW p \in Pollers, NEW q \in PollRec, poll' = [poll EXCEPT ![p] = q],
         Sound(q, rows, memory), q.at # "save", UNCHANGED <<enrollment, rows, memory, conflict, used>>
  PROVE  OnboardingInv'
<1>1. Sound(q, rows', memory')
  <2>1. rows' = rows /\ memory' = memory
    OBVIOUS
  <2> QED
    BY <2>1
<1>2. PollsRest'
  BY <1>1, PollMoves
<1>3. memory \subseteq memory' /\ memory' \subseteq JobKeys
  BY DEF OnboardingInv
<1> QED
  BY <1>2, <1>3, PollStep

LEMMA PollEnded ==
  ASSUME OnboardingInv, NEW p \in Pollers, PollEnds(p), UNCHANGED <<enrollment, rows, memory, conflict, used>>
  PROVE  OnboardingInv'
<1>1. PollsRest'
  BY PollEndsMoves
<1>2. memory \subseteq memory' /\ memory' \subseteq JobKeys
  BY DEF OnboardingInv
<1> QED
  BY <1>1, <1>2, PollStep

LEMMA ListJobsKeeps ==
  ASSUME OnboardingInv, NEW p \in Pages, NEW e \in Enrollments, ListJobs(p, e)
  PROVE  OnboardingInv'
<1>1. PICK q : q = [NoPoll EXCEPT !.at = "look", !.id = e, !.status = rows[<<"deploy", e>>]]
  OBVIOUS
<1>2. rows[<<"deploy", e>>] \in JobState
  BY DEF OnboardingInv, RowsTyped, JobKeys, Kinds
<1>3. q \in PollRec
  BY <1>1, <1>2 DEF NoPoll, PollRec
<1>4. q.at = "look" /\ q.id = e /\ q.status = rows[<<"deploy", e>>] /\ q.todo = {}
  BY <1>1 DEF NoPoll
<1>5. Sound(q, rows, memory)
  BY <1>4 DEF Sound
<1>6. poll' = [poll EXCEPT ![p] = q] /\ UNCHANGED <<enrollment, rows, memory, conflict, used>>
  BY <1>1 DEF ListJobs
<1>7. p \in Pollers
  BY DEF Pollers
<1> QED
  BY <1>3, <1>4, <1>5, <1>6, <1>7, PollGoesOn

LEMMA LookAtTargetKeeps ==
  ASSUME OnboardingInv, NEW p \in Pollers, LookAtTarget(p), target.store \in BOOLEAN
  PROVE  OnboardingInv'
<1>0. poll[p] \in PollRec /\ Sound(poll[p], rows, memory) /\ poll[p].at = "look"
  BY PollFacts DEF LookAtTarget
<1>1. PICK q : q = [poll[p] EXCEPT !.at = "view", !.connected = target.store]
  OBVIOUS
<1>2. q \in PollRec
  BY <1>0, <1>1 DEF PollRec
<1>3. q.at = "view" /\ q.id = poll[p].id /\ q.status = poll[p].status /\ q.todo = poll[p].todo
  BY <1>0, <1>1 DEF PollRec
<1>4. Sound(q, rows, memory)
  BY <1>0, <1>3 DEF Sound
<1>5. poll' = [poll EXCEPT ![p] = q] /\ UNCHANGED <<enrollment, rows, memory, conflict, used>>
  BY <1>0, <1>1 DEF LookAtTarget, PollRec, OnboardingInv, PollsTyped
<1> QED
  BY <1>2, <1>3, <1>4, <1>5, PollGoesOn

\* Step moves a poll whose deployment has succeeded to a place that asks no more.
LEMMA StepGoesOn ==
  ASSUME OnboardingInv, NEW p \in Pollers, NEW at \in {"target", "jobs"}, Step(p, at), poll[p].status = "succeeded"
  PROVE  \E q \in PollRec : q.at = at /\ poll' = [poll EXCEPT ![p] = q] /\ Sound(q, rows, memory)
<1>0. poll[p] \in PollRec /\ Sound(poll[p], rows, memory)
  BY PollFacts
<1>1. PICK q : q = [poll[p] EXCEPT !.at = at]
  OBVIOUS
<1>2. q \in PollRec
  BY <1>0, <1>1 DEF PollRec
<1>3. q.at = at /\ q.id = poll[p].id /\ q.status = "succeeded" /\ q.todo = poll[p].todo
  BY <1>0, <1>1 DEF PollRec
<1>4. Sound(q, rows, memory)
  BY <1>0, <1>3 DEF Sound
<1>5. poll' = [poll EXCEPT ![p] = q]
  BY <1>1 DEF Step
<1> QED
  BY <1>2, <1>3, <1>4, <1>5

LEMMA UpdateViewKeeps ==
  ASSUME OnboardingInv, NEW p \in Pollers, UpdateView(p)
  PROVE  OnboardingInv'
<1>0. poll[p] \in PollRec /\ Sound(poll[p], rows, memory) /\ poll[p].at = "view"
  BY PollFacts DEF UpdateView
<1>1. UNCHANGED <<rows, memory, conflict, used>>
  BY DEF UpdateView
<1>2. PICK e \in Enrollments : e = poll[p].id
  BY <1>0 DEF Sound
<1>3. enrollment[e] \in [state : EnrollmentState \cup {"none"}, step : {"-", "submit", "save", "start"}]
  BY DEF OnboardingInv, EnrollmentsTyped
<1>4. PICK v : v = View(enrollment[e].state, poll[p].status, poll[p].connected)
  OBVIOUS
<1>5. enrollment' = [enrollment EXCEPT ![e] = [@ EXCEPT !.state = v]]
  BY <1>2, <1>4 DEF UpdateView, OnboardingInv, EnrollmentsTyped
<1>6. v \in EnrollmentState \cup {"none"} /\ (v = "connected" => enrollment[e].state = "connected" \/ poll[p].status = "succeeded")
  BY <1>0, <1>3, <1>4, ViewKeeps DEF PollRec
<1>7. /\ enrollment'[e].state = v /\ enrollment'[e].step = enrollment[e].step
      /\ \A o \in Enrollments \ {e} : enrollment'[o] = enrollment[o]
  BY <1>3, <1>5 DEF OnboardingInv, EnrollmentsTyped
<1>8. EnrollmentsTyped'
  BY <1>3, <1>5, <1>6 DEF OnboardingInv, EnrollmentsTyped
<1>9. ShownInOrder'
  <2> SUFFICES ASSUME NEW o \in Enrollments, enrollment'[o].state = "connected" PROVE rows[<<"deploy", o>>] = "succeeded"
    BY <1>1 DEF ShownInOrder
  <2>1. CASE o # e
    BY <2>1, <1>7 DEF OnboardingInv, ShownInOrder
  <2>2. CASE o = e
    <3>1. enrollment[e].state = "connected" => rows[<<"deploy", e>>] = "succeeded"
      BY DEF OnboardingInv, ShownInOrder
    <3>2. poll[p].status = "succeeded" => rows[<<"deploy", e>>] = "succeeded"
      BY <1>0, <1>2 DEF Sound
    <3> QED
      BY <2>2, <3>1, <3>2, <1>6, <1>7
  <2> QED
    BY <2>1, <2>2
<1>10. RequestsSound'
  BY <1>1, <1>7 DEF OnboardingInv, RequestsSound
<1>11. PollsRest'
  <2>1. CASE poll[p].status = "succeeded" /\ Step(p, "target")
    <3>1. PICK q \in PollRec : q.at = "target" /\ poll' = [poll EXCEPT ![p] = q] /\ Sound(q, rows, memory)
      BY <2>1, StepGoesOn
    <3>2. Sound(q, rows', memory')
      <4>1. rows' = rows /\ memory' = memory
        BY <1>1
      <4> QED
        BY <4>1, <3>1
    <3> QED
      BY <3>1, <3>2, <1>1, PollMoves
  <2>2. CASE PollEnds(p)
    BY <2>2, <1>1, PollEndsMoves
  <2> QED
    BY <2>1, <2>2 DEF UpdateView
<1>12. RowsTyped' /\ UsedTyped' /\ memory' \subseteq JobKeys /\ RowsInOrder' /\ ~conflict'
  BY <1>1 DEF OnboardingInv, RowsTyped, UsedTyped, RowsInOrder
<1>13. KnownUntilRestart'
  BY <1>1 DEF OnboardingInv, KnownUntilRestart
<1> QED
  BY <1>8, <1>9, <1>10, <1>11, <1>12, <1>13 DEF OnboardingInv, PollsRest

LEMMA FindManagedKeeps ==
  ASSUME OnboardingInv, NEW p \in Pollers, FindManaged(p)
  PROVE  OnboardingInv'
<1>0. poll[p].status = "succeeded" /\ UNCHANGED <<enrollment, rows, memory, conflict, used>>
  BY PollFacts DEF FindManaged, Sound
<1>1. CASE Step(p, "jobs")
  <2>1. PICK q \in PollRec : q.at = "jobs" /\ poll' = [poll EXCEPT ![p] = q] /\ Sound(q, rows, memory)
    BY <1>0, <1>1, StepGoesOn
  <2> QED
    BY <2>1, <1>0, PollGoesOn
<1>2. CASE PollEnds(p)
  BY <1>0, <1>2, PollEnded
<1> QED
  BY <1>1, <1>2 DEF FindManaged

LEMMA ListFollowUpsKeeps ==
  ASSUME OnboardingInv, NEW p \in Pollers, ListFollowUps(p)
  PROVE  OnboardingInv'
<1>0. poll[p] \in PollRec /\ Sound(poll[p], rows, memory) /\ poll[p].at = "jobs"
  BY PollFacts DEF ListFollowUps
<1>a. UNCHANGED <<enrollment, rows, memory, conflict, used>>
  BY DEF ListFollowUps
<1>b. poll[p].status = "succeeded" /\ poll[p].id \in Enrollments
  BY <1>0 DEF Sound
<1>1. PICK kind : kind = NextFollowUp(poll[p].id)
  OBVIOUS
<1>2. CASE kind = "-"
  BY <1>1, <1>2, <1>a, PollEnded DEF ListFollowUps
<1>3. CASE kind # "-"
  <2>1. /\ kind \in {"health", "inventory"} /\ rows[<<kind, poll[p].id>>] = "none"
        /\ kind = "inventory" => rows[<<"health", poll[p].id>>] = "succeeded"
    BY <1>1, <1>3 DEF NextFollowUp
  <2>2. PICK q : q = [poll[p] EXCEPT !.at = "submit", !.kind = kind]
    OBVIOUS
  <2>3. q \in PollRec
    BY <1>0, <2>1, <2>2 DEF PollRec, Kinds
  <2>4. q.at = "submit" /\ q.id = poll[p].id /\ q.status = "succeeded" /\ q.todo = poll[p].todo /\ q.kind = kind
    BY <1>0, <1>b, <2>2 DEF PollRec
  <2>5. Sound(q, rows, memory)
    BY <1>0, <2>1, <2>4 DEF Sound, KeyOf
  <2>6. poll' = [poll EXCEPT ![p] = q]
    BY <1>0, <1>1, <1>3, <2>2 DEF ListFollowUps, PollRec, OnboardingInv, PollsTyped
  <2> QED
    BY <1>a, <2>3, <2>4, <2>5, <2>6, PollGoesOn
<1> QED
  BY <1>2, <1>3

LEMMA SubmitFollowUpKeeps ==
  ASSUME OnboardingInv, NEW p \in Pollers, SubmitFollowUp(p)
  PROVE  OnboardingInv'
<1>0. poll[p] \in PollRec /\ Sound(poll[p], rows, memory) /\ poll[p].at = "submit"
  BY PollFacts DEF SubmitFollowUp
<1>a. UNCHANGED <<enrollment, rows, conflict, used>>
  BY DEF SubmitFollowUp
<1>1. PICK k : k = KeyOf(poll[p])
  OBVIOUS
<1>b. k \in JobKeys
  BY <1>0, <1>1 DEF Sound, KeyOf, JobKeys, Kinds
<1>2. CASE k \in memory
  BY <1>1, <1>2, <1>a, PollEnded DEF SubmitFollowUp, KeyOf
<1>3. CASE k \notin memory
  <2>1. Step(p, "save") /\ memory' = memory \cup {k}
    BY <1>1, <1>3 DEF SubmitFollowUp, KeyOf
  <2>2. PICK q : q = [poll[p] EXCEPT !.at = "save"]
    OBVIOUS
  <2>3. q \in PollRec
    BY <1>0, <2>2 DEF PollRec
  <2>4. /\ q.at = "save" /\ q.id = poll[p].id /\ q.status = poll[p].status
        /\ q.todo = poll[p].todo /\ q.kind = poll[p].kind
    BY <1>0, <2>2 DEF PollRec
  <2>5. KeyOf(q) = k /\ rows[k] = "none"
    BY <1>0, <1>1, <1>3, <2>4 DEF Sound, KeyOf
  <2>6. Sound(q, rows, memory')
    BY <1>0, <2>1, <2>4, <2>5 DEF Sound
  <2>7. poll' = [poll EXCEPT ![p] = q]
    BY <2>1, <2>2 DEF Step
  <2>8. Sound(q, rows', memory')
    <3>1. rows' = rows
      BY <1>a
    <3> QED
      BY <2>6, <3>1
  <2>9. \A o \in Pollers : poll[o].at = "save" => KeyOf(poll[o]) \in memory
    BY DEF OnboardingInv, PollsSound, Sound
  <2>10. PollsRest'
    BY <1>3, <1>a, <2>1, <2>3, <2>5, <2>7, <2>8, <2>9, PollMoves
  <2>11. memory \subseteq memory' /\ memory' \subseteq JobKeys
    BY <1>b, <2>1 DEF OnboardingInv
  <2> QED
    BY <1>a, <2>10, <2>11, PollStep
<1> QED
  BY <1>2, <1>3

LEMMA SaveFollowUpKeeps ==
  ASSUME OnboardingInv, NEW p \in Pollers, SaveFollowUp(p)
  PROVE  OnboardingInv'
<1>0. poll[p] \in PollRec /\ Sound(poll[p], rows, memory) /\ poll[p].at = "save"
  BY PollFacts DEF SaveFollowUp
<1>a. UNCHANGED <<enrollment, memory>> /\ PollEnds(p)
  BY DEF SaveFollowUp
<1>1. PICK k : k = KeyOf(poll[p])
  OBVIOUS
<1>b. PICK e \in Enrollments : e = poll[p].id
  BY <1>0 DEF Sound
<1>c. /\ poll[p].kind \in {"health", "inventory"} /\ k = <<poll[p].kind, e>> /\ k \in JobKeys
      /\ rows[k] = "none" /\ k \in memory /\ rows[<<"deploy", e>>] = "succeeded"
      /\ poll[p].kind = "inventory" => rows[<<"health", e>>] = "succeeded"
  BY <1>0, <1>1, <1>b DEF Sound, KeyOf, JobKeys, Kinds
<1>2. CASE Use("faults", MaxLosses) /\ UNCHANGED <<rows, conflict>>
  <2>1. PollsRest'
    BY <1>2, <1>a, PollEndsMoves
  <2>2. UsedTyped' /\ used'.restarts = used.restarts
    BY <1>2, UseTyped DEF OnboardingInv
  <2>3. EnrollmentsTyped' /\ RowsTyped' /\ memory' \subseteq JobKeys /\ ShownInOrder' /\ RowsInOrder' /\ ~conflict'
    BY <1>2, <1>a DEF OnboardingInv, EnrollmentsTyped, RowsTyped, ShownInOrder, RowsInOrder
  <2>4. RequestsSound'
    BY <1>2, <1>a DEF OnboardingInv, RequestsSound
  <2>5. KnownUntilRestart'
    BY <1>2, <1>a, <2>2 DEF OnboardingInv, KnownUntilRestart
  <2> QED
    BY <2>1, <2>2, <2>3, <2>4, <2>5 DEF OnboardingInv, PollsRest
<1>3. CASE /\ rows' = [rows EXCEPT ![k] = IF @ = "none" THEN "queued" ELSE @]
           /\ conflict' = (conflict \/ rows[k] # "none") /\ UNCHANGED used
  <2>0. RowsTyped
    BY DEF OnboardingInv
  <2>1. rows'[k] = "queued" /\ \A o \in JobKeys : o # k => rows'[o] = rows[o]
    BY <1>3, <1>c, <2>0 DEF RowsTyped
  <2>2. RowsTyped'
    BY <1>3, <1>c, <2>0 DEF RowsTyped, JobState
  <2>3. \A o \in Pollers \ {p} : ~(poll[o].at = "save" /\ k = KeyOf(poll[o]))
    BY <1>0, <1>1 DEF OnboardingInv, SavesApart
  <2>4. PollsRest'
    BY <1>a, <1>c, <2>1, <2>3, PollEndsMoves
  <2>5. \A o \in Enrollments : rows'[<<"deploy", o>>] = rows[<<"deploy", o>>]
    BY <1>c, <2>1 DEF JobKeys, Kinds
  <2>6. RowsInOrder'
    <3> SUFFICES ASSUME NEW o \in Enrollments
                 PROVE  /\ rows'[<<"health", o>>] # "none" => rows'[<<"deploy", o>>] = "succeeded"
                        /\ rows'[<<"inventory", o>>] # "none" => rows'[<<"health", o>>] = "succeeded"
      BY DEF RowsInOrder
    <3>0. <<"health", o>> \in JobKeys /\ <<"inventory", o>> \in JobKeys /\ <<"health", o>> # <<"inventory", o>>
      BY DEF JobKeys, Kinds
    <3>a. /\ rows[<<"health", o>>] # "none" => rows[<<"deploy", o>>] = "succeeded"
          /\ rows[<<"inventory", o>>] # "none" => rows[<<"health", o>>] = "succeeded"
      BY DEF OnboardingInv, RowsInOrder
    <3>1. CASE k = <<"health", o>>
      BY <3>0, <3>a, <3>1, <1>c, <2>1, <2>5
    <3>2. CASE k = <<"inventory", o>>
      BY <3>0, <3>a, <3>2, <1>c, <2>1, <2>5
    <3>3. CASE k # <<"health", o>> /\ k # <<"inventory", o>>
      BY <3>0, <3>a, <3>3, <2>1, <2>5
    <3> QED
      BY <3>1, <3>2, <3>3
  <2>7. ~conflict'
    BY <1>3, <1>c DEF OnboardingInv
  <2>8. ShownInOrder' /\ EnrollmentsTyped' /\ UsedTyped' /\ memory' \subseteq JobKeys
    BY <1>3, <1>a, <2>5 DEF OnboardingInv, ShownInOrder, EnrollmentsTyped, UsedTyped
  <2>9. RequestsSound'
    BY <1>a, <2>5 DEF OnboardingInv, RequestsSound
  <2>10. KnownUntilRestart'
    BY <1>3, <1>a, <1>c, <2>1 DEF OnboardingInv, KnownUntilRestart
  <2> QED
    BY <2>2, <2>4, <2>6, <2>7, <2>8, <2>9, <2>10 DEF OnboardingInv, PollsRest
<1> QED
  BY <1>1, <1>2, <1>3 DEF SaveFollowUp, KeyOf

LEMMA TickListsKeeps ==
  ASSUME OnboardingInv, TickLists
  PROVE  OnboardingInv'
<1>1. PICK done : done = {e \in Enrollments : rows[<<"deploy", e>>] = "succeeded"}
  OBVIOUS
<1>2. PICK q : q = [NoPoll EXCEPT !.at = "next", !.todo = done]
  OBVIOUS
<1>3. q \in PollRec
  BY <1>1, <1>2 DEF NoPoll, PollRec, JobState
<1>4. q.at = "next" /\ q.todo = done /\ q.status = "none"
  BY <1>2 DEF NoPoll
<1>5. Sound(q, rows, memory)
  BY <1>1, <1>4 DEF Sound
<1>6. poll' = [poll EXCEPT ![Tick] = q] /\ UNCHANGED <<enrollment, rows, memory, conflict, used>> /\ Tick \in Pollers
  BY <1>1, <1>2 DEF TickLists, Pollers
<1> QED
  BY <1>3, <1>4, <1>5, <1>6, PollGoesOn

LEMMA TickTakesKeeps ==
  ASSUME OnboardingInv, NEW e \in Enrollments, TickTakes(e)
  PROVE  OnboardingInv'
<1>0. Tick \in Pollers
  BY DEF Pollers
<1>1. poll[Tick] \in PollRec /\ Sound(poll[Tick], rows, memory) /\ e \in poll[Tick].todo
  BY <1>0, PollFacts DEF TickTakes
<1>2. PICK q : q = [poll[Tick] EXCEPT !.at = "target", !.id = e, !.status = "succeeded", !.todo = @ \ {e}]
  OBVIOUS
<1>3. q \in PollRec
  BY <1>1, <1>2 DEF PollRec, JobState
<1>4. q.at = "target" /\ q.id = e /\ q.status = "succeeded" /\ q.todo = poll[Tick].todo \ {e}
  BY <1>1, <1>2 DEF PollRec
<1>5. Sound(q, rows, memory)
  BY <1>1, <1>4 DEF Sound
<1>6. poll' = [poll EXCEPT ![Tick] = q] /\ UNCHANGED <<enrollment, rows, memory, conflict, used>>
  BY <1>2 DEF TickTakes
<1> QED
  BY <1>0, <1>3, <1>4, <1>5, <1>6, PollGoesOn

\* A job that was queued and has not succeeded gets another status.
LEMMA RowMoves ==
  ASSUME OnboardingInv, NEW k \in JobKeys, NEW v \in JobState \ {"none"}, rows[k] \notin {"none", "succeeded"},
         rows' = [rows EXCEPT ![k] = v], UNCHANGED <<enrollment, memory, poll, conflict>>,
         UsedTyped', used'.restarts = used.restarts
  PROVE  OnboardingInv'
<1>0. RowsTyped
  BY DEF OnboardingInv
<1>1. rows'[k] = v /\ \A o \in JobKeys : o # k => rows'[o] = rows[o]
  BY <1>0 DEF RowsTyped
<1>2. RowsTyped'
  BY <1>0 DEF RowsTyped
<1>3. \A o \in JobKeys : /\ rows[o] = "succeeded" => rows'[o] = "succeeded"
                         /\ rows[o] = "none" <=> rows'[o] = "none"
  BY <1>1
<1>4. PollsRest'
  BY <1>3, PollsStay
<1>5. \A o \in Enrollments : <<"deploy", o>> \in JobKeys /\ <<"health", o>> \in JobKeys /\ <<"inventory", o>> \in JobKeys
  BY DEF JobKeys, Kinds
<1>6. RequestsSound'
  BY <1>3, <1>5 DEF OnboardingInv, RequestsSound
<1>7. KnownUntilRestart'
  BY <1>3 DEF OnboardingInv, KnownUntilRestart
<1>8. ShownInOrder'
  BY <1>3, <1>5 DEF OnboardingInv, ShownInOrder
<1>9. RowsInOrder'
  BY <1>3, <1>5 DEF OnboardingInv, RowsInOrder
<1>10. EnrollmentsTyped' /\ memory' \subseteq JobKeys /\ ~conflict'
  BY DEF OnboardingInv, EnrollmentsTyped
<1> QED
  BY <1>2, <1>4, <1>6, <1>7, <1>8, <1>9, <1>10 DEF OnboardingInv, PollsRest

LEMMA JobsKeep ==
  ASSUME OnboardingInv, NEW k \in JobKeys, RunJob(k) \/ RetryFailed(k)
  PROVE  OnboardingInv'
<1>0. UsedTyped /\ {"queued", "applying", "succeeded", "failed", "reconcile_required"} \subseteq JobState \ {"none"}
  BY DEF OnboardingInv, JobState
<1>1. CASE RunJob(k)
  <2>1. UNCHANGED <<enrollment, memory, poll, conflict, used>>
    BY <1>1 DEF RunJob
  <2>2. PICK v \in JobState \ {"none"} : rows' = [rows EXCEPT ![k] = v] /\ rows[k] \notin {"none", "succeeded"}
    BY <1>0, <1>1 DEF RunJob
  <2>3. UsedTyped' /\ used'.restarts = used.restarts
    BY <1>0, <2>1 DEF UsedTyped
  <2> QED
    BY <2>1, <2>2, <2>3, RowMoves
<1>2. CASE RetryFailed(k)
  <2>1. UNCHANGED <<enrollment, memory, poll, conflict>> /\ Use("retries", MaxRetried)
    BY <1>2 DEF RetryFailed
  <2>2. PICK v \in JobState \ {"none"} : rows' = [rows EXCEPT ![k] = v] /\ rows[k] \notin {"none", "succeeded"}
    BY <1>0, <1>2 DEF RetryFailed
  <2>3. UsedTyped' /\ used'.restarts = used.restarts
    BY <1>0, <2>1, UseTyped
  <2> QED
    BY <2>1, <2>2, <2>3, RowMoves
<1> QED
  BY <1>1, <1>2

\* Heartbeats and resets touch the target and the counters alone.
LEMMA TargetStep ==
  ASSUME OnboardingInv, UNCHANGED <<enrollment, rows, memory, poll, conflict>>, UsedTyped', used'.restarts = used.restarts
  PROVE  OnboardingInv'
<1>1. PollsRest'
  BY PollsStay
<1>2. EnrollmentsTyped' /\ RowsTyped' /\ memory' \subseteq JobKeys /\ ShownInOrder' /\ RowsInOrder' /\ ~conflict'
  BY DEF OnboardingInv, EnrollmentsTyped, RowsTyped, ShownInOrder, RowsInOrder
<1>3. RequestsSound' /\ KnownUntilRestart'
  BY DEF OnboardingInv, RequestsSound, KnownUntilRestart
<1> QED
  BY <1>1, <1>2, <1>3 DEF OnboardingInv, PollsRest

LEMMA TargetKeeps ==
  ASSUME OnboardingInv, Heartbeat \/ ResetTarget
  PROVE  OnboardingInv'
<1>0. UsedTyped /\ UNCHANGED <<enrollment, rows, memory, poll, conflict>>
  BY DEF OnboardingInv, Heartbeat, ResetTarget
<1>1. CASE Heartbeat
  <2>1. UNCHANGED used \/ Use("faults", MaxLosses)
    BY <1>1 DEF Heartbeat
  <2>2. UsedTyped' /\ used'.restarts = used.restarts
    BY <2>1, <1>0, UseTyped DEF UsedTyped
  <2> QED
    BY <1>0, <2>2, TargetStep
<1>2. CASE ResetTarget
  <2>1. used' = [used EXCEPT !.resets = @ + 1] \/ used' = [used EXCEPT !.resets = @ + 1, !.faults = @ + 1]
    BY <1>2 DEF ResetTarget
  <2>2. CASE used' = [used EXCEPT !.resets = @ + 1]
    BY <2>2, <1>0, TargetStep DEF UsedTyped
  <2>3. CASE used' = [used EXCEPT !.resets = @ + 1, !.faults = @ + 1]
    <3>1. used.resets + 1 \in Nat /\ used.faults + 1 \in Nat
      BY <1>0 DEF UsedTyped
    <3>2. UsedTyped' /\ used'.restarts = used.restarts
      BY <2>3, <3>1, <1>0 DEF UsedTyped
    <3> QED
      BY <1>0, <3>2, TargetStep
  <2> QED
    BY <2>1, <2>2, <2>3
<1> QED
  BY <1>1, <1>2

LEMMA RestPolls ==
  NoPoll \in PollRec /\ \A R, M : Sound(NoPoll, R, M)
<1>1. NoPoll \in PollRec
  BY DEF NoPoll, PollRec, JobState
<1>2. NoPoll.at = "idle" /\ NoPoll.status = "none" /\ NoPoll.todo = {}
  BY DEF NoPoll
<1> QED
  BY <1>1, <1>2 DEF Sound

LEMMA ControllerRestartKeeps ==
  ASSUME OnboardingInv, RestartController
  PROVE  OnboardingInv'
<1>0. UNCHANGED <<rows, conflict>> /\ memory' = {} /\ Use("restarts", MaxRestarts)
      /\ enrollment' = [e \in Enrollments |-> Unknown] /\ poll' = [p \in Pollers |-> NoPoll]
  BY DEF RestartController, Pollers
<1>1. UsedTyped' /\ used'.restarts # 0
  BY <1>0, UseTyped DEF OnboardingInv
<1>2. EnrollmentsTyped' /\ ShownInOrder' /\ RequestsSound'
  BY <1>0 DEF EnrollmentsTyped, ShownInOrder, RequestsSound, Unknown
<1>3. RowsTyped' /\ RowsInOrder' /\ ~conflict' /\ memory' \subseteq JobKeys
  BY <1>0 DEF OnboardingInv, RowsTyped, RowsInOrder
<1>4. KnownUntilRestart'
  BY <1>1 DEF KnownUntilRestart
<1>5. \A p \in Pollers : poll'[p] = NoPoll
  BY <1>0
<1>6. PollsTyped'
  BY <1>0, RestPolls DEF PollsTyped
<1>7. PollsSound'
  BY <1>5, RestPolls DEF PollsSound
<1>8. SavesApart'
  <2>1. NoPoll.at # "save"
    BY DEF NoPoll
  <2> QED
    BY <1>5, <2>1 DEF SavesApart
<1> QED
  BY <1>1, <1>2, <1>3, <1>4, <1>6, <1>7, <1>8 DEF OnboardingInv

TargetTyped == target \in [store : BOOLEAN, row : BOOLEAN]

LEMMA TargetStaysTyped ==
  ASSUME TargetTyped, [OnboardingNext]_onboardingVars
  PROVE  TargetTyped'
<1>1. CASE UNCHANGED target
  BY <1>1 DEF TargetTyped
<1>2. CASE Heartbeat \/ ResetTarget \/ RestartController
  <2>1. CASE \E kept, saved \in BOOLEAN : target' = [store |-> kept, row |-> saved]
    BY <2>1 DEF TargetTyped
  <2>2. CASE \E kept \in BOOLEAN : target' = [target EXCEPT !.store = kept]
    BY <2>2 DEF TargetTyped
  <2>3. CASE target' = [target EXCEPT !.store = target.row]
    BY <2>3 DEF TargetTyped
  <2> QED
    BY <1>2, <2>1, <2>2, <2>3 DEF Heartbeat, ResetTarget, RestartController
<1>3. ASSUME NEW e \in Enrollments, CreateEnrollment(e) \/ Creating(e) \/ CreateDropped(e) PROVE UNCHANGED target
  BY <1>3 DEF CreateEnrollment, Creating, SubmitDeployment, SaveDeployment, StartDiscovery, CreateDropped
<1>4. ASSUME NEW p, Polling(p) PROVE UNCHANGED target
  BY <1>4 DEF Polling, LookAtTarget, UpdateView, FindManaged, ListFollowUps, SubmitFollowUp, SaveFollowUp, TickLists, TickTakes
<1>5. ASSUME NEW p \in Pages, NEW e \in Enrollments, ListJobs(p, e) PROVE UNCHANGED target
  BY <1>5 DEF ListJobs
<1>6. ASSUME NEW k \in JobKeys, RunJob(k) \/ RetryFailed(k) PROVE UNCHANGED target
  BY <1>6 DEF RunJob, RetryFailed
<1>7. CASE UNCHANGED onboardingVars
  BY <1>7, <1>1 DEF onboardingVars
<1> QED
  BY <1>1, <1>2, <1>3, <1>4, <1>5, <1>6, <1>7 DEF OnboardingNext

LEMMA OnboardingKept ==
  ASSUME OnboardingInv, TargetTyped, [OnboardingNext]_onboardingVars
  PROVE  OnboardingInv'
<1>1. ASSUME NEW e \in Enrollments, CreateEnrollment(e) \/ Creating(e) \/ CreateDropped(e) PROVE OnboardingInv'
  BY <1>1, CreateKeeps, SubmitDeploymentKeeps, SaveDeploymentKeeps, StartDiscoveryKeeps, CreateDroppedKeeps DEF Creating
<1>2. ASSUME NEW p \in Pages, NEW e \in Enrollments, ListJobs(p, e) PROVE OnboardingInv'
  BY <1>2, ListJobsKeeps
<1>3. ASSUME NEW p \in Pollers, Polling(p) PROVE OnboardingInv'
  <2>1. target.store \in BOOLEAN
    BY DEF TargetTyped
  <2>2. CASE LookAtTarget(p)
    BY <2>1, <2>2, LookAtTargetKeeps
  <2>3. CASE UpdateView(p) \/ FindManaged(p) \/ ListFollowUps(p)
    BY <2>3, UpdateViewKeeps, FindManagedKeeps, ListFollowUpsKeeps
  <2>4. CASE SubmitFollowUp(p) \/ SaveFollowUp(p)
    BY <2>4, SubmitFollowUpKeeps, SaveFollowUpKeeps
  <2>5. CASE TickLists \/ \E e \in Enrollments : TickTakes(e)
    BY <2>5, TickListsKeeps, TickTakesKeeps
  <2> QED
    BY <1>3, <2>2, <2>3, <2>4, <2>5 DEF Polling
<1>4. ASSUME NEW k \in JobKeys, RunJob(k) \/ RetryFailed(k) PROVE OnboardingInv'
  BY <1>4, JobsKeep
<1>5. CASE Heartbeat \/ ResetTarget \/ RestartController
  BY <1>5, TargetKeeps, ControllerRestartKeeps
<1>6. CASE UNCHANGED onboardingVars
  <2>1. UNCHANGED <<enrollment, rows, memory, poll, conflict, used>>
    BY <1>6 DEF onboardingVars
  <2>2. UsedTyped' /\ used'.restarts = used.restarts
    BY <2>1 DEF OnboardingInv, UsedTyped
  <2> QED
    BY <2>1, <2>2, TargetStep
<1> QED
  BY <1>1, <1>2, <1>3, <1>4, <1>5, <1>6 DEF OnboardingNext, Pollers

LEMMA OnboardingStarts ==
  ASSUME OnboardingInit
  PROVE  OnboardingInv /\ TargetTyped
<1>0. /\ enrollment = [e \in Enrollments |-> Unknown] /\ rows = [k \in JobKeys |-> "none"] /\ memory = {}
      /\ poll = [p \in Pollers |-> NoPoll] /\ conflict = FALSE
      /\ used = [faults |-> 0, restarts |-> 0, retries |-> 0, resets |-> 0]
  BY DEF OnboardingInit, Pollers
<1>1. EnrollmentsTyped /\ ShownInOrder /\ RequestsSound
  BY <1>0 DEF EnrollmentsTyped, ShownInOrder, RequestsSound, Unknown
<1>2. RowsTyped /\ memory \subseteq JobKeys /\ UsedTyped /\ ~conflict /\ KnownUntilRestart
  BY <1>0 DEF RowsTyped, UsedTyped, JobState, KnownUntilRestart
<1>3. RowsInOrder
  BY <1>0 DEF RowsInOrder, JobKeys, Kinds
<1>4. \A p \in Pollers : poll[p] = NoPoll
  BY <1>0
<1>5. PollsTyped
  BY <1>0, RestPolls DEF PollsTyped
<1>6. PollsSound
  BY <1>4, RestPolls DEF PollsSound
<1>7. SavesApart
  <2>1. NoPoll.at # "save"
    BY DEF NoPoll
  <2> QED
    BY <1>4, <2>1 DEF SavesApart
<1>8. TargetTyped
  BY DEF OnboardingInit, TargetTyped
<1> QED
  BY <1>1, <1>2, <1>3, <1>5, <1>6, <1>7, <1>8 DEF OnboardingInv

LEMMA OnboardingInvMeans ==
  ASSUME OnboardingInv
  PROVE  PollsKeepOrder
<1>1. OnboardingTypeOK
  BY DEF OnboardingInv, OnboardingTypeOK, EnrollmentsTyped, RowsTyped, KnownUntilRestart
<1>2. OnboardingInOrder
  BY DEF OnboardingInv, OnboardingInOrder, ShownInOrder, RowsInOrder
<1>3. CompetingPollsAgree
  BY DEF OnboardingInv, CompetingPollsAgree
<1> QED
  BY <1>1, <1>2, <1>3 DEF PollsKeepOrder

(* However old what a poll has read, and whichever polls, ticks, requests and *)
(* restarts fall between its steps, the jobs of an enrollment are queued in   *)
(* order and once (get_enrollment, ensure_deployment_followups).              *)
THEOREM PollsAlwaysKeepOrder == OnboardingSpec => []PollsKeepOrder
<1>1. OnboardingInit => OnboardingInv /\ TargetTyped
  BY OnboardingStarts
<1>2. (OnboardingInv /\ TargetTyped) /\ [OnboardingNext]_onboardingVars => (OnboardingInv /\ TargetTyped)'
  BY OnboardingKept, TargetStaysTyped
<1>3. OnboardingInv => PollsKeepOrder
  BY OnboardingInvMeans
<1> QED
  BY <1>1, <1>2, <1>3, PTL DEF OnboardingSpec

(***************************************************************************)
(* The planner.  That the canonical form leaves nothing of the order of    *)
(* its input is a fact about sorting by any strict total order: the place  *)
(* of an element lies between the number of elements below it and of those *)
(* not above it, and both depend on how often each element occurs alone.   *)
(***************************************************************************)

(* Sorting by a relation R, a strict total order of V.                      *)
TotalOrder(R, V) ==
  /\ \A a, b \in V : <<a, b>> \in R \/ <<b, a>> \in R \/ a = b
  /\ \A a, b \in V : <<a, b>> \in R => <<b, a>> \notin R
  /\ \A a, b, c \in V : <<a, b>> \in R /\ <<b, c>> \in R => <<a, c>> \in R
Behind(s, i, R) == {j \in DOMAIN s : <<s[j], s[i]>> \in R \/ (j <= i /\ <<s[i], s[j]>> \notin R)}
PlaceBy(s, i, R) == Cardinality(Behind(s, i, R))
SortBy(s, R) == [k \in DOMAIN s |-> s[CHOOSE i \in DOMAIN s : PlaceBy(s, i, R) = k]]

\* The elements below x, and those not above it.
Below(s, x, R) == {j \in DOMAIN s : <<s[j], x>> \in R}
UpToX(s, x, R) == {j \in DOMAIN s : <<s[j], x>> \in R \/ s[j] = x}

LEMMA SubsetsOfDomain ==
  ASSUME NEW V, NEW s \in Seq(V), NEW S \in SUBSET DOMAIN s
  PROVE  IsFiniteSet(S) /\ Cardinality(S) \in Nat /\ Cardinality(S) <= Len(s)
<1>1. PICK L \in Nat : L = Len(s) /\ DOMAIN s = 1 .. L
  OBVIOUS
<1>2. IsFiniteSet(1 .. L) /\ Cardinality(1 .. L) = IF 1 > L THEN 0 ELSE L - 1 + 1
  BY FS_Interval
<1>3. Cardinality(1 .. L) = L
  BY <1>2
<1>4. IsFiniteSet(S) /\ Cardinality(S) <= Cardinality(1 .. L)
  BY <1>1, <1>2, FS_Subset
<1> QED BY <1>1, <1>3, <1>4, FS_CardinalityType

LEMMA SubsetIsSmaller ==
  ASSUME NEW V, NEW s \in Seq(V), NEW S, NEW T, S \subseteq T, T \subseteq DOMAIN s
  PROVE  Cardinality(S) <= Cardinality(T) /\ (S # T => Cardinality(S) < Cardinality(T))
<1>1. IsFiniteSet(T) /\ Cardinality(T) \in Nat /\ Cardinality(S) \in Nat
  BY SubsetsOfDomain
<1>2. Cardinality(S) <= Cardinality(T) /\ (Cardinality(T) = Cardinality(S) => T = S)
  BY <1>1, FS_Subset
<1> QED BY <1>1, <1>2

LEMMA PlacesDiffer ==
  ASSUME NEW V, NEW R, TotalOrder(R, V), NEW s \in Seq(V), NEW i \in DOMAIN s, NEW k \in DOMAIN s, i < k
  PROVE  PlaceBy(s, i, R) # PlaceBy(s, k, R)
<1>1. \A j \in DOMAIN s : s[j] \in V /\ j \in Nat
  OBVIOUS
<1>2. Behind(s, i, R) \subseteq DOMAIN s /\ Behind(s, k, R) \subseteq DOMAIN s
  BY DEF Behind
<1>3. i \in Behind(s, i, R) /\ k \in Behind(s, k, R)
  BY <1>1 DEF Behind, TotalOrder
<1>4. CASE <<s[k], s[i]>> \in R
  <2>1. Behind(s, k, R) \subseteq Behind(s, i, R)
    BY <1>1, <1>4 DEF Behind, TotalOrder
  <2>2. i \notin Behind(s, k, R)
    BY <1>1, <1>4 DEF Behind, TotalOrder
  <2>3. PlaceBy(s, k, R) < PlaceBy(s, i, R)
    BY <1>2, <1>3, <2>1, <2>2, SubsetIsSmaller DEF PlaceBy
  <2>4. PlaceBy(s, k, R) \in Nat
    BY <1>2, SubsetsOfDomain DEF PlaceBy
  <2> QED BY <2>3, <2>4
<1>5. CASE <<s[k], s[i]>> \notin R
  <2>1. Behind(s, i, R) \subseteq Behind(s, k, R)
    BY <1>1, <1>5 DEF Behind, TotalOrder
  <2>2. k \notin Behind(s, i, R)
    BY <1>1, <1>5 DEF Behind, TotalOrder
  <2>3. PlaceBy(s, i, R) < PlaceBy(s, k, R)
    BY <1>2, <1>3, <2>1, <2>2, SubsetIsSmaller DEF PlaceBy
  <2>4. PlaceBy(s, i, R) \in Nat
    BY <1>2, SubsetsOfDomain DEF PlaceBy
  <2> QED BY <2>3, <2>4
<1> QED BY <1>4, <1>5

LEMMA PlaceBounds ==
  ASSUME NEW V, NEW R, TotalOrder(R, V), NEW s \in Seq(V), NEW i \in DOMAIN s
  PROVE  /\ PlaceBy(s, i, R) \in DOMAIN s
         /\ Cardinality(Below(s, s[i], R)) < PlaceBy(s, i, R)
         /\ PlaceBy(s, i, R) <= Cardinality(UpToX(s, s[i], R))
<1>1. \A j \in DOMAIN s : s[j] \in V /\ j \in Nat
  OBVIOUS
<1>2. Behind(s, i, R) \subseteq DOMAIN s /\ UpToX(s, s[i], R) \subseteq DOMAIN s
  BY DEF Behind, UpToX
<1>3. i \in Behind(s, i, R)
  BY <1>1 DEF Behind, TotalOrder
<1>4. Below(s, s[i], R) \subseteq Behind(s, i, R) /\ i \notin Below(s, s[i], R)
  BY <1>1 DEF Below, Behind, TotalOrder
<1>5. Behind(s, i, R) \subseteq UpToX(s, s[i], R)
  BY <1>1 DEF Behind, UpToX, TotalOrder
<1>6. Cardinality(Below(s, s[i], R)) < PlaceBy(s, i, R)
  BY <1>2, <1>3, <1>4, SubsetIsSmaller DEF PlaceBy
<1>7. PlaceBy(s, i, R) <= Cardinality(UpToX(s, s[i], R))
  BY <1>2, <1>5, SubsetIsSmaller DEF PlaceBy
<1>8. Below(s, s[i], R) \in SUBSET DOMAIN s
  BY DEF Below
<1>9. PlaceBy(s, i, R) \in Nat /\ PlaceBy(s, i, R) <= Len(s) /\ Cardinality(Below(s, s[i], R)) \in Nat
  BY <1>2, <1>8, SubsetsOfDomain DEF PlaceBy
<1>10. PlaceBy(s, i, R) \in 1 .. Len(s)
  BY <1>6, <1>9
<1> QED BY <1>6, <1>7, <1>10

\* Sorting moves every element to its place, and fills every place.
Places(s, R) == [i \in DOMAIN s |-> PlaceBy(s, i, R)]
LEMMA PlacesAreFilled ==
  ASSUME NEW V, NEW R, TotalOrder(R, V), NEW s \in Seq(V)
  PROVE  Places(s, R) \in Bijection(DOMAIN s, DOMAIN s)
<1>1. PICK f : f = Places(s, R)
  OBVIOUS
<1>2. f \in [DOMAIN s -> DOMAIN s]
  BY <1>1, PlaceBounds DEF Places
<1>3. \A i, k \in DOMAIN s : i < k => f[i] # f[k]
  BY <1>1, PlacesDiffer DEF Places
<1>4. \A i, k \in DOMAIN s : f[i] = f[k] => i = k
  <2>1. \A i \in DOMAIN s : i \in Nat
    OBVIOUS
  <2> QED BY <1>3, <2>1
<1>5. f \in Injection(DOMAIN s, DOMAIN s)
  BY <1>2, <1>4 DEF Injection, IsInjective
<1>6. IsFiniteSet(DOMAIN s)
  BY SubsetsOfDomain
<1>7. f \in Surjection(DOMAIN s, DOMAIN s)
  BY <1>5, <1>6, FS_Injection
<1> QED BY <1>1, <1>5, <1>7 DEF Bijection

LEMMA SortFillsPlaces ==
  ASSUME NEW V, NEW R, TotalOrder(R, V), NEW s \in Seq(V)
  PROVE  \A k \in DOMAIN s : \E i \in DOMAIN s : Places(s, R)[i] = k /\ SortBy(s, R)[k] = s[i]
<1>1. PICK f : f = Places(s, R)
  OBVIOUS
<1>2. f \in Surjection(DOMAIN s, DOMAIN s)
  BY <1>1, PlacesAreFilled DEF Bijection
<1>3. \A i \in DOMAIN s : f[i] = PlaceBy(s, i, R)
  BY <1>1 DEF Places
<1>4. ASSUME NEW k \in DOMAIN s PROVE \E i \in DOMAIN s : f[i] = k /\ SortBy(s, R)[k] = s[i]
  <2>1. \E i \in DOMAIN s : PlaceBy(s, i, R) = k
    BY <1>2, <1>3 DEF Surjection
  <2>2. PICK c : c = CHOOSE i \in DOMAIN s : PlaceBy(s, i, R) = k
    OBVIOUS
  <2>3. c \in DOMAIN s /\ PlaceBy(s, c, R) = k
    BY <2>1, <2>2
  <2>4. SortBy(s, R)[k] = s[c]
    BY <2>2 DEF SortBy
  <2> QED BY <1>3, <2>3, <2>4
<1> QED BY <1>1, <1>4

LEMMA SortPlacesEach ==
  ASSUME NEW V, NEW R, TotalOrder(R, V), NEW s \in Seq(V)
  PROVE  DOMAIN SortBy(s, R) = DOMAIN s /\ \A i \in DOMAIN s : SortBy(s, R)[Places(s, R)[i]] = s[i]
<1>1. PICK f : f = Places(s, R)
  OBVIOUS
<1>2. PICK t : t = SortBy(s, R)
  OBVIOUS
<1>3. f \in [DOMAIN s -> DOMAIN s] /\ \A i, k \in DOMAIN s : f[i] = f[k] => i = k
  BY <1>1, PlacesAreFilled DEF Bijection, Injection, IsInjective
<1>4. \A k \in DOMAIN s : \E i \in DOMAIN s : f[i] = k /\ t[k] = s[i]
  BY <1>1, <1>2, SortFillsPlaces
<1>5. ASSUME NEW i \in DOMAIN s PROVE t[f[i]] = s[i]
  <2>1. PICK k \in DOMAIN s : k = f[i]
    BY <1>3
  <2>2. PICK c \in DOMAIN s : f[c] = k /\ t[k] = s[c]
    BY <1>4
  <2> QED BY <1>3, <2>1, <2>2
<1>6. DOMAIN t = DOMAIN s
  BY <1>2 DEF SortBy
<1> QED BY <1>1, <1>2, <1>5, <1>6

Holders(s, x) == {i \in DOMAIN s : s[i] = x}

\* Sorting keeps how often an element occurs.
LEMMA SortKeepsCounts ==
  ASSUME NEW V, NEW R, TotalOrder(R, V), NEW s \in Seq(V), NEW x
  PROVE  Count(SortBy(s, R), x) = Count(s, x)
<1>1. PICK t : t = SortBy(s, R)
  OBVIOUS
<1>2. PICK f : f = Places(s, R)
  OBVIOUS
<1>2a. f \in Bijection(DOMAIN s, DOMAIN s)
  BY <1>2, PlacesAreFilled
<1>3. DOMAIN t = DOMAIN s /\ \A i \in DOMAIN s : t[f[i]] = s[i]
  BY <1>1, <1>2, SortPlacesEach
<1>4. /\ f \in [DOMAIN s -> DOMAIN s] /\ (\A i, k \in DOMAIN s : f[i] = f[k] => i = k)
      /\ \A k \in DOMAIN s : \E i \in DOMAIN s : f[i] = k
  BY <1>2a DEF Bijection, Injection, Surjection, IsInjective
<1>5. PICK g : g = [i \in Holders(s, x) |-> f[i]]
  OBVIOUS
<1>6. g \in [Holders(s, x) -> Holders(t, x)]
  BY <1>3, <1>4, <1>5 DEF Holders
<1>7. \A i, k \in Holders(s, x) : g[i] = g[k] => i = k
  BY <1>4, <1>5 DEF Holders
<1>8. \A k \in Holders(t, x) : \E i \in Holders(s, x) : g[i] = k
  BY <1>3, <1>4, <1>5 DEF Holders
<1>9. g \in Bijection(Holders(s, x), Holders(t, x))
  BY <1>6, <1>7, <1>8 DEF Bijection, Injection, Surjection, IsInjective
<1>10. Holders(s, x) \in SUBSET DOMAIN s
  BY DEF Holders
<1>11. Cardinality(Holders(t, x)) = Cardinality(Holders(s, x))
  BY <1>9, <1>10, SubsetsOfDomain, FS_Bijection DEF ExistsBijection
<1> QED BY <1>1, <1>11 DEF Count, Holders

\* Of two sequences with the same counts one is the other with its elements
\* moved.
LEMMA SameCountsMatch ==
  ASSUME NEW V, NEW s \in Seq(V), NEW t \in Seq(V), \A x \in V : Count(s, x) = Count(t, x)
  PROVE  \E f \in Bijection(DOMAIN s, DOMAIN t) : \A i \in DOMAIN s : t[f[i]] = s[i]
<1>1. \A x \in V : \E b : b \in Bijection(Holders(s, x), Holders(t, x))
  <2> SUFFICES ASSUME NEW x \in V PROVE \E b : b \in Bijection(Holders(s, x), Holders(t, x))
    OBVIOUS
  <2>1. Holders(s, x) \in SUBSET DOMAIN s /\ Holders(t, x) \in SUBSET DOMAIN t
    BY DEF Holders
  <2>2. IsFiniteSet(Holders(s, x)) /\ IsFiniteSet(Holders(t, x))
    BY <2>1, SubsetsOfDomain
  <2>3. Cardinality(Holders(s, x)) = Cardinality(Holders(t, x))
    BY DEF Count, Holders
  <2> QED BY <2>2, <2>3, FS_SameCardinalityBij DEF ExistsBijection
<1>2. PICK m : m = [x \in V |-> CHOOSE b : b \in Bijection(Holders(s, x), Holders(t, x))]
  OBVIOUS
<1>3. \A x \in V : m[x] \in Bijection(Holders(s, x), Holders(t, x))
  BY <1>1, <1>2
<1>4. \A x \in V : /\ m[x] \in [Holders(s, x) -> Holders(t, x)]
                   /\ \A i, k \in Holders(s, x) : m[x][i] = m[x][k] => i = k
                   /\ \A k \in Holders(t, x) : \E i \in Holders(s, x) : m[x][i] = k
  BY <1>3 DEF Bijection, Injection, Surjection, IsInjective
<1>5. PICK f : f = [i \in DOMAIN s |-> m[s[i]][i]]
  OBVIOUS
<1>6. \A i \in DOMAIN s : s[i] \in V /\ i \in Holders(s, s[i])
  BY DEF Holders
<1>7. \A i \in DOMAIN s : f[i] \in DOMAIN t /\ t[f[i]] = s[i]
  <2> SUFFICES ASSUME NEW i \in DOMAIN s PROVE f[i] \in DOMAIN t /\ t[f[i]] = s[i]
    OBVIOUS
  <2>1. m[s[i]][i] \in Holders(t, s[i])
    BY <1>4, <1>6
  <2> QED BY <1>5, <2>1 DEF Holders
<1>8. ASSUME NEW i \in DOMAIN s, NEW k \in DOMAIN s, f[i] = f[k] PROVE i = k
  <2>1. s[i] = s[k]
    BY <1>7, <1>8
  <2> QED BY <1>4, <1>5, <1>6, <1>8, <2>1
<1>9. ASSUME NEW k \in DOMAIN t PROVE \E i \in DOMAIN s : f[i] = k
  <2>1. t[k] \in V /\ k \in Holders(t, t[k])
    BY DEF Holders
  <2>2. PICK i \in Holders(s, t[k]) : m[t[k]][i] = k
    BY <1>4, <2>1
  <2> QED BY <1>5, <2>2 DEF Holders
<1>10. f \in Bijection(DOMAIN s, DOMAIN t)
  BY <1>5, <1>7, <1>8, <1>9 DEF Bijection, Injection, Surjection, IsInjective
<1> QED BY <1>7, <1>10

LEMMA MatchedBounds ==
  ASSUME NEW V, NEW R, NEW s \in Seq(V), NEW t \in Seq(V), NEW f \in Bijection(DOMAIN s, DOMAIN t),
         \A i \in DOMAIN s : t[f[i]] = s[i], NEW x
  PROVE  /\ Cardinality(Below(s, x, R)) = Cardinality(Below(t, x, R))
         /\ Cardinality(UpToX(s, x, R)) = Cardinality(UpToX(t, x, R))
<1>1. /\ f \in [DOMAIN s -> DOMAIN t] /\ (\A i, k \in DOMAIN s : f[i] = f[k] => i = k)
      /\ \A k \in DOMAIN t : \E i \in DOMAIN s : f[i] = k
  BY DEF Bijection, Injection, Surjection, IsInjective
<1>2. ASSUME NEW S, NEW T, S \subseteq DOMAIN s, T \subseteq DOMAIN t, \A i \in DOMAIN s : i \in S <=> f[i] \in T
      PROVE  Cardinality(S) = Cardinality(T)
  <2>1. PICK g : g = [i \in S |-> f[i]]
    OBVIOUS
  <2>2. g \in [S -> T] /\ (\A i, k \in S : g[i] = g[k] => i = k) /\ \A k \in T : \E i \in S : g[i] = k
    BY <1>1, <1>2, <2>1
  <2>3. g \in Bijection(S, T)
    BY <2>2 DEF Bijection, Injection, Surjection, IsInjective
  <2> QED BY <1>2, <2>3, SubsetsOfDomain, FS_Bijection DEF ExistsBijection
<1>3. Below(s, x, R) \subseteq DOMAIN s /\ Below(t, x, R) \subseteq DOMAIN t /\ \A i \in DOMAIN s : i \in Below(s, x, R) <=> f[i] \in Below(t, x, R)
  BY <1>1 DEF Below
<1>4. UpToX(s, x, R) \subseteq DOMAIN s /\ UpToX(t, x, R) \subseteq DOMAIN t /\ \A i \in DOMAIN s : i \in UpToX(s, x, R) <=> f[i] \in UpToX(t, x, R)
  BY <1>1 DEF UpToX
<1> QED BY <1>2, <1>3, <1>4

\* The canonical order leaves nothing of the order of its input.
LEMMA SameCountsSortEqual ==
  ASSUME NEW V, NEW R, TotalOrder(R, V), NEW s \in Seq(V), NEW t \in Seq(V), \A x \in V : Count(s, x) = Count(t, x)
  PROVE  SortBy(s, R) = SortBy(t, R)
<1>1. PICK f \in Bijection(DOMAIN s, DOMAIN t) : \A i \in DOMAIN s : t[f[i]] = s[i]
  BY SameCountsMatch
<1>2. DOMAIN s = DOMAIN t
  <2>1. IsFiniteSet(DOMAIN s)
    BY SubsetsOfDomain
  <2>2. Cardinality(DOMAIN s) = Cardinality(DOMAIN t)
    BY <2>1, FS_Bijection DEF ExistsBijection
  <2>3. PICK m \in Nat, n \in Nat : m = Len(s) /\ n = Len(t)
    OBVIOUS
  <2>4. Cardinality(1 .. m) = m /\ Cardinality(1 .. n) = n
    BY FS_Interval
  <2> QED BY <2>2, <2>3, <2>4
<1>3a. \A k \in DOMAIN s : \E i \in DOMAIN s : Places(s, R)[i] = k /\ SortBy(s, R)[k] = s[i]
  BY SortFillsPlaces
<1>3b. \A k \in DOMAIN t : \E i \in DOMAIN t : Places(t, R)[i] = k /\ SortBy(t, R)[k] = t[i]
  BY SortFillsPlaces
<1>3. ASSUME NEW k \in DOMAIN s PROVE SortBy(s, R)[k] = SortBy(t, R)[k]
  <2>1. PICK i \in DOMAIN s : PlaceBy(s, i, R) = k /\ SortBy(s, R)[k] = s[i]
    BY <1>3a DEF Places
  <2>2. PICK j \in DOMAIN t : PlaceBy(t, j, R) = k /\ SortBy(t, R)[k] = t[j]
    BY <1>2, <1>3b DEF Places
  <2>3. PICK x \in V, y \in V : x = s[i] /\ y = t[j]
    OBVIOUS
  <2>4. PICK bx, ux, by, uy : /\ bx = Cardinality(Below(s, x, R)) /\ ux = Cardinality(UpToX(s, x, R))
                              /\ by = Cardinality(Below(s, y, R)) /\ uy = Cardinality(UpToX(s, y, R))
    OBVIOUS
  <2>5. Below(s, x, R) \subseteq DOMAIN s /\ UpToX(s, x, R) \subseteq DOMAIN s /\ Below(s, y, R) \subseteq DOMAIN s /\ UpToX(s, y, R) \subseteq DOMAIN s
    BY DEF Below, UpToX
  <2>6. bx \in Nat /\ ux \in Nat /\ by \in Nat /\ uy \in Nat
    BY <2>4, <2>5, SubsetsOfDomain
  <2>7. bx < k /\ k <= ux
    BY <2>1, <2>3, <2>4, PlaceBounds
  <2>8. by < k /\ k <= uy
    <3>1. by = Cardinality(Below(t, y, R)) /\ uy = Cardinality(UpToX(t, y, R))
      BY <1>1, <2>4, MatchedBounds
    <3> QED BY <2>2, <2>3, <3>1, PlaceBounds
  <2>9. ASSUME <<x, y>> \in R PROVE ux <= by
    <3>1. \A n \in DOMAIN s : s[n] \in V
      OBVIOUS
    <3>2. UpToX(s, x, R) \subseteq Below(s, y, R)
      BY <2>9, <3>1 DEF UpToX, Below, TotalOrder
    <3> QED BY <2>4, <2>5, <3>2, SubsetIsSmaller
  <2>10. ASSUME <<y, x>> \in R PROVE uy <= bx
    <3>1. \A n \in DOMAIN s : s[n] \in V
      OBVIOUS
    <3>2. UpToX(s, y, R) \subseteq Below(s, x, R)
      BY <2>10, <3>1 DEF UpToX, Below, TotalOrder
    <3> QED BY <2>4, <2>5, <3>2, SubsetIsSmaller
  <2>11. k \in Nat
    OBVIOUS
  <2>12. <<x, y>> \notin R /\ <<y, x>> \notin R
    BY <2>6, <2>7, <2>8, <2>9, <2>10, <2>11
  <2>13. x = y
    BY <2>12 DEF TotalOrder
  <2> QED BY <2>1, <2>2, <2>3, <2>13
<1>4. SortBy(s, R) = [k \in DOMAIN s |-> SortBy(s, R)[k]] /\ SortBy(t, R) = [k \in DOMAIN s |-> SortBy(t, R)[k]]
  BY <1>2 DEF SortBy
<1> QED BY <1>3, <1>4

LEMMA SortedEqualIsSameBag ==
  ASSUME NEW V, NEW R, TotalOrder(R, V), NEW s \in Seq(V), NEW t \in Seq(V)
  PROVE  SortBy(s, R) = SortBy(t, R) <=> SameBag(s, t)
<1>1. ASSUME SortBy(s, R) = SortBy(t, R) PROVE SameBag(s, t)
  <2>1. \A x : Count(s, x) = Count(t, x)
    BY <1>1, SortKeepsCounts
  <2> QED BY <2>1 DEF SameBag
<1>2. ASSUME SameBag(s, t) PROVE SortBy(s, R) = SortBy(t, R)
  <2>1. ASSUME NEW x \in V PROVE Count(s, x) = Count(t, x)
    <3>1. CASE Holders(s, x) = {} /\ Holders(t, x) = {}
      BY <3>1 DEF Count, Holders
    <3>2. CASE Holders(s, x) # {} \/ Holders(t, x) # {}
      <4>1. \E i \in DOMAIN (s \o t) : (s \o t)[i] = x
        <5>1. CASE \E i \in DOMAIN s : s[i] = x
          <6>1. PICK i \in DOMAIN s : s[i] = x
            BY <5>1
          <6>2. i \in DOMAIN (s \o t) /\ (s \o t)[i] = s[i]
            OBVIOUS
          <6> QED BY <6>1, <6>2
        <5>2. CASE \E i \in DOMAIN t : t[i] = x
          <6>1. PICK i \in DOMAIN t : t[i] = x
            BY <5>2
          <6>2. Len(s) + i \in DOMAIN (s \o t) /\ (s \o t)[Len(s) + i] = t[i]
            OBVIOUS
          <6> QED BY <6>1, <6>2
        <5> QED BY <3>2, <5>1, <5>2 DEF Holders
      <4> QED BY <1>2, <4>1 DEF SameBag
    <3> QED BY <3>1, <3>2
  <2> QED BY <2>1, SameCountsSortEqual
<1> QED BY <1>1, <1>2

Change == [package : Nat, from : Nat, to : Nat, kind : {"install", "upgrade", "remove", "downgrade"}]
NumberOrder == {p \in Nat \X Nat : p[1] < p[2]}
ChangeOrder == {p \in Change \X Change : Precedes(p[1], p[2])}

LEMMA NumbersOrdered == TotalOrder(NumberOrder, Nat)
<1>1. \A a, b \in Nat : <<a, b>> \in NumberOrder <=> a < b
  BY DEF NumberOrder
<1> QED BY <1>1 DEF TotalOrder

\* Distinct kinds have distinct ranks.
LEMMA RankIs ==
  Rank("install") = 1 /\ Rank("upgrade") = 2 /\ Rank("remove") = 3 /\ Rank("downgrade") = 4
<1>1. DOMAIN ChangeKinds = 1 .. 4 /\ ChangeKinds[1] = "install" /\ ChangeKinds[2] = "upgrade" /\ ChangeKinds[3] = "remove" /\ ChangeKinds[4] = "downgrade"
  BY DEF ChangeKinds
<1>2. \A n \in 1 .. 4 : n = 1 \/ n = 2 \/ n = 3 \/ n = 4
  OBVIOUS
<1>3. \A n \in DOMAIN ChangeKinds : ChangeKinds[n] = "install" <=> n = 1
  BY <1>1, <1>2
<1>4. \A n \in DOMAIN ChangeKinds : ChangeKinds[n] = "upgrade" <=> n = 2
  BY <1>1, <1>2
<1>5. \A n \in DOMAIN ChangeKinds : ChangeKinds[n] = "remove" <=> n = 3
  BY <1>1, <1>2
<1>6. \A n \in DOMAIN ChangeKinds : ChangeKinds[n] = "downgrade" <=> n = 4
  BY <1>1, <1>2
<1>7. 1 \in DOMAIN ChangeKinds /\ 2 \in DOMAIN ChangeKinds /\ 3 \in DOMAIN ChangeKinds /\ 4 \in DOMAIN ChangeKinds
  BY <1>1
<1>8. Rank("install") = 1
  BY <1>3, <1>7 DEF Rank
<1>9. Rank("upgrade") = 2
  BY <1>4, <1>7 DEF Rank
<1>10. Rank("remove") = 3
  BY <1>5, <1>7 DEF Rank
<1>11. Rank("downgrade") = 4
  BY <1>6, <1>7 DEF Rank
<1> QED BY <1>8, <1>9, <1>10, <1>11

\* The key orders changes as the tuples are: by the first place they differ in.
LEMMA PrecedesIs ==
  ASSUME NEW a \in Change, NEW b \in Change
  PROVE  Precedes(a, b) <=>
           \/ a.package < b.package
           \/ a.package = b.package /\ a.from < b.from
           \/ a.package = b.package /\ a.from = b.from /\ a.to < b.to
           \/ a.package = b.package /\ a.from = b.from /\ a.to = b.to /\ Rank(a.kind) < Rank(b.kind)
<1>1. PICK x, y : x = SortKey(a) /\ y = SortKey(b)
  OBVIOUS
<1>2. /\ DOMAIN x = 1 .. 4 /\ x[1] = a.package /\ x[2] = a.from /\ x[3] = a.to /\ x[4] = Rank(a.kind)
      /\ y[1] = b.package /\ y[2] = b.from /\ y[3] = b.to /\ y[4] = Rank(b.kind)
  BY <1>1 DEF SortKey
<1>3. Precedes(a, b) <=> \E i \in 1 .. 4 : x[i] < y[i] /\ \A j \in 1 .. (i - 1) : x[j] = y[j]
  BY <1>1, <1>2 DEF Precedes
<1>4. (\E i \in 1 .. 4 : x[i] < y[i] /\ \A j \in 1 .. (i - 1) : x[j] = y[j]) <=>
        \/ x[1] < y[1] \/ (x[1] = y[1] /\ x[2] < y[2]) \/ (x[1] = y[1] /\ x[2] = y[2] /\ x[3] < y[3])
        \/ (x[1] = y[1] /\ x[2] = y[2] /\ x[3] = y[3] /\ x[4] < y[4])
  <2>1. \A i \in 1 .. 4 : i = 1 \/ i = 2 \/ i = 3 \/ i = 4
    OBVIOUS
  <2>2. \A j \in 1 .. 1 : j = 1
    OBVIOUS
  <2>3. \A j \in 1 .. 2 : j = 1 \/ j = 2
    OBVIOUS
  <2>4. \A j \in 1 .. 3 : j = 1 \/ j = 2 \/ j = 3
    OBVIOUS
  <2> QED BY <2>1, <2>2, <2>3, <2>4
<1> QED BY <1>2, <1>3, <1>4

LEMMA ChangesOrdered == TotalOrder(ChangeOrder, Change)
<1>1. \A a, b \in Change : <<a, b>> \in ChangeOrder <=> Precedes(a, b)
  BY DEF ChangeOrder
<1>2. \A a \in Change : Rank(a.kind) \in Nat /\ a.package \in Nat /\ a.from \in Nat /\ a.to \in Nat
  BY RankIs DEF Change
<1>3. \A a, b \in Change : Rank(a.kind) = Rank(b.kind) => a.kind = b.kind
  BY RankIs DEF Change
<1>4. \A a, b \in Change : a.package = b.package /\ a.from = b.from /\ a.to = b.to /\ a.kind = b.kind => a = b
  BY DEF Change
<1>5. ASSUME NEW a \in Change, NEW b \in Change PROVE Precedes(a, b) \/ Precedes(b, a) \/ a = b
  BY <1>2, <1>3, <1>4, PrecedesIs
<1>6. ASSUME NEW a \in Change, NEW b \in Change, Precedes(a, b) PROVE ~Precedes(b, a)
  BY <1>2, <1>6, PrecedesIs
<1>7. ASSUME NEW a \in Change, NEW b \in Change, NEW c \in Change, Precedes(a, b), Precedes(b, c) PROVE Precedes(a, c)
  BY <1>2, <1>7, PrecedesIs
<1> QED BY <1>1, <1>5, <1>6, <1>7 DEF TotalOrder

\* The code's two sorts are sorts by these orders.
LEMMA SortedIs ==
  ASSUME NEW V, NEW R, TotalOrder(R, V), NEW s \in Seq(V), NEW c \in DOMAIN s
  PROVE  SortBy(s, R)[PlaceBy(s, c, R)] = s[c]
<1>1. SortBy(s, R)[Places(s, R)[c]] = s[c]
  BY SortPlacesEach
<1> QED BY <1>1 DEF Places

LEMMA PlacesTaken ==
  ASSUME NEW V, NEW R, TotalOrder(R, V), NEW s \in Seq(V), NEW k \in DOMAIN s
  PROVE  \E i \in DOMAIN s : PlaceBy(s, i, R) = k
<1>1. \E i \in DOMAIN s : Places(s, R)[i] = k
  BY SortFillsPlaces
<1> QED BY <1>1 DEF Places

LEMMA NumbersSort ==
  ASSUME NEW s \in Seq(Nat) PROVE Sort(s, <) = SortBy(s, NumberOrder)
<1>1. ASSUME NEW i \in DOMAIN s PROVE PlaceBy(s, i, NumberOrder) = Place(s, i, <)
  <2>1. Behind(s, i, NumberOrder) = {j \in DOMAIN s : s[j] < s[i] \/ (j <= i /\ ~(s[i] < s[j]))}
    BY DEF Behind, NumberOrder
  <2> QED BY <2>1 DEF PlaceBy, Place
<1>2. ASSUME NEW k \in DOMAIN s PROVE Sort(s, <)[k] = SortBy(s, NumberOrder)[k]
  <2>1. PICK c : c = CHOOSE i \in DOMAIN s : Place(s, i, <) = k
    OBVIOUS
  <2>2. \E i \in DOMAIN s : PlaceBy(s, i, NumberOrder) = k
    BY NumbersOrdered, PlacesTaken
  <2>3. \E i \in DOMAIN s : Place(s, i, <) = k
    BY <1>1, <2>2
  <2>4. c \in DOMAIN s /\ Place(s, c, <) = k
    BY <2>1, <2>3
  <2>5. SortBy(s, NumberOrder)[k] = s[c]
    <3>1. PlaceBy(s, c, NumberOrder) = k
      BY <1>1, <2>4
    <3>2. PICK V, R : V = Nat /\ R = NumberOrder
      OBVIOUS
    <3>3. SortBy(s, R)[PlaceBy(s, c, R)] = s[c]
      <4>1. TotalOrder(R, V) /\ s \in Seq(V) /\ c \in DOMAIN s
        BY <2>4, <3>2, NumbersOrdered
      <4> QED BY <4>1, SortedIs
    <3> QED BY <3>1, <3>2, <3>3
  <2> QED BY <2>1, <2>5 DEF Sort
<1>3. Sort(s, <) = [k \in DOMAIN s |-> Sort(s, <)[k]] /\ SortBy(s, NumberOrder) = [k \in DOMAIN s |-> SortBy(s, NumberOrder)[k]]
  BY DEF Sort, SortBy
<1> QED BY <1>2, <1>3

LEMMA ChangesSort ==
  ASSUME NEW s \in Seq(Change) PROVE Sort(s, Precedes) = SortBy(s, ChangeOrder)
<1>1. ASSUME NEW i \in DOMAIN s PROVE PlaceBy(s, i, ChangeOrder) = Place(s, i, Precedes)
  <2>1. \A j \in DOMAIN s : s[j] \in Change
    OBVIOUS
  <2>2. Behind(s, i, ChangeOrder) = {j \in DOMAIN s : Precedes(s[j], s[i]) \/ (j <= i /\ ~Precedes(s[i], s[j]))}
    BY <2>1 DEF Behind, ChangeOrder
  <2> QED BY <2>2 DEF PlaceBy, Place
<1>2. ASSUME NEW k \in DOMAIN s PROVE Sort(s, Precedes)[k] = SortBy(s, ChangeOrder)[k]
  <2>1. PICK c : c = CHOOSE i \in DOMAIN s : Place(s, i, Precedes) = k
    OBVIOUS
  <2>2. \E i \in DOMAIN s : PlaceBy(s, i, ChangeOrder) = k
    BY ChangesOrdered, PlacesTaken
  <2>3. \E i \in DOMAIN s : Place(s, i, Precedes) = k
    BY <1>1, <2>2
  <2>4. c \in DOMAIN s /\ Place(s, c, Precedes) = k
    BY <2>1, <2>3
  <2>5. SortBy(s, ChangeOrder)[k] = s[c]
    BY <1>1, <2>4, ChangesOrdered, SortedIs
  <2> QED BY <2>1, <2>5 DEF Sort
<1>3. Sort(s, Precedes) = [k \in DOMAIN s |-> Sort(s, Precedes)[k]] /\ SortBy(s, ChangeOrder) = [k \in DOMAIN s |-> SortBy(s, ChangeOrder)[k]]
  BY DEF Sort, SortBy
<1> QED BY <1>2, <1>3

\* Plans have the same hash exactly when they hold the same packages and
\* changes, each as often.
LEMMA SameContentIs ==
  ASSUME NEW x, NEW y, x.requested \in Seq(Nat), y.requested \in Seq(Nat), x.changes \in Seq(Change), y.changes \in Seq(Change)
  PROVE  HasSameContentAs(x, y) <=> SameBag(x.requested, y.requested) /\ SameBag(x.changes, y.changes)
<1>1. PICK rx, ry, cx, cy : rx = x.requested /\ ry = y.requested /\ cx = x.changes /\ cy = y.changes
  OBVIOUS
<1>2. HasSameContentAs(x, y) <=> Sort(rx, <) = Sort(ry, <) /\ Sort(cx, Precedes) = Sort(cy, Precedes)
  BY <1>1 DEF HasSameContentAs, CanonicalRepresentation
<1>3. Sort(rx, <) = Sort(ry, <) <=> SameBag(rx, ry)
  <2>1. Sort(rx, <) = SortBy(rx, NumberOrder) /\ Sort(ry, <) = SortBy(ry, NumberOrder)
    BY <1>1, NumbersSort
  <2>2. SortBy(rx, NumberOrder) = SortBy(ry, NumberOrder) <=> SameBag(rx, ry)
    BY <1>1, NumbersOrdered, SortedEqualIsSameBag
  <2> QED BY <2>1, <2>2
<1>4. Sort(cx, Precedes) = Sort(cy, Precedes) <=> SameBag(cx, cy)
  BY <1>1, ChangesSort, ChangesOrdered, SortedEqualIsSameBag
<1> QED BY <1>1, <1>2, <1>3, <1>4

DryRun == [package : Nat, from : Nat, to : Nat, kind : {"install", "upgrade", "remove", "downgrade"},
           held : BOOLEAN, authenticated : BOOLEAN]
Input == [requested : Seq(Nat), changes : Seq(DryRun), upgrade : BOOLEAN]
Plan == [requested : Seq(Nat), changes : Seq(Change), status : {"none", "blocked", "ready", "confirmed", "invalidated"}]

\* A plan that build let through.
Named(p) ==
  /\ p.requested # <<>> /\ \A i \in DOMAIN p.requested : p.requested[i] # 0
  /\ \A i \in DOMAIN p.changes : p.changes[i].package # 0
SafeChanges(p) == \A i \in DOMAIN p.changes : p.changes[i].kind \in {"install", "upgrade"}

\* The inductive invariant: a plan has no unnamed package, and none that may
\* still be confirmed holds an unsafe change.
PlannerInv ==
  /\ planned \in Plan /\ current \in Input
  /\ planned = NoPlanYet \/ (planned.status # "none" /\ Named(planned))
  /\ planned.status \in {"ready", "confirmed"} => SafeChanges(planned)
  /\ VerdictByContent

LEMMA InputsAreTyped == PlannerInput \subseteq Input
BY PlannerAssumption DEF PlannerInput, Input, DryRun

LEMMA BuildIs ==
  ASSUME NEW input \in Input
  PROVE  /\ Build(input) \in Plan /\ Build(input).requested = input.requested
         /\ Build(input).status \in {"blocked", "ready"}
         /\ DOMAIN Build(input).changes = DOMAIN input.changes
         /\ \A i \in DOMAIN input.changes : Build(input).changes[i] = NormalizeChange(input.changes[i])
         /\ Build(input).status = "ready" => SafeChanges(Build(input))
<1>1. PICK c : c = [i \in DOMAIN input.changes |-> NormalizeChange(input.changes[i])]
  OBVIOUS
<1>2. PICK d \in Seq(DryRun) : d = input.changes
  BY DEF Input
<1>3. \A i \in DOMAIN d : d[i] \in DryRun
  OBVIOUS
<1>4. \A i \in DOMAIN d : NormalizeChange(d[i]) \in Change
  BY <1>3 DEF NormalizeChange, DryRun, Change
<1>5. c \in Seq(Change)
  <2>1. PICK n \in Nat : n = Len(d) /\ DOMAIN d = 1 .. n
    OBVIOUS
  <2>2. c \in [1 .. n -> Change]
    BY <1>1, <1>2, <1>4, <2>1
  <2> QED BY <2>2
<1>6. PICK st : st = IF input.upgrade \/ \E i \in DOMAIN c : Unsafe(c[i]) THEN "blocked" ELSE "ready"
  OBVIOUS
<1>7. Build(input) = [requested |-> input.requested, changes |-> c, status |-> st]
  BY <1>1, <1>6 DEF Build
<1>8. \A i \in DOMAIN c : c[i] \in Change
  BY <1>5
<1>9. st = "ready" => \A i \in DOMAIN c : c[i].kind \in {"install", "upgrade"}
  BY <1>6, <1>8 DEF Unsafe, Change
<1>10. input.requested \in Seq(Nat)
  BY DEF Input
<1>11. st \in {"blocked", "ready"}
  BY <1>6
<1>12. Build(input) \in Plan
  BY <1>5, <1>7, <1>10, <1>11 DEF Plan
<1>13. PICK b : b = Build(input)
  OBVIOUS
<1>14. b.requested = input.requested /\ b.changes = c /\ b.status = st
  BY <1>7, <1>13
<1>15. DOMAIN c = DOMAIN input.changes /\ \A i \in DOMAIN input.changes : c[i] = NormalizeChange(input.changes[i])
  BY <1>1
<1>16. st = "ready" => SafeChanges(b)
  BY <1>9, <1>14 DEF SafeChanges
<1> QED BY <1>11, <1>12, <1>13, <1>14, <1>15, <1>16

LEMMA AcceptedIsNamed ==
  ASSUME NEW input \in Input, Accepted(input) PROVE Named(Build(input))
<1>1. \A i \in DOMAIN input.changes : NormalizeChange(input.changes[i]).package # 0
  BY DEF Accepted, Plannable, NormalizeChange
<1> QED BY <1>1, BuildIs DEF Accepted, Named

\* The input confirm_plan makes of a plan builds the plan's own content.
LEMMA OwnInput ==
  ASSUME NEW p \in Plan, Named(p)
  PROVE  /\ InputOf(p) \in Input /\ Accepted(InputOf(p))
         /\ Build(InputOf(p)).requested = p.requested /\ Build(InputOf(p)).changes = p.changes
<1>1. PICK c \in Seq(Change) : c = p.changes
  BY DEF Plan
<1>2. PICK d : d = [i \in DOMAIN c |->
     [package |-> c[i].package, from |-> c[i].from, to |-> c[i].to,
      kind |-> c[i].kind, held |-> FALSE, authenticated |-> TRUE]]
  OBVIOUS
<1>3. \A i \in DOMAIN c : c[i] \in Change
  OBVIOUS
<1>4. \A i \in DOMAIN c : d[i] \in DryRun
  BY <1>2, <1>3 DEF DryRun, Change
<1>5. d \in Seq(DryRun)
  <2>1. PICK n \in Nat : n = Len(c) /\ DOMAIN c = 1 .. n
    OBVIOUS
  <2>2. d \in [1 .. n -> DryRun]
    BY <1>2, <1>4, <2>1
  <2> QED BY <2>2
<1>6. PICK input : input = InputOf(p)
  OBVIOUS
<1>7. input = [requested |-> p.requested, upgrade |-> FALSE, changes |-> d]
  BY <1>1, <1>2, <1>6 DEF InputOf
<1>8. p.requested \in Seq(Nat)
  BY DEF Plan
<1>9. input \in Input
  BY <1>5, <1>7, <1>8 DEF Input
<1>10. Accepted(input)
  <2>1. \A i \in DOMAIN d : Plannable(d[i])
    BY <1>1, <1>2 DEF Plannable, Named
  <2> QED BY <1>7, <2>1 DEF Accepted, Named
<1>11. \A i \in DOMAIN c : NormalizeChange(d[i]) = c[i]
  BY <1>2, <1>3 DEF NormalizeChange, Change
<1>12. PICK b \in Plan : b = Build(input)
  BY <1>9, BuildIs
<1>13. b.requested = p.requested
  BY <1>7, <1>9, <1>12, BuildIs
<1>14. DOMAIN b.changes = DOMAIN c /\ \A i \in DOMAIN c : b.changes[i] = c[i]
  BY <1>2, <1>7, <1>9, <1>11, <1>12, BuildIs
<1>15. b.changes = c
  <2>1. b.changes \in Seq(Change)
    BY DEF Plan
  <2> QED BY <1>14, <2>1
<1> QED BY <1>1, <1>6, <1>9, <1>10, <1>12, <1>13, <1>15

LEMMA OwnVerdict ==
  ASSUME NEW p \in Plan, Named(p) PROVE Verdict(p, InputOf(p)) = "unchanged"
<1>1. HasSameContentAs(p, Build(InputOf(p)))
  BY OwnInput DEF HasSameContentAs, CanonicalRepresentation
<1> QED BY <1>1, OwnInput DEF Verdict

\* Every verdict goes by content.
LEMMA VerdictIs ==
  ASSUME NEW p \in Plan, NEW input \in Input
  PROVE  Verdict(p, input) \in {"unchanged", "changed"} =>
           (Verdict(p, input) = "unchanged" <=>
              SameBag(p.requested, Build(input).requested) /\ SameBag(p.changes, Build(input).changes))
<1>1. PICK b \in Plan : b = Build(input)
  BY BuildIs
<1>2. HasSameContentAs(p, b) <=> SameBag(p.requested, b.requested) /\ SameBag(p.changes, b.changes)
  <2>1. p.requested \in Seq(Nat) /\ b.requested \in Seq(Nat) /\ p.changes \in Seq(Change) /\ b.changes \in Seq(Change)
    BY DEF Plan
  <2> QED BY <2>1, SameContentIs
<1> QED BY <1>1, <1>2 DEF Verdict

LEMMA PlannerStarts == PlannerInit => PlannerInv
<1> SUFFICES ASSUME PlannerInit PROVE PlannerInv
  OBVIOUS
<1>1. planned \in Plan
  BY DEF PlannerInit, NoPlanYet, Plan
<1>2. current \in Input
  BY DEF PlannerInit, Unset, Input
<1> QED BY <1>1, <1>2 DEF PlannerInit, PlannerInv, NoPlanYet, VerdictByContent

LEMMA BuildPlanKeeps ==
  ASSUME PlannerInv, NEW input \in Input, BuildPlan(input) PROVE PlannerInv'
<1>1. CASE Accepted(input)
  <2>1. PICK b \in Plan : b = Build(input)
    BY BuildIs
  <2>2. planned' = b /\ verdict' = "built" /\ current' = current
    BY <1>1, <2>1 DEF BuildPlan
  <2>3. b.status \in {"blocked", "ready"} /\ (b.status = "ready" => SafeChanges(b))
    BY <2>1, BuildIs
  <2>4. Named(b)
    BY <1>1, <2>1, AcceptedIsNamed
  <2>5. VerdictByContent'
    BY <2>2 DEF VerdictByContent
  <2> QED BY <2>2, <2>3, <2>4, <2>5 DEF PlannerInv
<1>2. CASE ~Accepted(input)
  <2>1. planned' = planned /\ verdict' = "error" /\ current' = current
    BY <1>2 DEF BuildPlan
  <2>2. VerdictByContent'
    BY <2>1 DEF VerdictByContent
  <2> QED BY <2>1, <2>2 DEF PlannerInv
<1> QED BY <1>1, <1>2

LEMMA RevalidateKeeps ==
  ASSUME PlannerInv, NEW input \in Input, Revalidate(input) PROVE PlannerInv'
<1>1. PICK p \in Plan : p = planned
  BY DEF PlannerInv
<1>2. PICK q, v, c : q = planned' /\ v = verdict' /\ c = current'
  OBVIOUS
<1>3. /\ v = Verdict(p, input)
      /\ q = (IF v = "changed" THEN [p EXCEPT !.status = "invalidated"] ELSE p)
      /\ c = (IF v = "error" THEN Unset ELSE input)
  BY <1>1, <1>2 DEF Revalidate
<1>4. q \in Plan /\ q.requested = p.requested /\ q.changes = p.changes /\ q.status \in {p.status, "invalidated"}
  BY <1>3 DEF Plan
<1>5. c \in Input
  BY <1>3 DEF Unset, Input
<1>6. p.status # "none" /\ Named(p)
  BY <1>1 DEF Revalidate, PlannerInv
<1>7. q.status # "none" /\ Named(q)
  BY <1>4, <1>6 DEF Named
<1>8. q.status \in {"ready", "confirmed"} => SafeChanges(q)
  BY <1>1, <1>4 DEF PlannerInv, SafeChanges
<1>9. VerdictByContent'
  <2>1. v \in {"unchanged", "changed"} =>
          (v = "unchanged" <=> SameBag(q.requested, Build(c).requested) /\ SameBag(q.changes, Build(c).changes))
    BY <1>3, <1>4, VerdictIs
  <2> QED BY <1>2, <2>1 DEF VerdictByContent
<1> QED BY <1>2, <1>4, <1>5, <1>7, <1>8, <1>9 DEF PlannerInv

LEMMA PlanConfirmKeeps ==
  ASSUME PlannerInv, Confirm PROVE PlannerInv'
<1>1. PICK p \in Plan : p = planned
  BY DEF PlannerInv
<1>2. PICK q, v, c : q = planned' /\ v = verdict' /\ c = current'
  OBVIOUS
<1>3. p.status = "ready" /\ q = [p EXCEPT !.status = "confirmed"] /\ v = Verdict(q, InputOf(p)) /\ c = InputOf(p)
  BY <1>1, <1>2 DEF Confirm, MayBecome
<1>4. q \in Plan /\ q.requested = p.requested /\ q.changes = p.changes /\ q.status = "confirmed"
  BY <1>3 DEF Plan
<1>5. Named(p) /\ SafeChanges(p)
  BY <1>1, <1>3 DEF PlannerInv, NoPlanYet
<1>6. Named(q) /\ SafeChanges(q)
  BY <1>4, <1>5 DEF Named, SafeChanges
<1>7. c \in Input
  BY <1>3, <1>5, OwnInput
<1>8. VerdictByContent'
  <2>1. v \in {"unchanged", "changed"} =>
          (v = "unchanged" <=> SameBag(q.requested, Build(c).requested) /\ SameBag(q.changes, Build(c).changes))
    BY <1>3, <1>4, <1>7, VerdictIs
  <2> QED BY <1>2, <2>1 DEF VerdictByContent
<1> QED BY <1>2, <1>4, <1>6, <1>7, <1>8 DEF PlannerInv

LEMMA PlannerInvGives == PlannerInv => PlansJudgedByContent
<1> SUFFICES ASSUME PlannerInv PROVE PlansJudgedByContent
  OBVIOUS
<1>1. ASSUME planned.status \in {"ready", "confirmed"} PROVE Named(planned) /\ SafeChanges(planned)
  BY <1>1 DEF PlannerInv, NoPlanYet
<1>2. ConfirmationHolds
  BY <1>1, OwnVerdict DEF PlannerInv, ConfirmationHolds
<1>3. ConfirmableIsSafe
  BY <1>1 DEF ConfirmableIsSafe, Named, SafeChanges
<1> QED BY <1>2, <1>3 DEF PlannerInv, PlansJudgedByContent

\* Of every plan and every input: a plan counts as unchanged exactly when the
\* fresh one holds the same packages and changes, each as often, in any order
\* (canonical_representation and revalidate); a confirmation is never refused
\* by the input confirm_plan makes of the plan; and no plan that may be
\* confirmed removes or downgrades a package (build).
THEOREM PlansAlwaysJudgedByContent == PlannerSpec => []PlansJudgedByContent
<1>1. PlannerInv /\ [PlannerNext]_plannerVars => PlannerInv'
  <2> SUFFICES ASSUME PlannerInv, [PlannerNext]_plannerVars PROVE PlannerInv'
    OBVIOUS
  <2>1. CASE Confirm
    BY <2>1, PlanConfirmKeeps
  <2>2. ASSUME NEW input \in PlannerInput, BuildPlan(input) PROVE PlannerInv'
    BY <2>2, InputsAreTyped, BuildPlanKeeps
  <2>3. ASSUME NEW input \in PlannerInput, Revalidate(input) PROVE PlannerInv'
    BY <2>3, InputsAreTyped, RevalidateKeeps
  <2>4. CASE UNCHANGED plannerVars
    BY <2>4 DEF plannerVars, PlannerInv, VerdictByContent
  <2> QED BY <2>1, <2>2, <2>3, <2>4 DEF PlannerNext
<1> QED BY <1>1, PlannerStarts, PlannerInvGives, PTL DEF PlannerSpec

(***************************************************************************)
(* Induction over the natural numbers, for the functions that Scans and    *)
(* TelemetryAlerts define by recursion: a set that holds 0 and with each   *)
(* number the next holds all.                                              *)
(***************************************************************************)

LEMMA LeastNumber ==
  ASSUME NEW T, T \subseteq Nat, T # {}
  PROVE  \E x \in T : \A y \in T : x <= y
<1>1. PICK R : R = {p \in Nat \X Nat : p[1] < p[2]}
  OBVIOUS
<1>2. IsWellFoundedOn(R, Nat)
  BY <1>1, NatLessThanWellFounded DEF OpToRel
<1>3. PICK x \in T : \A y \in T : ~(<<y, x>> \in R)
  BY <1>2, WFMin
<1>4. ASSUME NEW y \in T, ~(x <= y) PROVE FALSE
  <2>1. x \in Nat /\ y \in Nat /\ y < x
    BY <1>4
  <2>2. <<y, x>> \in R
    BY <1>1, <2>1
  <2> QED BY <1>3, <2>2
<1> QED BY <1>4

LEMMA UpTo ==
  ASSUME NEW n \in Nat, NEW S, 0 \in S, \A i \in 0 .. n - 1 : i \in S => i + 1 \in S
  PROVE  \A i \in 0 .. n : i \in S
<1>1. PICK T : T = {i \in 0 .. n : i \notin S}
  OBVIOUS
<1> SUFFICES ASSUME T # {}
             PROVE  FALSE
  BY <1>1
<1>2. T \subseteq Nat
  BY <1>1
<1>3. PICK x \in T : \A y \in T : x <= y
  BY <1>2, LeastNumber
<1>4. x \in 0 .. n /\ x \notin S /\ x # 0
  BY <1>1
<1>5. x - 1 \in 0 .. n - 1 /\ x - 1 \in 0 .. n /\ ~(x <= x - 1) /\ (x - 1) + 1 = x
  BY <1>4
<1>6. x - 1 \in S
  BY <1>1, <1>3, <1>5
<1> QED BY <1>4, <1>5, <1>6

(***************************************************************************)
(* Scans of a container.  What apt printed reaches the scan through the    *)
(* agent's memory of answers, several attempts and the parser; ScanInv     *)
(* says of each place on that way what it holds while a scan runs, and     *)
(* that a scan that has not run yet has left nothing there.                *)
(***************************************************************************)

\* An attempt, an answer the agent remembers and the one run_scan got.
Attempt == [at : {"none", "sent", "running", "answered"}, answer : [ok : BOOLEAN, list : Listings \cup {<<>>}]]
ScansTyped ==
  /\ scan \in [ScanIds -> [status : ScanStatus, updates : {{}}]]
  /\ scanner \in [ScanIds -> [at : {"idle", "send", "wait"}, try : Tries]]
  /\ attempt \in [ScanIds -> [Tries -> Attempt]]
  /\ answers \in [ScanIds -> Attempt] /\ told \in [ScanIds -> Attempt]
  /\ since \in [ScanIds -> SUBSET Listings]
  /\ upgradable \in Listings /\ agentKnown \in BOOLEAN /\ events \in 0 .. MaxEvents
Runs(s) == scanner[s] # Resting
NotYetRun(s) == scan[s].status \in {"none", "pending"}
Unsent(s, n) == \/ scanner[s].at = "send" /\ n >= scanner[s].try
                \/ scanner[s].at = "wait" /\ n > scanner[s].try
Fresh(s, a) == a.answer.ok => a.answer.list \in since[s]
\* A scan that did not run yet has left nothing anywhere; one that runs has
\* seen every list apt printed, and so has whoever still answers it.
ScanSound(s) ==
  /\ Runs(s) => scan[s].status = "running" /\ upgradable \in since[s] /\ Fresh(s, answers[s])
                  /\ \A n \in Tries : Fresh(s, attempt[s][n])
  /\ NotYetRun(s) => answers[s] = Quiet /\ told[s] = Quiet /\ \A n \in Tries : attempt[s][n] = Quiet
  /\ \A n \in Tries : attempt[s][n].at # "answered" => ~attempt[s][n].answer.ok
  /\ \A n \in Tries : Unsent(s, n) => attempt[s][n] = Quiet
  /\ Fresh(s, told[s])
  /\ scan[s].status = "succeeded" => told[s].answer.ok /\ Readable(told[s].answer.list) = {}
ScanInv == ScansTyped /\ \A s \in ScanIds : ScanSound(s)

----------------------------------------------------------------------------
(* What the parser makes of a list that went through safe_detail.           *)
FlattensTo(ss, n, f) == f = [i \in 1 .. n |-> IF i = 1 THEN ss[i] ELSE f[i - 1] \o ss[i]]
CanFlatten(ss, n) == \E f : FlattensTo(ss, n, f)

LEMMA FlattenFirst ==
  ASSUME NEW ss
  PROVE  CanFlatten(ss, 0)
<1>1. PICK f : f = [i \in 1 .. 0 |-> ss[i]]
  OBVIOUS
<1>2. FlattensTo(ss, 0, f)
  BY <1>1 DEF FlattensTo
<1> QED BY <1>2 DEF CanFlatten

LEMMA FlattenNext ==
  ASSUME NEW ss, NEW m \in Nat, CanFlatten(ss, m)
  PROVE  CanFlatten(ss, m + 1)
<1>1. PICK f : FlattensTo(ss, m, f)
  BY DEF CanFlatten
<1>2. PICK g : g = [i \in 1 .. m + 1 |-> IF i = 1 THEN ss[i] ELSE f[i - 1] \o ss[i]]
  OBVIOUS
<1>3. ASSUME NEW i \in 1 .. m + 1 PROVE g[i] = IF i = 1 THEN ss[i] ELSE g[i - 1] \o ss[i]
  <2>1. CASE i = 1
    BY <1>2, <2>1
  <2>2. CASE i # 1
    <3>1. i - 1 \in 1 .. m /\ i - 1 \in 1 .. m + 1
      BY <2>2
    <3>2. g[i - 1] = f[i - 1]
      BY <1>1, <1>2, <3>1 DEF FlattensTo
    <3> QED BY <1>2, <2>2, <3>2
  <2> QED BY <2>1, <2>2
<1>4. PICK h : h = [i \in 1 .. m + 1 |-> IF i = 1 THEN ss[i] ELSE g[i - 1] \o ss[i]]
  OBVIOUS
<1>5. g = h
  BY <1>2, <1>3, <1>4
<1>6. FlattensTo(ss, m + 1, g)
  BY <1>4, <1>5 DEF FlattensTo
<1> QED BY <1>6 DEF CanFlatten

LEMMA FlattenUpTo ==
  ASSUME NEW ss, NEW n \in Nat
  PROVE  CanFlatten(ss, n)
<1>1. PICK S : S = {m \in Nat : CanFlatten(ss, m)}
  OBVIOUS
<1>2. 0 \in S
  BY <1>1, FlattenFirst
<1>3. \A m \in 0 .. n - 1 : m \in S => m + 1 \in S
  BY <1>1, FlattenNext
<1>4. \A m \in 0 .. n : m \in S
  BY <1>2, <1>3, UpTo
<1> QED BY <1>1, <1>4

(* The first element that is not empty starts the text. *)
LEMMA FlattenStarts ==
  ASSUME NEW X, NEW ss \in Seq(Seq(X)), NEW k \in 1 .. Len(ss), \A i \in 1 .. k - 1 : ss[i] = <<>>, ss[k] # <<>>
  PROVE  FlattenSeq(ss) \in Seq(X) /\ FlattenSeq(ss) # <<>> /\ FlattenSeq(ss)[1] = ss[k][1]
<1>1. PICK N \in Nat \ {0} : N = Len(ss) /\ k \in 1 .. N
  OBVIOUS
<1>2. PICK f : f = CHOOSE g : FlattensTo(ss, Len(ss), g)
  OBVIOUS
<1>3. FlattensTo(ss, Len(ss), f)
  BY <1>1, <1>2, FlattenUpTo DEF CanFlatten
<1>4. FlattenSeq(ss) = f[N]
  BY <1>1, <1>2 DEF FlattenSeq, FlattensTo
<1>5. PICK S : S = {i \in Nat : /\ f[i + 1] \in Seq(X)
                                /\ i + 1 < k => f[i + 1] = <<>>
                                /\ k <= i + 1 => f[i + 1] # <<>> /\ f[i + 1][1] = ss[k][1]}
  OBVIOUS
<1>6. f[1] = ss[1] /\ ss[1] \in Seq(X)
  BY <1>1, <1>3 DEF FlattensTo
<1>7. 0 \in S
  <2>1. CASE k = 1
    BY <1>5, <1>6, <2>1
  <2>2. CASE k # 1
    BY <1>1, <1>5, <1>6, <2>2
  <2> QED BY <2>1, <2>2
<1>8. ASSUME NEW i \in 0 .. (N - 1) - 1, i \in S PROVE i + 1 \in S
  <2>1. i + 2 \in 1 .. N /\ i + 2 # 1 /\ (i + 2) - 1 = i + 1 /\ (i + 1) + 1 = i + 2 /\ i + 1 \in Nat
    BY <1>8
  <2>2. f[i + 2] = f[i + 1] \o ss[i + 2]
    BY <1>1, <1>3, <2>1 DEF FlattensTo
  <2>3. PICK a \in Seq(X), b \in Seq(X) : a = f[i + 1] /\ b = ss[i + 2]
    BY <1>1, <1>5, <1>8, <2>1
  <2>. PICK c : c = a \o b
    OBVIOUS
  <2>4. c \in Seq(X) /\ Len(c) = Len(a) + Len(b) /\ c = a \o b
    <3>1. a \o b \in Seq(X)
      OBVIOUS
    <3>2. Len(a \o b) = Len(a) + Len(b)
      OBVIOUS
    <3> QED BY <3>1, <3>2
  <2>5. CASE i + 2 < k
    <3>1. a = <<>> /\ b = <<>>
      BY <1>1, <1>5, <1>8, <2>1, <2>3, <2>5
    <3>2. c = <<>>
      BY <2>4, <3>1
    <3> QED BY <1>5, <2>1, <2>2, <2>3, <2>4, <2>5, <3>2
  <2>6. CASE i + 2 = k
    <3>1. a = <<>> /\ b = ss[k] /\ b # <<>>
      BY <1>1, <1>5, <1>8, <2>1, <2>3, <2>6
    <3>2. c = b
      BY <2>4, <3>1
    <3> QED BY <1>5, <2>1, <2>2, <2>3, <2>4, <2>6, <3>1, <3>2
  <2>7. CASE k < i + 2
    <3>1. a # <<>> /\ a[1] = ss[k][1]
      BY <1>1, <1>5, <1>8, <2>1, <2>3, <2>7
    <3>2. Len(a) \in Nat \ {0} /\ Len(b) \in Nat
      <4>1. \A w \in Seq(X) : w # <<>> => Len(w) \in Nat \ {0}
        OBVIOUS
      <4>2. \A w \in Seq(X) : Len(w) \in Nat
        OBVIOUS
      <4> QED BY <3>1, <4>1, <4>2
    <3>3. c[1] = a[1] /\ c # <<>>
      BY <2>4, <3>2
    <3>4. f[(i + 1) + 1] = c
      BY <2>1, <2>2, <2>3, <2>4
    <3>5. ~ ((i + 1) + 1 < k)
      BY <2>7
    <3> QED BY <1>5, <2>1, <2>4, <3>1, <3>3, <3>4, <3>5
  <2> QED BY <1>1, <2>1, <2>5, <2>6, <2>7
<1>9. PICK K \in Nat : K = N - 1
  OBVIOUS
<1>10. \A i \in 0 .. K - 1 : i \in S => i + 1 \in S
  BY <1>8, <1>9
<1>11. \A i \in 0 .. K : i \in S
  BY <1>7, <1>10, UpTo
<1>12. K \in S /\ K + 1 = N /\ k <= N
  BY <1>1, <1>9, <1>11
<1> QED BY <1>4, <1>5, <1>12

(* Nothing but empty ones make an empty text. *)
LEMMA FlattenNothing ==
  ASSUME NEW X, NEW ss \in Seq(Seq(X)), \A i \in 1 .. Len(ss) : ss[i] = <<>>
  PROVE  FlattenSeq(ss) = <<>>
<1>1. CASE Len(ss) = 0
  <2>1. ss = <<>>
    BY <1>1
  <2> QED BY <2>1 DEF FlattenSeq
<1>2. CASE Len(ss) # 0
  <2>1. PICK N \in Nat \ {0} : N = Len(ss)
    BY <1>2
  <2>2. PICK f : f = CHOOSE g : FlattensTo(ss, Len(ss), g)
    OBVIOUS
  <2>3. FlattensTo(ss, Len(ss), f)
    BY <2>1, <2>2, FlattenUpTo DEF CanFlatten
  <2>4. FlattenSeq(ss) = f[N]
    BY <2>1, <2>2 DEF FlattenSeq, FlattensTo
  <2>5. PICK S : S = {i \in Nat : f[i + 1] = <<>>}
    OBVIOUS
  <2>6. 0 \in S
    BY <2>1, <2>3, <2>5 DEF FlattensTo
  <2>7. PICK K \in Nat : K = N - 1
    BY <2>1
  <2>8. ASSUME NEW i \in 0 .. K - 1, i \in S PROVE i + 1 \in S
    <3>1. i + 2 \in 1 .. N /\ i + 2 # 1 /\ (i + 2) - 1 = i + 1 /\ (i + 1) + 1 = i + 2 /\ i + 1 \in Nat
      BY <2>7, <2>8
    <3>2. f[i + 2] = f[i + 1] \o ss[i + 2]
      BY <2>1, <2>3, <3>1 DEF FlattensTo
    <3>3. f[i + 1] = <<>> /\ ss[i + 2] = <<>>
      BY <2>1, <2>5, <2>8, <3>1
    <3>4. <<>> \o <<>> = <<>>
      OBVIOUS
    <3> QED BY <2>5, <3>1, <3>2, <3>3, <3>4
  <2>9. \A i \in 0 .. K - 1 : i \in S => i + 1 \in S
    BY <2>8
  <2>10. \A i \in 0 .. K : i \in S
    BY <2>6, <2>9, UpTo
  <2>11. K \in S /\ K + 1 = N
    BY <2>1, <2>7, <2>10
  <2> QED BY <2>4, <2>5, <2>11
<1> QED BY <1>1, <1>2

FieldOf(P) == {Field(k, v) : k \in {"Package", "Installed", "Candidate", "Security", "Held", "Authenticated"},
                             v \in P \cup {"old", "new", "yes", "no"}}

LEMMA AptRecordTyped ==
  ASSUME NEW P, NEW p \in P
  PROVE  /\ AptRecord(p) \in Seq(Seq(FieldOf(P))) /\ AptRecord(p) # <<>>
         /\ AptRecord(p)[1] = <<Field("Package", p)>>
         /\ <<<<>>>> \o AptRecord(p) \in Seq(Seq(FieldOf(P)))
<1>1. PICK a, b, c, d, e, f : /\ a = Field("Package", p) /\ b = Field("Installed", "old") /\ c = Field("Candidate", "new")
                              /\ d = Field("Security", IF p \in SecurityPackages THEN "yes" ELSE "no")
                              /\ e = Field("Held", "no") /\ f = Field("Authenticated", "yes")
  OBVIOUS
<1>2. {a, b, c, d, e, f} \subseteq FieldOf(P)
  BY <1>1 DEF FieldOf
<1>3. {<<a>>, <<b>>, <<c>>, <<d>>, <<e>>, <<f>>} \subseteq Seq(FieldOf(P))
  BY <1>2
<1>4. AptRecord(p) = << <<a>>, <<b>>, <<c>>, <<d>>, <<e>>, <<f>> >>
  BY <1>1 DEF AptRecord
<1>5. AptRecord(p) \in Seq(Seq(FieldOf(P))) /\ AptRecord(p) # <<>> /\ AptRecord(p)[1] = <<a>>
  BY <1>3, <1>4
<1>6. <<<<>>>> \in Seq(Seq(FieldOf(P)))
  OBVIOUS
<1>7. <<<<>>>> \o AptRecord(p) \in Seq(Seq(FieldOf(P)))
  BY <1>5, <1>6
<1> QED BY <1>1, <1>5, <1>7

LEMMA NormalizedTyped ==
  ASSUME NEW P, NEW list \in Seq(P)
  PROVE  \E ss \in Seq(Seq(Seq(FieldOf(P)))) :
           NormalizeAptList(list) = FlattenSeq(ss) /\ Len(ss) = Len(list) /\ \A i \in 1 .. Len(list) : ss[i] = Joined(list, i)
<1>1. PICK N \in Nat : N = Len(list) /\ DOMAIN list = 1 .. N
  OBVIOUS
<1>2. PICK ss : ss = [i \in DOMAIN list |-> Joined(list, i)]
  OBVIOUS
<1>3. NormalizeAptList(list) = FlattenSeq(ss)
  BY <1>2 DEF NormalizeAptList
<1>4. \A i \in 1 .. N : ss[i] \in Seq(Seq(FieldOf(P)))
  <2> SUFFICES ASSUME NEW i \in 1 .. N PROVE ss[i] \in Seq(Seq(FieldOf(P)))
    OBVIOUS
  <2>1. list[i] \in P
    BY <1>1
  <2>2. ss[i] \in {<<>>, AptRecord(list[i]), <<<<>>>> \o AptRecord(list[i])}
    BY <1>1, <1>2 DEF Joined
  <2>3. <<>> \in Seq(Seq(FieldOf(P)))
    OBVIOUS
  <2> QED BY <2>1, <2>2, <2>3, AptRecordTyped
<1>5. PICK Y : Y = Seq(Seq(FieldOf(P)))
  OBVIOUS
<1>6. ss \in [1 .. N -> Y]
  BY <1>1, <1>2, <1>4, <1>5
<1>7. ss \in Seq(Y) /\ Len(ss) = N
  BY <1>6
<1>8. \A i \in 1 .. Len(list) : ss[i] = Joined(list, i)
  BY <1>1, <1>2
<1> QED BY <1>1, <1>3, <1>5, <1>7, <1>8

LEMMA NormalizedStarts ==
  ASSUME NEW P, NEW list \in Seq(P), Readable(list) # {}
  PROVE  \E p \in P : /\ NormalizeAptList(list) \in Seq(Seq(FieldOf(P))) /\ NormalizeAptList(list) # <<>>
                      /\ NormalizeAptList(list)[1] = <<Field("Package", p)>>
<1>1. PICK N \in Nat : N = Len(list) /\ DOMAIN list = 1 .. N
  OBVIOUS
<1>2. Readable(list) \subseteq 1 .. N /\ Readable(list) \subseteq Nat
  BY <1>1 DEF Readable
<1>3. PICK k \in Readable(list) : \A j \in Readable(list) : k <= j
  BY <1>2, LeastNumber
<1>4. PICK ss \in Seq(Seq(Seq(FieldOf(P)))) :
        NormalizeAptList(list) = FlattenSeq(ss) /\ Len(ss) = N /\ \A i \in 1 .. N : ss[i] = Joined(list, i)
  BY <1>1, NormalizedTyped
<1>5. k \in 1 .. N /\ list[k] \in P
  BY <1>1, <1>2, <1>3
<1>6. \A i \in 1 .. k - 1 : ss[i] = <<>>
  <2> SUFFICES ASSUME NEW i \in 1 .. k - 1 PROVE ss[i] = <<>>
    OBVIOUS
  <2>1. i \in 1 .. N /\ i \notin Readable(list)
    BY <1>3, <1>5
  <2> QED BY <1>4, <2>1 DEF Joined
<1>7. ss[k] = AptRecord(list[k])
  BY <1>3, <1>4, <1>5 DEF Joined
<1>8. ss[k] # <<>> /\ ss[k][1] = <<Field("Package", list[k])>>
  BY <1>5, <1>7, AptRecordTyped
<1>9. PICK X : X = Seq(FieldOf(P))
  OBVIOUS
<1>10. FlattenSeq(ss) \in Seq(X) /\ FlattenSeq(ss) # <<>> /\ FlattenSeq(ss)[1] = ss[k][1]
  BY <1>4, <1>5, <1>6, <1>8, <1>9, FlattenStarts
<1> QED BY <1>4, <1>5, <1>8, <1>9, <1>10

LEMMA DetailIsOneLine ==
  ASSUME NEW P, NEW list \in Seq(P), Readable(list) # {}
  PROVE  \E line : /\ SafeDetail(NormalizeAptList(list)) = <<line>>
                   /\ line # <<>> /\ line[1].key = "Package" /\ line \in Seq(FieldOf(P))
<1>1. PICK text : text = NormalizeAptList(list)
  OBVIOUS
<1>2. PICK p \in P : text \in Seq(Seq(FieldOf(P))) /\ text # <<>> /\ text[1] = <<Field("Package", p)>>
  BY <1>1, NormalizedStarts
<1>3. text[1] # <<>> /\ text[1][1] = Field("Package", p) /\ 1 \in 1 .. Len(text)
  BY <1>2
<1>4. PICK fields : fields = FlattenSeq(text)
  OBVIOUS
<1>5. fields \in Seq(FieldOf(P)) /\ fields # <<>> /\ fields[1] = Field("Package", p)
  <2>1. \A i \in 1 .. 1 - 1 : text[i] = <<>>
    OBVIOUS
  <2> QED BY <1>2, <1>3, <1>4, <2>1, FlattenStarts
<1>6. PICK L \in Nat \ {0} : L = Len(fields)
  BY <1>5
<1>7. PICK m : m = Min({DetailFields, L})
  OBVIOUS
<1>8. m \in 1 .. L
  <2>1. DetailFields \in Nat \ {0}
    BY ScanAssumption
  <2>2. \E x \in {DetailFields, L} : \A y \in {DetailFields, L} : x <= y
    BY <2>1
  <2>3. m \in {DetailFields, L} /\ \A y \in {DetailFields, L} : m <= y
    BY <1>7, <2>2 DEF Min
  <2> QED BY <2>1, <2>3
<1>9. PICK line : line = SubSeq(fields, 1, m)
  OBVIOUS
<1>10. line \in Seq(FieldOf(P)) /\ Len(line) = m /\ line[1] = fields[1]
  BY <1>5, <1>6, <1>8, <1>9
<1>11. line # <<>> /\ line[1].key = "Package"
  BY <1>5, <1>8, <1>10 DEF Field
<1>12. SafeDetail(NormalizeAptList(list)) = <<line>>
  BY <1>1, <1>4, <1>5, <1>6, <1>7, <1>9 DEF SafeDetail
<1> QED BY <1>10, <1>11, <1>12

LEMMA OneLineFails ==
  ASSUME NEW line, line # <<>>, line[1].key = "Package"
  PROVE  \E b \in Blocks(<<line>>) : ~Acceptable(ParseBlock(<<line>>, b))
<1>1. PICK text, b : text = <<line>> /\ b = <<1, 1>>
  OBVIOUS
<1>2. DOMAIN text = {1} /\ text[1] = line /\ b[1] = 1 /\ b[2] = 1 /\ 1 .. 1 = {1}
  BY <1>1
<1>3. b \in Blocks(text)
  <2>1. b \in (DOMAIN text) \X (DOMAIN text)
    BY <1>1, <1>2
  <2>2. b[1] - 1 \notin DOMAIN text /\ b[2] + 1 \notin DOMAIN text
    BY <1>2
  <2>3. \A i \in b[1] .. b[2] : text[i] # <<>>
    BY <1>2
  <2>4. b[1] <= b[2]
    BY <1>2
  <2> QED BY <2>1, <2>2, <2>3, <2>4 DEF Blocks
<1>4. Lines(text, b, "Installed") = {}
  BY <1>2 DEF Lines
<1>5. ParseBlock(text, b).installed = "missing"
  BY <1>4 DEF ParseBlock, Get
<1>6. ~Acceptable(ParseBlock(text, b))
  BY <1>5 DEF Acceptable
<1> QED BY <1>1, <1>3, <1>6

(* safe_detail leaves one line, whose Installed nobody finds: a scan        *)
(* succeeds only with a list of which nothing can be read.                  *)
LEMMA BuildScanIs ==
  ASSUME NEW answer \in [ok : BOOLEAN, list : Listings \cup {<<>>}]
  PROVE  /\ BuildScan(answer) \in [status : Ended, updates : {{}}]
         /\ BuildScan(answer).status = "succeeded" => answer.ok /\ Readable(answer.list) = {}
<1>1. PICK P : P = UNION {ToSet(l) : l \in Listings}
  OBVIOUS
<1>2. answer.list \in Seq(P)
  <2>1. Listings \subseteq Seq(P)
    BY <1>1, ScanAssumption
  <2>2. answer.list \in Listings \/ answer.list = <<>>
    OBVIOUS
  <2>3. <<>> \in Seq(P)
    OBVIOUS
  <2> QED BY <2>1, <2>2, <2>3
<1>3. PICK text : text = SafeDetail(NormalizeAptList(answer.list))
  OBVIOUS
<1>4. PICK records : records = {ParseBlock(text, b) : b \in Blocks(text)}
  OBVIOUS
<1>5. BuildScan(answer) = IF answer.ok /\ \A r \in records : Acceptable(r)
                            THEN [status |-> "succeeded", updates |-> {AvailableUpdate(r) : r \in records}]
                            ELSE [status |-> "failed", updates |-> {}]
  BY <1>3, <1>4 DEF BuildScan
<1>6. CASE Readable(answer.list) # {}
  <2>1. PICK line : text = <<line>> /\ line # <<>> /\ line[1].key = "Package"
    BY <1>2, <1>3, <1>6, DetailIsOneLine
  <2>2. \E r \in records : ~Acceptable(r)
    BY <1>4, <2>1, OneLineFails
  <2>3. BuildScan(answer) = [status |-> "failed", updates |-> {}]
    BY <1>5, <2>2
  <2> QED BY <2>3 DEF Ended
<1>7. CASE Readable(answer.list) = {}
  <2>1. PICK ss \in Seq(Seq(Seq(FieldOf(P)))) :
          /\ NormalizeAptList(answer.list) = FlattenSeq(ss) /\ Len(ss) = Len(answer.list)
          /\ \A i \in 1 .. Len(answer.list) : ss[i] = Joined(answer.list, i)
    BY <1>2, NormalizedTyped
  <2>2. \A i \in 1 .. Len(ss) : ss[i] = <<>>
    BY <1>7, <2>1 DEF Joined
  <2>3. PICK X : X = Seq(FieldOf(P))
    OBVIOUS
  <2>6. NormalizeAptList(answer.list) = <<>>
    BY <2>1, <2>2, <2>3, FlattenNothing
  <2>7. FlattenSeq(<<>>) = <<>>
    BY DEF FlattenSeq
  <2>8. text = <<>>
    BY <1>3, <2>6, <2>7 DEF SafeDetail
  <2>9. Blocks(text) = {}
    BY <2>8 DEF Blocks
  <2>10. records = {}
    BY <1>4, <2>9
  <2>11. {AvailableUpdate(r) : r \in records} = {}
    BY <2>10
  <2>12. CASE answer.ok
    <3>1. BuildScan(answer) = [status |-> "succeeded", updates |-> {}]
      BY <1>5, <2>10, <2>11, <2>12
    <3> QED BY <1>7, <2>12, <3>1 DEF Ended
  <2>13. CASE ~answer.ok
    <3>1. BuildScan(answer) = [status |-> "failed", updates |-> {}]
      BY <1>5, <2>13
    <3> QED BY <3>1 DEF Ended
  <2> QED BY <2>12, <2>13
<1> QED BY <1>6, <1>7

----------------------------------------------------------------------------
LEMMA SoundStays ==
  ASSUME NEW w \in ScanIds, ScanSound(w), scan'[w] = scan[w], scanner'[w] = scanner[w], attempt'[w] = attempt[w],
         answers'[w] = answers[w], told'[w] = told[w], since'[w] = since[w], UNCHANGED upgradable
  PROVE  ScanSound(w)'
BY DEF ScanSound, Runs, NotYetRun, Unsent, Fresh

LEMMA ScanFacts ==
  ASSUME ScanInv
  PROVE  /\ ScansTyped /\ (\A s \in ScanIds : ScanSound(s)) /\ 0 \in Tries
         /\ Resting \in [at : {"idle", "send", "wait"}, try : Tries] /\ Resting.at = "idle"
         /\ Quiet \in Attempt /\ ~Quiet.answer.ok /\ Quiet.at = "none"
         /\ \A s \in ScanIds : scanner[s].at # "idle" => Runs(s)
<1>1. 0 \in Tries
  BY ScanAssumption DEF Tries
<1>2. Resting \in [at : {"idle", "send", "wait"}, try : Tries] /\ Resting.at = "idle"
  BY <1>1 DEF Resting
<1>3. Quiet \in Attempt /\ ~Quiet.answer.ok /\ Quiet.at = "none"
  BY DEF Quiet, NoAnswer, Attempt
<1> QED BY <1>1, <1>2, <1>3 DEF ScanInv, Runs

LEMMA StartScanKeeps ==
  ASSUME ScanInv, NEW s \in ScanIds, StartScan(s)
  PROVE  ScanInv'
<1> USE ScanFacts
<1>1. /\ scan[s].status = "none" /\ scan' = [scan EXCEPT ![s].status = "pending"]
      /\ UNCHANGED <<scanner, agentKnown, attempt, answers, upgradable, since, told, events>>
  BY DEF StartScan
<1>2. scan'[s].status = "pending" /\ \A w \in ScanIds : w # s => scan'[w] = scan[w]
  BY <1>1 DEF ScansTyped
<1>3. ScansTyped'
  BY <1>1 DEF ScansTyped, ScanStatus
<1>4. ScanSound(s)'
  BY <1>1, <1>2 DEF ScanSound, Runs, NotYetRun, Unsent, Fresh
<1>5. \A w \in ScanIds : w # s => ScanSound(w)'
  BY <1>1, <1>2, SoundStays
<1> QED BY <1>3, <1>4, <1>5 DEF ScanInv

LEMMA RunScanKeeps ==
  ASSUME ScanInv, NEW s \in ScanIds, RunScan(s)
  PROVE  ScanInv'
<1> USE ScanFacts
<1>1. /\ scan[s].status = "pending" /\ scan' = [scan EXCEPT ![s].status = "running"]
      /\ scanner' = [scanner EXCEPT ![s].at = "send"] \/ UNCHANGED scanner
      /\ since' = [since EXCEPT ![s] = {upgradable}]
      /\ UNCHANGED <<agentKnown, attempt, answers, upgradable, told, events>>
  BY DEF RunScan
<1>2. /\ scan'[s].status = "running" /\ since'[s] = {upgradable}
      /\ \A w \in ScanIds : w # s => scan'[w] = scan[w] /\ scanner'[w] = scanner[w] /\ since'[w] = since[w]
  BY <1>1 DEF ScansTyped
<1>3. ScansTyped'
  <2>1. CASE UNCHANGED scanner
    BY <1>1, <2>1 DEF ScansTyped, ScanStatus
  <2>2. CASE scanner' = [scanner EXCEPT ![s].at = "send"]
    <3>1. scanner' \in [ScanIds -> [at : {"idle", "send", "wait"}, try : Tries]]
      BY <2>2 DEF ScansTyped
    <3>2. scan' \in [ScanIds -> [status : ScanStatus, updates : {{}}]]
      <4>1. "running" \in ScanStatus
        BY DEF ScanStatus
      <4>2. scan \in [ScanIds -> [status : ScanStatus, updates : {{}}]]
        BY DEF ScansTyped
      <4>3. [scan[s] EXCEPT !.status = "running"] \in [status : ScanStatus, updates : {{}}]
        BY <4>1, <4>2
      <4> QED BY <1>1, <4>2, <4>3
    <3>3. since' \in [ScanIds -> SUBSET Listings]
      BY <1>1 DEF ScansTyped
    <3> QED BY <1>1, <3>1, <3>2, <3>3 DEF ScansTyped
  <2> QED BY <1>1, <2>1, <2>2
<1>4. answers[s] = Quiet /\ told[s] = Quiet /\ \A n \in Tries : attempt[s][n] = Quiet
  BY <1>1 DEF ScanSound, NotYetRun
<1>5. ScanSound(s)'
  BY <1>1, <1>2, <1>4 DEF ScanSound, Runs, NotYetRun, Unsent, Fresh
<1>6. \A w \in ScanIds : w # s => ScanSound(w)'
  BY <1>1, <1>2, SoundStays
<1> QED BY <1>3, <1>5, <1>6 DEF ScanInv

LEMMA SendScanKeeps ==
  ASSUME ScanInv, NEW s \in ScanIds, SendScan(s)
  PROVE  ScanInv'
<1> USE ScanFacts
<1>1. PICK n \in Tries : n = scanner[s].try
  BY DEF ScansTyped
<1>2. /\ scanner[s].at = "send" /\ scanner' = [scanner EXCEPT ![s].at = "wait"]
      /\ attempt' = [attempt EXCEPT ![s][n].at = "sent"]
      /\ UNCHANGED <<scan, agentKnown, answers, upgradable, since, told, events>>
  BY <1>1 DEF SendScan
<1>3. attempt[s] \in [Tries -> Attempt] /\ attempt[s][n] \in Attempt
  BY DEF ScansTyped
<1>4. PICK a : a = [attempt[s][n] EXCEPT !.at = "sent"]
  OBVIOUS
<1>5. a \in Attempt /\ a.answer = attempt[s][n].answer /\ a.at = "sent"
  BY <1>3, <1>4 DEF Attempt
<1>6. attempt' = [attempt EXCEPT ![s] = [attempt[s] EXCEPT ![n] = a]]
  BY <1>2, <1>4
<1>7. /\ attempt'[s] = [attempt[s] EXCEPT ![n] = a] /\ \A m \in Tries : attempt'[s][m] = IF m = n THEN a ELSE attempt[s][m]
      /\ \A w \in ScanIds : w # s => attempt'[w] = attempt[w] /\ scanner'[w] = scanner[w]
  BY <1>2, <1>3, <1>6 DEF ScansTyped
<1>8. ScansTyped'
  <2>1. attempt' \in [ScanIds -> [Tries -> Attempt]]
    BY <1>5, <1>6 DEF ScansTyped
  <2>2. scanner' \in [ScanIds -> [at : {"idle", "send", "wait"}, try : Tries]]
    BY <1>2 DEF ScansTyped
  <2> QED BY <1>2, <2>1, <2>2 DEF ScansTyped
<1>9. attempt[s][n] = Quiet /\ Runs(s) /\ ~a.answer.ok
  <2>1. n >= scanner[s].try
    BY <1>1 DEF Tries
  <2> QED BY <1>2, <1>5, <2>1 DEF ScanSound, Unsent
<1>10. scanner'[s].at = "wait" /\ scanner'[s].try = n /\ \A m \in Tries : Unsent(s, m)' => Unsent(s, m) /\ m # n
  <2>1. scanner'[s].at = "wait" /\ scanner'[s].try = n
    BY <1>1, <1>2 DEF ScansTyped
  <2> QED BY <1>1, <1>2, <2>1 DEF Unsent, Tries
<1>11. ScanSound(s)
  OBVIOUS
<1>12. ScanSound(s)'
  BY <1>2, <1>5, <1>7, <1>9, <1>10, <1>11 DEF ScanSound, Runs, NotYetRun, Fresh
<1>13. \A w \in ScanIds : w # s => ScanSound(w)'
  BY <1>2, <1>7, SoundStays
<1> QED BY <1>8, <1>12, <1>13 DEF ScanInv

\* The handler gives an attempt up and makes the next, or ends.
LEMMA TimeoutKeeps ==
  ASSUME ScanInv, NEW s \in ScanIds, ScanTimeout(s) \/ ScanRefused(s)
  PROVE  ScanInv'
<1> USE ScanFacts
<1>1. /\ scanner[s].at = "wait" /\ UNCHANGED <<scan, agentKnown, attempt, answers, upgradable, since, told, events>>
      /\ \/ scanner[s].try < MaxScanRetries /\ scanner' = [scanner EXCEPT ![s] = [at |-> "send", try |-> scanner[s].try + 1]]
         \/ scanner' = [scanner EXCEPT ![s] = Resting]
  BY DEF ScanTimeout, ScanRefused
<1>2. PICK t \in Tries : t = scanner[s].try
  BY DEF ScansTyped
<1>3. \A w \in ScanIds : w # s => scanner'[w] = scanner[w]
  BY <1>1 DEF ScansTyped
<1>4. Runs(s) /\ ScanSound(s)
  BY <1>1
<1>5. CASE t < MaxScanRetries /\ scanner' = [scanner EXCEPT ![s] = [at |-> "send", try |-> t + 1]]
  <2>1. t + 1 \in Tries
    BY <1>5, ScanAssumption DEF Tries
  <2>2. scanner'[s] = [at |-> "send", try |-> t + 1] /\ scanner' \in [ScanIds -> [at : {"idle", "send", "wait"}, try : Tries]]
    BY <1>5, <2>1 DEF ScansTyped
  <2>3. ScansTyped'
    BY <1>1, <2>2 DEF ScansTyped
  <2>4. \A m \in Tries : Unsent(s, m)' => Unsent(s, m)
    BY <1>1, <1>2, <2>2 DEF Unsent, Tries
  <2>5. ScanSound(s)'
    BY <1>1, <1>4, <2>4 DEF ScanSound, Runs, NotYetRun, Fresh
  <2> QED BY <1>1, <1>3, <2>3, <2>5, SoundStays DEF ScanInv
<1>6. CASE scanner' = [scanner EXCEPT ![s] = Resting]
  <2>1. scanner'[s] = Resting /\ scanner' \in [ScanIds -> [at : {"idle", "send", "wait"}, try : Tries]]
    BY <1>6 DEF ScansTyped
  <2>2. ScansTyped'
    BY <1>1, <2>1 DEF ScansTyped
  <2>3. ScanSound(s)'
    BY <1>1, <1>4, <2>1 DEF ScanSound, Runs, NotYetRun, Unsent, Fresh
  <2> QED BY <1>1, <1>3, <2>2, <2>3, SoundStays DEF ScanInv
<1> QED BY <1>1, <1>2, <1>5, <1>6

LEMMA FinishScanKeeps ==
  ASSUME ScanInv, NEW s \in ScanIds, FinishScan(s)
  PROVE  ScanInv'
<1> USE ScanFacts
<1>1. PICK n \in Tries : n = scanner[s].try
  BY DEF ScansTyped
<1>2. PICK got \in Attempt : got = attempt[s][n]
  BY DEF ScansTyped
<1>3. PICK built : built = BuildScan(got.answer)
  OBVIOUS
<1>4. /\ scanner[s].at = "wait" /\ scan' = [scan EXCEPT ![s] = built] /\ told' = [told EXCEPT ![s] = got]
      /\ scanner' = [scanner EXCEPT ![s] = Resting] /\ UNCHANGED <<agentKnown, attempt, answers, upgradable, since, events>>
  BY <1>1, <1>2, <1>3 DEF FinishScan
<1>5. got.answer \in [ok : BOOLEAN, list : Listings \cup {<<>>}]
  BY DEF Attempt
<1>6. built \in [status : Ended, updates : {{}}] /\ (built.status = "succeeded" => got.answer.ok /\ Readable(got.answer.list) = {})
  BY <1>3, <1>5, BuildScanIs
<1>7. /\ scan'[s] = built /\ told'[s] = got /\ scanner'[s] = Resting
      /\ \A w \in ScanIds : w # s => scan'[w] = scan[w] /\ told'[w] = told[w] /\ scanner'[w] = scanner[w]
  BY <1>4 DEF ScansTyped
<1>8. built \in [status : ScanStatus, updates : {{}}] /\ built.status \in Ended
  BY <1>6 DEF ScanStatus
<1>9. ScansTyped'
  BY <1>4, <1>8 DEF ScansTyped
<1>10. Fresh(s, got)
  BY <1>2, <1>4 DEF ScanSound
<1>11. ScanSound(s)'
  BY <1>4, <1>6, <1>7, <1>8, <1>10 DEF ScanSound, Runs, NotYetRun, Unsent, Fresh, Ended
<1>12. \A w \in ScanIds : w # s => ScanSound(w)'
  BY <1>4, <1>7, SoundStays
<1> QED BY <1>9, <1>11, <1>12 DEF ScanInv

\* One attempt changes at the agent, to one that is answered or has no answer.
LEMMA AttemptMoves ==
  ASSUME ScanInv, NEW s \in ScanIds, NEW n \in Tries, attempt[s][n].at \in {"sent", "running"},
         NEW a \in Attempt, attempt' = [attempt EXCEPT ![s] = [attempt[s] EXCEPT ![n] = a]],
         answers' \in [ScanIds -> Attempt], \A w \in ScanIds : w # s => answers'[w] = answers[w],
         Runs(s) => Fresh(s, a) /\ (answers'[s].answer.ok => answers'[s].answer.list \in since[s]),
         a.at # "answered" => ~a.answer.ok,
         UNCHANGED <<scan, scanner, agentKnown, upgradable, since, told, events>>
  PROVE  ScanInv'
<1> USE ScanFacts
<1>1. attempt[s] \in [Tries -> Attempt]
  BY DEF ScansTyped
<1>2. /\ \A m \in Tries : attempt'[s][m] = IF m = n THEN a ELSE attempt[s][m]
      /\ \A w \in ScanIds : w # s => attempt'[w] = attempt[w]
  BY <1>1 DEF ScansTyped
<1>3. ScansTyped'
  <2>1. attempt' \in [ScanIds -> [Tries -> Attempt]]
    BY <1>1 DEF ScansTyped
  <2> QED BY <2>1 DEF ScansTyped
<1>4. attempt[s][n] # Quiet /\ ~NotYetRun(s) /\ ~Unsent(s, n)
  BY DEF ScanSound
<1>5. ScanSound(s)
  OBVIOUS
<1>6. ScanSound(s)'
  BY <1>2, <1>4, <1>5 DEF ScanSound, Runs, NotYetRun, Unsent, Fresh
<1>7. \A w \in ScanIds : w # s => ScanSound(w)'
  BY <1>2, SoundStays
<1> QED BY <1>3, <1>6, <1>7 DEF ScanInv

LEMMA AgentTakesKeeps ==
  ASSUME ScanInv, NEW s \in ScanIds, NEW n \in Tries, AgentTakes(s, n)
  PROVE  ScanInv'
<1> USE ScanFacts
<1>1. attempt[s][n] \in Attempt /\ answers[s] \in Attempt
  BY DEF ScansTyped
<1>2. PICK a : a = IF answers[s].at = "answered" THEN answers[s] ELSE [attempt[s][n] EXCEPT !.at = "running"]
  OBVIOUS
<1>3. /\ attempt[s][n].at = "sent" /\ attempt' = [attempt EXCEPT ![s] = [attempt[s] EXCEPT ![n] = a]]
      /\ UNCHANGED <<scan, scanner, agentKnown, answers, upgradable, since, told, events>>
  BY <1>2 DEF AgentTakes, ScanKey
<1>4. ~attempt[s][n].answer.ok
  BY <1>3 DEF ScanSound
<1>5. a \in Attempt /\ (a = answers[s] \/ a.answer = attempt[s][n].answer) /\ (a.at # "answered" => ~a.answer.ok)
  BY <1>1, <1>2, <1>4 DEF Attempt
<1>6. Runs(s) => Fresh(s, a) /\ (answers'[s].answer.ok => answers'[s].answer.list \in since[s])
  BY <1>3, <1>4, <1>5 DEF ScanSound, Fresh
<1>7. answers' \in [ScanIds -> Attempt]
  BY <1>3 DEF ScansTyped
<1> QED BY <1>3, <1>5, <1>6, <1>7, AttemptMoves

LEMMA AptListEndsKeeps ==
  ASSUME ScanInv, NEW s \in ScanIds, NEW n \in Tries, NEW ok \in BOOLEAN, AptListEnds(s, n, ok)
  PROVE  ScanInv'
<1> USE ScanFacts
<1>1. PICK a : a = [at |-> "answered", answer |-> IF ok THEN Answer(TRUE, upgradable) ELSE NoAnswer]
  OBVIOUS
<1>2. /\ attempt[s][n].at = "running" /\ attempt' = [attempt EXCEPT ![s] = [attempt[s] EXCEPT ![n] = a]]
      /\ answers' = [answers EXCEPT ![s] = a] /\ UNCHANGED <<scan, scanner, agentKnown, upgradable, since, told, events>>
  BY <1>1 DEF AptListEnds, ScanKey
<1>3. a \in Attempt /\ a.at = "answered" /\ (a.answer.ok => a.answer.list = upgradable)
  <2>1. upgradable \in Listings
    BY DEF ScansTyped
  <2>2. CASE ok
    BY <1>1, <2>1, <2>2 DEF Answer, Attempt
  <2>3. CASE ~ok
    BY <1>1, <2>3 DEF NoAnswer, Attempt
  <2> QED BY <2>2, <2>3
<1>4. answers' \in [ScanIds -> Attempt] /\ answers'[s] = a /\ \A w \in ScanIds : w # s => answers'[w] = answers[w]
  BY <1>2, <1>3 DEF ScansTyped
<1>5. Runs(s) => Fresh(s, a) /\ (answers'[s].answer.ok => answers'[s].answer.list \in since[s])
  BY <1>3, <1>4 DEF ScanSound, Fresh
<1> QED BY <1>2, <1>3, <1>4, <1>5, AttemptMoves

LEMMA AroundKeeps ==
  ASSUME ScanInv, AnswersForgotten \/ AgentRegistered \/ HostChanges \/ ScansLost
  PROVE  ScanInv'
<1> USE ScanFacts
<1>1. events' \in 0 .. MaxEvents
  BY ScanAssumption DEF ScansTyped, Happens, AnswersForgotten, AgentRegistered, HostChanges, ScansLost
<1>2. CASE AnswersForgotten
  <2>1. answers' = [s \in ScanIds |-> Quiet] /\ UNCHANGED <<scan, scanner, agentKnown, attempt, upgradable, since, told>>
    BY <1>2 DEF AnswersForgotten
  <2>2. ScansTyped'
    BY <1>1, <2>1 DEF ScansTyped
  <2>3. \A s \in ScanIds : ScanSound(s)'
    BY <2>1 DEF ScanSound, Runs, NotYetRun, Unsent, Fresh
  <2> QED BY <2>2, <2>3 DEF ScanInv
<1>3. CASE AgentRegistered
  <2>1. agentKnown' \in BOOLEAN /\ UNCHANGED <<scan, scanner, answers, attempt, upgradable, since, told>>
    BY <1>3 DEF AgentRegistered, ScansTyped
  <2>2. ScansTyped'
    BY <1>1, <2>1 DEF ScansTyped
  <2>3. \A s \in ScanIds : ScanSound(s)'
    BY <2>1 DEF ScanSound, Runs, NotYetRun, Unsent, Fresh
  <2> QED BY <2>2, <2>3 DEF ScanInv
<1>4. CASE HostChanges
  <2>1. /\ upgradable' \in Listings /\ UNCHANGED <<scan, scanner, agentKnown, attempt, answers, told>>
        /\ since' = [s \in ScanIds |-> IF scanner[s] = Resting THEN since[s] ELSE since[s] \cup {upgradable'}]
    BY <1>4 DEF HostChanges
  <2>2. since' \in [ScanIds -> SUBSET Listings]
    BY <2>1 DEF ScansTyped
  <2>3. ScansTyped'
    BY <1>1, <2>1, <2>2 DEF ScansTyped
  <2>4. \A s \in ScanIds : since[s] \subseteq since'[s] /\ (Runs(s) => upgradable' \in since'[s])
    BY <2>1 DEF Runs
  <2>5. \A s \in ScanIds : ScanSound(s)'
    BY <2>1, <2>4 DEF ScanSound, Runs, NotYetRun, Unsent, Fresh
  <2> QED BY <2>3, <2>5 DEF ScanInv
<1>5. CASE ScansLost
  <2>1. /\ scan' = [s \in ScanIds |-> IF scan[s].status = "none" THEN scan[s] ELSE [status |-> "lost", updates |-> {}]]
        /\ scanner' = [s \in ScanIds |-> Resting] /\ UNCHANGED <<agentKnown, attempt, answers, upgradable, since, told>>
    BY <1>5 DEF ScansLost
  <2>2. \A s \in ScanIds : scanner'[s] = Resting /\ ((scan'[s] = scan[s] /\ scan[s].status = "none") \/ scan'[s] = [status |-> "lost", updates |-> {}])
    BY <2>1
  <2>3. scan' \in [ScanIds -> [status : ScanStatus, updates : {{}}]]
    BY <2>1 DEF ScansTyped, ScanStatus
  <2>4. ScansTyped'
    BY <1>1, <2>1, <2>3 DEF ScansTyped
  <2>5. \A s \in ScanIds : ScanSound(s)'
    BY <2>1, <2>2 DEF ScanSound, Runs, NotYetRun, Unsent, Fresh
  <2> QED BY <2>4, <2>5 DEF ScanInv
<1> QED BY <1>2, <1>3, <1>4, <1>5

LEMMA ScanStep ==
  ASSUME ScanInv, [ScanNext]_scanVars
  PROVE  ScanInv'
<1>1. CASE UNCHANGED scanVars
  <2>1. UNCHANGED <<scan, scanner, agentKnown, attempt, answers, upgradable, since, told, events>>
    BY <1>1 DEF scanVars
  <2>2. ScansTyped'
    BY <2>1, ScanFacts DEF ScansTyped
  <2>3. \A s \in ScanIds : ScanSound(s)'
    BY <2>1, ScanFacts, SoundStays
  <2> QED BY <2>2, <2>3 DEF ScanInv
<1>2. ASSUME NEW s \in ScanIds, StartScan(s) \/ RunScan(s) \/ ScanHandler(s) PROVE ScanInv'
  BY <1>2, StartScanKeeps, RunScanKeeps, SendScanKeeps, TimeoutKeeps, FinishScanKeeps DEF ScanHandler
<1>3. ASSUME NEW s \in ScanIds, NEW n \in Tries, AgentTakes(s, n) \/ \E ok \in BOOLEAN : AptListEnds(s, n, ok) PROVE ScanInv'
  BY <1>3, AgentTakesKeeps, AptListEndsKeeps
<1> QED BY <1>1, <1>2, <1>3, AroundKeeps DEF ScanNext

LEMMA ScansAreTrue ==
  ASSUME ScanInv
  PROVE  ScansTrue
<1> USE ScanFacts
<1>1. ScanTypeOK
  <2>1. \A s \in ScanIds : scan[s].status \in ScanStatus /\ scan[s].updates = {}
    BY DEF ScansTyped
  <2>2. \A s \in ScanIds : scanner[s] \in [at : {"idle", "send", "wait"}, try : Tries] /\ since[s] \subseteq Listings
    BY DEF ScansTyped
  <2>3. \A s \in ScanIds : {answers[s], told[s]} \cup {attempt[s][n] : n \in Tries} \subseteq Attempt
    BY DEF ScansTyped
  <2> QED BY <2>1, <2>2, <2>3 DEF ScanTypeOK, ScansTyped, Attempt
<1>2. NoUpdateHidden
  <2>1. \A s \in ScanIds : Readable(told[s].answer.list) = {} => Updates(told[s].answer.list) = {}
    BY DEF Updates
  <2>2. \A s \in ScanIds : scan[s].updates = {}
    BY DEF ScansTyped
  <2> QED BY <2>1, <2>2 DEF NoUpdateHidden, ScanSound
<1>3. ListIsFresh /\ RunningOnce
  BY DEF ListIsFresh, RunningOnce, ScanSound, Fresh, Runs
<1> QED BY <1>1, <1>2, <1>3 DEF ScansTrue

(* For any number of scans, lists, retries, and lengths of safe_detail: a   *)
(* succeeded scan shows all that the agent could read of apt's list, apt    *)
(* printed it while the scan ran, and a scan has one handler (run_scan,     *)
(* build_scan, the agent's memory of answers).                              *)
THEOREM ScansAlwaysTrue == ScanSpec => []ScansTrue
<1>1. ScanInit => ScanInv
  <2> SUFFICES ASSUME ScanInit PROVE ScanInv
    OBVIOUS
  <2>1. 0 \in Tries
    BY ScanAssumption DEF Tries
  <2>2. Resting \in [at : {"idle", "send", "wait"}, try : Tries] /\ Resting.at = "idle"
    BY <2>1 DEF Resting
  <2>3. Quiet \in Attempt /\ ~Quiet.answer.ok /\ Quiet.at = "none"
    BY DEF Quiet, NoAnswer, Attempt
  <2>4. ScansTyped
    BY <2>2, <2>3, ScanAssumption DEF ScanInit, ScansTyped, ScanStatus
  <2>5. \A s \in ScanIds : /\ scanner[s] = Resting /\ scan[s].status = "none" /\ answers[s] = Quiet /\ told[s] = Quiet
                           /\ \A n \in Tries : attempt[s][n] = Quiet
    BY DEF ScanInit
  <2>6. \A s \in ScanIds : ScanSound(s)
    BY <2>2, <2>3, <2>5 DEF ScanSound, Runs, NotYetRun, Unsent, Fresh
  <2> QED BY <2>4, <2>6 DEF ScanInv
<1>2. ScanInv /\ [ScanNext]_scanVars => ScanInv'
  BY ScanStep
<1>3. ScanInv => ScansTrue
  BY ScansAreTrue
<1> QED BY <1>1, <1>2, <1>3, PTL DEF ScanSpec

(***************************************************************************)
(* Alerts about sustained load.  The loop back from the newest sample      *)
(* ends where StartsAt says, by induction over the samples; all it needs   *)
(* of the series is SeriesInv, that its samples are in order of time.      *)
(***************************************************************************)

(* Sample k keeps a load going: it is above the level, and the next one     *)
(* follows without a hole.                                                  *)
Carries(level, k) ==
  Above(series[k], level) /\ (k < Len(series) => series[k + 1].at <= series[k].at + MaxSampleGap)
\* Seen from sample i, the load starts at sample j.
StartsAt(level, i, j) ==
  /\ j \in 1 .. i + 1 /\ \A k \in j .. i : Carries(level, k)
  /\ j = 1 \/ ~Carries(level, j - 1)

Sample == [at : Nat, load : Loads]
SeriesInv ==
  /\ series \in Seq(Sample) /\ Len(series) \in Nat \ {0}
  /\ \A i, j \in 1 .. Len(series) : i <= j => series[i].at <= series[j].at

LEMMA SamplesTyped ==
  ASSUME SeriesInv
  PROVE  \A i \in 1 .. Len(series) : series[i] \in Sample /\ series[i].at \in Nat
<1> SUFFICES ASSUME NEW i \in 1 .. Len(series) PROVE series[i] \in Sample /\ series[i].at \in Nat
  OBVIOUS
<1>1. series[i] \in Sample
  BY DEF SeriesInv
<1> QED BY <1>1 DEF Sample

LEMMA StartIsUnique ==
  ASSUME NEW level, NEW i \in Nat, NEW j, NEW k, StartsAt(level, i, j), StartsAt(level, i, k)
  PROVE  j = k
<1>1. ASSUME NEW a, NEW b, StartsAt(level, i, a), StartsAt(level, i, b), a < b PROVE FALSE
  <2>1. a \in 1 .. i + 1 /\ b \in 1 .. i + 1 /\ b - 1 \in a .. i /\ b # 1
    BY <1>1 DEF StartsAt
  <2>2. Carries(level, b - 1)
    BY <1>1, <2>1 DEF StartsAt
  <2> QED BY <1>1, <2>1, <2>2 DEF StartsAt
<1>2. j \in Int /\ k \in Int
  BY DEF StartsAt
<1> QED BY <1>1, <1>2

LEMMA StartMoves ==
  ASSUME NEW level, NEW i \in Nat
  PROVE  /\ StartsAt(level, 0, 1)
         /\ ~Carries(level, i + 1) => StartsAt(level, i + 1, i + 2)
         /\ \A j : Carries(level, i + 1) /\ StartsAt(level, i, j) => StartsAt(level, i + 1, j)
<1>1. StartsAt(level, 0, 1)
  BY DEF StartsAt
<1>2. ASSUME ~Carries(level, i + 1) PROVE StartsAt(level, i + 1, i + 2)
  <2>1. i + 2 \in 1 .. (i + 1) + 1 /\ (i + 2) .. (i + 1) = {} /\ (i + 2) - 1 = i + 1
    OBVIOUS
  <2> QED BY <1>2, <2>1 DEF StartsAt
<1>3. ASSUME NEW j, Carries(level, i + 1), StartsAt(level, i, j) PROVE StartsAt(level, i + 1, j)
  <2>1. j \in 1 .. i + 1 /\ j \in 1 .. (i + 1) + 1 /\ \A k \in j .. i + 1 : k = i + 1 \/ k \in j .. i
    BY <1>3 DEF StartsAt
  <2> QED BY <1>3, <2>1 DEF StartsAt
<1> QED BY <1>1, <1>2, <1>3

LEMMA StartExists ==
  ASSUME NEW level, NEW n \in Nat
  PROVE  \A i \in 0 .. n : \E j : StartsAt(level, i, j)
<1>1. PICK S : S = {i \in Nat : \E j : StartsAt(level, i, j)}
  OBVIOUS
<1>2. 0 \in S
  BY <1>1, StartMoves
<1>3. ASSUME NEW i \in 0 .. n - 1, i \in S PROVE i + 1 \in S
  <2>1. i \in Nat /\ i + 1 \in Nat
    OBVIOUS
  <2>2. PICK j : StartsAt(level, i, j)
    BY <1>1, <1>3
  <2>3. StartsAt(level, i + 1, i + 2) \/ StartsAt(level, i + 1, j)
    BY <2>1, <2>2, StartMoves
  <2> QED BY <1>1, <2>1, <2>3
<1>4. \A i \in 0 .. n : i \in S
  BY <1>2, <1>3, UpTo
<1> QED BY <1>1, <1>4

(* The recursive function of SustainedStart exists, being the start of the  *)
(* load seen from each sample, and every function that satisfies its        *)
(* equation is that one.                                                    *)
IsBack(level, f) ==
  f = [i \in 0 .. Len(series) |->
         IF \/ i = 0 \/ ~Above(series[i], level)
            \/ i < Len(series) /\ series[i + 1].at - series[i].at > MaxSampleGap
           THEN i + 1 ELSE f[i - 1]]

LEMMA BackStep ==
  ASSUME SeriesInv, NEW level, NEW i \in 1 .. Len(series)
  PROVE  Carries(level, i) <=>
           ~(\/ i = 0 \/ ~Above(series[i], level)
             \/ i < Len(series) /\ series[i + 1].at - series[i].at > MaxSampleGap)
<1>1. CASE i = Len(series)
  BY <1>1 DEF SeriesInv, Carries
<1>2. CASE i < Len(series)
  <2>1. i + 1 \in 1 .. Len(series) /\ i # 0
    BY <1>2 DEF SeriesInv
  <2>a. MaxSampleGap \in Nat
    BY AlertAssumption
  <2>2. series[i].at \in Nat /\ series[i + 1].at \in Nat /\ MaxSampleGap \in Nat
    BY <2>a, <2>1, SamplesTyped
  <2>3. (series[i + 1].at - series[i].at > MaxSampleGap) <=> ~(series[i + 1].at <= series[i].at + MaxSampleGap)
    BY <2>2
  <2> QED BY <1>2, <2>1, <2>3 DEF Carries
<1>3. i = Len(series) \/ i < Len(series)
  BY DEF SeriesInv
<1> QED BY <1>1, <1>2, <1>3

LEMMA BackExists ==
  ASSUME SeriesInv, NEW level
  PROVE  \E f : IsBack(level, f)
<1>1. PICK N \in Nat : N = Len(series)
  BY DEF SeriesInv
<1>2. PICK g : g = [i \in 0 .. N |-> CHOOSE j : StartsAt(level, i, j)]
  OBVIOUS
<1>3. \A i \in 0 .. N : StartsAt(level, i, g[i])
  BY <1>2, StartExists
<1>4. ASSUME NEW i \in 0 .. N
      PROVE  g[i] = IF \/ i = 0 \/ ~Above(series[i], level)
                       \/ i < Len(series) /\ series[i + 1].at - series[i].at > MaxSampleGap
                      THEN i + 1 ELSE g[i - 1]
  <2>1. CASE i = 0
    <3>1. StartsAt(level, 0, 1) /\ StartsAt(level, 0, g[0])
      BY <1>3, <2>1, StartMoves
    <3> QED BY <2>1, <3>1, StartIsUnique
  <2>2. CASE i # 0
    <3>1. i - 1 \in Nat /\ i - 1 \in 0 .. N /\ (i - 1) + 1 = i /\ (i - 1) + 2 = i + 1 /\ i \in 1 .. Len(series) /\ i \in Nat
      BY <1>1, <2>2
    <3>2. CASE Carries(level, i)
      <4>1. StartsAt(level, i - 1, g[i - 1])
        BY <1>3, <3>1
      <4>2. StartsAt(level, i, g[i - 1])
        BY <3>1, <3>2, <4>1, StartMoves
      <4>3. g[i] = g[i - 1]
        BY <1>3, <3>1, <4>2, StartIsUnique
      <4> QED BY <3>1, <3>2, <4>3, BackStep
    <3>3. CASE ~Carries(level, i)
      <4>1. StartsAt(level, i, i + 1)
        BY <3>1, <3>3, StartMoves
      <4>2. g[i] = i + 1
        BY <1>3, <3>1, <4>1, StartIsUnique
      <4> QED BY <3>1, <3>3, <4>2, BackStep
    <3> QED BY <3>2, <3>3
  <2> QED BY <2>1, <2>2
<1>5. IsBack(level, g)
  BY <1>1, <1>2, <1>4 DEF IsBack
<1> QED BY <1>5

LEMMA BackStarts ==
  ASSUME SeriesInv, NEW level, NEW f, IsBack(level, f)
  PROVE  StartsAt(level, Len(series), f[Len(series)])
<1>1. PICK N \in Nat : N = Len(series)
  BY DEF SeriesInv
<1>2. \A i \in 0 .. N :
        f[i] = IF \/ i = 0 \/ ~Above(series[i], level)
                  \/ i < Len(series) /\ series[i + 1].at - series[i].at > MaxSampleGap
                 THEN i + 1 ELSE f[i - 1]
  BY <1>1 DEF IsBack
<1>3. PICK S : S = {i \in Nat : StartsAt(level, i, f[i])}
  OBVIOUS
<1>4. f[0] = 1
  BY <1>2
<1>5. 0 \in S
  BY <1>3, <1>4, StartMoves
<1>6. ASSUME NEW i \in 0 .. N - 1, i \in S PROVE i + 1 \in S
  <2>1. i \in Nat /\ i + 1 \in 1 .. Len(series) /\ i + 1 \in 0 .. N /\ i + 1 \in Nat /\ (i + 1) - 1 = i /\ (i + 1) + 1 = i + 2
    BY <1>1
  <2>2. f[i + 1] = IF Carries(level, i + 1) THEN f[i] ELSE i + 2
    BY <1>2, <2>1, BackStep
  <2>3. StartsAt(level, i + 1, f[i + 1])
    BY <1>3, <1>6, <2>1, <2>2, StartMoves
  <2> QED BY <1>3, <2>1, <2>3
<1>7. \A i \in 0 .. N : i \in S
  BY <1>5, <1>6, UpTo
<1> QED BY <1>1, <1>3, <1>7

LEMMA SustainedStarts ==
  ASSUME SeriesInv, NEW level
  PROVE  StartsAt(level, Len(series), SustainedStart(level))
<1>1. PICK b : b = CHOOSE f : IsBack(level, f)
  OBVIOUS
<1>2. IsBack(level, b)
  BY <1>1, BackExists
<1>3. SustainedStart(level) = b[Len(series)]
  BY <1>1 DEF SustainedStart, IsBack
<1> QED BY <1>2, <1>3, BackStarts

LEMMA SeriesStep ==
  ASSUME SeriesInv, [AlertNext]_alertVars
  PROVE  SeriesInv'
<1>1. CASE UNCHANGED alertVars
  BY <1>1 DEF SeriesInv, alertVars
<1>2. CASE AlertNext
  <2>1. PICK gap \in Gaps, load \in Loads : AddSample(gap, load)
    BY <1>2 DEF AlertNext
  <2>2. PICK N \in Nat \ {0} : N = Len(series)
    BY DEF SeriesInv
  <2>3. gap \in Nat /\ series[N].at \in Nat
    BY <2>2, AlertAssumption, SamplesTyped
  <2>4. PICK s \in Sample : s = [at |-> series[N].at + gap, load |-> load]
    <3>1. series[N].at + gap \in Nat
      BY <2>3
    <3>2. [at |-> series[N].at + gap, load |-> load] \in Sample
      BY <3>1 DEF Sample
    <3> QED BY <3>2
  <2>5. series' = Append(series, s)
    BY <2>1, <2>2, <2>4 DEF AddSample, LatestSample
  <2>6. series' \in Seq(Sample) /\ Len(series') = N + 1
    BY <2>2, <2>5 DEF SeriesInv
  <2>7. series'[N + 1] = s /\ \A i \in 1 .. N : series'[i] = series[i]
    BY <2>2, <2>5 DEF SeriesInv
  <2>8. \A i \in 1 .. N : series[i].at \in Nat /\ series[i].at <= series[N].at
    BY <2>2, SamplesTyped DEF SeriesInv
  <2>9. ASSUME NEW i \in 1 .. N + 1, NEW j \in 1 .. N + 1, i <= j PROVE series'[i].at <= series'[j].at
    <3>1. CASE j = N + 1 /\ i = N + 1
      <4>1. s.at \in Nat
        BY DEF Sample
      <4> QED BY <2>7, <3>1, <4>1
    <3>2. CASE j = N + 1 /\ i # N + 1
      <4>1. i \in 1 .. N /\ s.at = series[N].at + gap
        BY <2>4, <3>2
      <4>2. series[i].at \in Nat /\ series[N].at \in Nat /\ series[i].at <= series[N].at
        BY <2>3, <2>8, <4>1
      <4>3. series[i].at <= s.at
        BY <2>3, <4>1, <4>2
      <4> QED BY <2>7, <3>2, <4>1, <4>3
    <3>3. CASE j # N + 1
      <4>1. i \in 1 .. N /\ j \in 1 .. N
        BY <2>9, <3>3
      <4> QED BY <2>2, <2>7, <2>9, <4>1 DEF SeriesInv
    <3> QED BY <3>1, <3>2, <3>3
  <2> QED BY <2>6, <2>9 DEF SeriesInv
<1> QED BY <1>1, <1>2

LEMMA LastsIsLongEnough ==
  ASSUME SeriesInv, NEW level \in {Warning, Critical}, NEW seconds \in Nat
  PROVE  /\ Lasts(level, seconds) <=> LongEnough(level, seconds)
         /\ LongEnough(level, seconds) => LatestSample.load # Missing
<1>1. PICK N \in Nat \ {0} : N = Len(series)
  BY DEF SeriesInv
<1>2. PICK b : b = SustainedStart(level) /\ StartsAt(level, N, b)
  BY <1>1, SustainedStarts
<1>3. b \in 1 .. N + 1 /\ (\A k \in b .. N : Carries(level, k)) /\ (b = 1 \/ ~Carries(level, b - 1))
  BY <1>2 DEF StartsAt
<1>4. \A i \in 1 .. N : series[i].at \in Nat
  BY <1>1, SamplesTyped
<1>5. DOMAIN series = 1 .. N /\ N \in 1 .. N /\ LatestSample = series[N]
  BY <1>1 DEF SeriesInv, LatestSample
<1>6. \A i \in 1 .. N : Streak(level, i) <=> \A k \in i .. N : Carries(level, k)
  BY <1>1 DEF Streak, Carries
<1>7. \A i \in 1 .. N : Streak(level, i) => b <= i
  <2>1. ASSUME NEW i \in 1 .. N, Streak(level, i), i < b PROVE FALSE
    <3>1. b - 1 \in i .. N /\ b # 1
      BY <1>3, <2>1
    <3> QED BY <1>3, <1>6, <2>1, <3>1
  <2> QED BY <1>3, <2>1
<1>8. b <= N => Streak(level, b)
  BY <1>3, <1>6
<1>9. Lasts(level, seconds) <=> b <= N /\ series[N].at - series[b].at >= seconds
  BY <1>1, <1>2, <1>5 DEF Lasts
<1>10. LongEnough(level, seconds) <=> \E i \in 1 .. N : Streak(level, i) /\ series[i].at + seconds <= series[N].at
  BY <1>5 DEF LongEnough
<1>11. ASSUME Lasts(level, seconds) PROVE LongEnough(level, seconds)
  <2>1. b \in 1 .. N /\ series[b].at + seconds <= series[N].at
    BY <1>3, <1>4, <1>5, <1>9, <1>11
  <2> QED BY <1>8, <1>10, <2>1
<1>12. ASSUME LongEnough(level, seconds) PROVE Lasts(level, seconds) /\ LatestSample.load # Missing
  <2>1. PICK i \in 1 .. N : Streak(level, i) /\ series[i].at + seconds <= series[N].at
    BY <1>10, <1>12
  <2>2. b <= i /\ b \in 1 .. N
    BY <1>3, <1>7, <2>1
  <2>3. series[b].at <= series[i].at
    BY <1>1, <2>2 DEF SeriesInv
  <2>4. series[N].at - series[b].at >= seconds
    BY <1>4, <1>5, <2>1, <2>2, <2>3
  <2>5. Above(series[N], level)
    BY <1>6, <2>1 DEF Carries
  <2> QED BY <1>5, <1>9, <2>2, <2>4, <2>5 DEF Above
<1> QED BY <1>11, <1>12

LEMMA AlertsSustained == SeriesInv => AlertsAreSustained
<1> SUFFICES ASSUME SeriesInv PROVE AlertsAreSustained
  OBVIOUS
<1>1. WarningFor \in Nat /\ CriticalFor \in Nat
  BY AlertAssumption
<1>2. /\ Lasts(Critical, CriticalFor) <=> LongEnough(Critical, CriticalFor)
      /\ LongEnough(Critical, CriticalFor) => LatestSample.load # Missing
  BY <1>1, LastsIsLongEnough
<1>3. /\ Lasts(Warning, WarningFor) <=> LongEnough(Warning, WarningFor)
      /\ LongEnough(Warning, WarningFor) => LatestSample.load # Missing
  BY <1>1, LastsIsLongEnough
<1> QED BY <1>2, <1>3 DEF AlertsAreSustained, EvaluateRule

(* For every series of samples, whatever its gaps and whatever the limits:  *)
(* the loop of sustained_start answers as the rule is documented, with the  *)
(* gravest level whose samples, without a hole, reach from its duration ago *)
(* to the newest one (evaluate_rule, sustained_start).                      *)
THEOREM AlertsAlwaysSustained == AlertSpec => []AlertsAreSustained
<1>1. AlertInit => SeriesInv
  <2> SUFFICES ASSUME NEW load \in Loads, series = <<[at |-> 0, load |-> load]>> PROVE SeriesInv
    BY DEF AlertInit
  <2>1. series \in Seq(Sample) /\ Len(series) = 1
    BY DEF Sample
  <2>2. \A i, j \in 1 .. 1 : series[i].at <= series[j].at
    OBVIOUS
  <2> QED BY <2>1, <2>2 DEF SeriesInv
<1>2. SeriesInv /\ [AlertNext]_alertVars => SeriesInv'
  BY SeriesStep
<1>3. SeriesInv => AlertsAreSustained
  BY AlertsSustained
<1> QED BY <1>1, <1>2, <1>3, PTL DEF AlertSpec
=============================================================================
