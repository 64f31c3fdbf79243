----------------------------- MODULE JobEvents -----------------------------
(* The events of one job, table ansible_job_events with the primary key     *)
(* (job_id, sequence).  The request that creates the job appends what its   *)
(* coordinator recorded; the worker, its recovery and the events page each  *)
(* read the list and append with the length plus one; claim and retry       *)
(* append with the maximum plus one in the transaction that changes the     *)
(* row.  An INSERT whose number is taken fails, and its writer gives up.    *)
EXTENDS JobContract, Naturals, Sequences, FiniteSets, Functions

CONSTANTS
  Viewers,     \* calls of get_ansible_job_events in flight at one time
  MaxRetried,  \* bound: retries of the job
  MaxViews,    \* bound: calls of the events page
  MaxLosses    \* bound: crashes of the worker and statements that fail
ASSUME EventsAssumption == {MaxRetried, MaxViews, MaxLosses} \subseteq Nat

VARIABLES
  jobRow,   \* the job's status column; "none" before its INSERT
  applies,  \* the job's mode is apply
  log,      \* ansible_job_events: number to event
  creator,  \* persist_created_job: "save", "append", then its answer
  runner,   \* the worker: step, its copy of the status, events it still writes, length it read
  viewer,   \* each call of the events page: step and length it read
  cut,      \* history: the worker gave events of its last report up
  left      \* retries, views and losses left
eventVars == <<jobRow, applies, log, creator, runner, viewer, cut, left>>

\* JobEventKind, as far as the properties tell events apart.
Queued == [kind |-> "queued", status |-> "queued"]
StatusChanged(s) == [kind |-> "status", status |-> s]
Failed(by) == [kind |-> "failed", status |-> by]
Other(kind) == [kind |-> kind, status |-> "none"]
JobEvent == {Queued, Failed("worker"), Failed("page"), Other("log"), Other("task"), Other("reconcile")}
              \cup {StatusChanged(s) : s \in Status}

Asleep == [at |-> "down", status |-> "none", events |-> <<>>, read |-> 0, then |-> "none"]
Waiting == [Asleep EXCEPT !.at = "idle"]
Away == [at |-> "away", read |-> 0]

EventsInit ==
  /\ jobRow = "none" /\ applies \in BOOLEAN /\ log = [n \in {} |-> Queued] /\ creator = "save"
  /\ runner = Waiting /\ viewer = [v \in Viewers |-> Away] /\ cut = FALSE
  /\ left = [retries |-> MaxRetried, views |-> MaxViews, losses |-> MaxLosses]

----------------------------------------------------------------------------
(* The table.                                                               *)
Length == Cardinality(DOMAIN log)
Taken(n) == n \in DOMAIN log
Insert(n, e) == log' = [k \in DOMAIN log \cup {n} |-> IF k = n THEN e ELSE log[k]]

MaxNumber == CHOOSE m \in {0} \cup DOMAIN log : \A k \in DOMAIN log : k <= m
\* COALESCE(MAX(sequence), 0) + 1
NextNumber == MaxNumber + 1

\* events.len() as u64 + 1
NumberAfter(read) == read + 1

\* append_event: the primary key decides.
AppendEvent(n, e) == ~Taken(n) /\ Insert(n, e)

Lose == left.losses > 0 /\ left' = [left EXCEPT !.losses = @ - 1]

----------------------------------------------------------------------------
(* The controller.                                                          *)

\* persist_created_job: the row, then the events of the coordinator.
SaveJobRow ==
  /\ creator = "save"
  /\ \/ jobRow' = "queued" /\ creator' = "append" /\ UNCHANGED left
     \/ Lose /\ creator' = "error" /\ UNCHANGED jobRow
  /\ UNCHANGED <<applies, log, runner, viewer, cut>>
AppendQueued ==
  /\ creator = "append"
  /\ \/ AppendEvent(1, Queued) /\ creator' = "created" /\ UNCHANGED left
     \/ Taken(1) /\ creator' = "error" /\ UNCHANGED <<log, left>>
     \/ Lose /\ creator' = "error" /\ UNCHANGED log
  /\ UNCHANGED <<jobRow, applies, runner, viewer, cut>>

\* get_ansible_job_events: the events are read before the row.
ReadEvents(v) ==
  /\ viewer[v] = Away /\ jobRow # "none" /\ left.views > 0
  /\ left' = [left EXCEPT !.views = @ - 1]
  /\ IF \E n \in DOMAIN log : log[n].kind = "failed" THEN UNCHANGED viewer
     ELSE viewer' = [viewer EXCEPT ![v] = [at |-> "row", read |-> Length]]
  /\ UNCHANGED <<jobRow, applies, log, creator, runner, cut>>
FindJob(v) ==
  /\ viewer[v].at = "row"
  /\ viewer' = [viewer EXCEPT ![v] = IF jobRow = "failed" THEN [@ EXCEPT !.at = "append"] ELSE Away]
  /\ UNCHANGED <<jobRow, applies, log, creator, runner, cut, left>>
AppendFailed(v) ==
  LET n == NumberAfter(viewer[v].read) IN
  /\ viewer[v].at = "append" /\ viewer' = [viewer EXCEPT ![v] = Away]
  /\ AppendEvent(n, Failed("page")) \/ (Taken(n) /\ UNCHANGED log)
  /\ UNCHANGED <<jobRow, applies, creator, runner, cut, left>>

\* AnsibleJobRepository::retry, one transaction; a number taken meanwhile
\* rolls it back.
RetryFailed ==
  /\ jobRow = "failed" /\ left.retries > 0 /\ left' = [left EXCEPT !.retries = @ - 1]
  /\ jobRow' = "queued" /\ AppendEvent(NextNumber, StatusChanged("queued"))
  /\ UNCHANGED <<applies, creator, runner, viewer, cut>>

----------------------------------------------------------------------------
(* The worker.                                                              *)

\* claim_next_queued, one transaction.
ClaimRow ==
  /\ runner = Waiting /\ jobRow = "queued"
  /\ jobRow' = "checking" /\ AppendEvent(NextNumber, StatusChanged("checking"))
  /\ runner' = [runner EXCEPT !.at = "checked", !.status = "checking"] /\ cut' = FALSE
  /\ UNCHANGED <<applies, creator, viewer, left>>

\* The row is updated to s, then the events es are written, then it goes on.
Report(s, es, then) ==
  /\ jobRow' = s
  /\ runner' = [runner EXCEPT !.at = "read", !.status = s, !.events = es, !.then = then]
  /\ UNCHANGED <<applies, log, creator, viewer>>

\* run and mark_job_applying.
Plan ==
  /\ runner.at = "checked" /\ Report("planned", <<StatusChanged("planned")>>, "planned")
  /\ UNCHANGED <<cut, left>>
Apply ==
  /\ runner.at = "planned" /\ applies /\ Report("applying", <<StatusChanged("applying")>>, "applying")
  /\ UNCHANGED <<cut, left>>

\* invoke: the playbook ends; its streams, the finished tasks and the summary
\* are written before the result is known to process.  Bound: they are one event.
PlaybookEnds ==
  /\ runner.at = (IF applies THEN "applying" ELSE "planned")
  /\ \E result \in {"ok", "bad"} :
       runner' = [runner EXCEPT !.at = "read", !.events = <<Other("log")>>, !.then = result]
  /\ UNCHANGED <<jobRow, applies, log, creator, viewer, cut, left>>
\* A check of run fails, or the playbook does not start or times out.
GivesUp ==
  /\ runner.at \in {"checked", "planned", "applying"}
  /\ runner' = [runner EXCEPT !.at = "bad"]
  /\ UNCHANGED <<jobRow, applies, log, creator, viewer, cut, left>>

Unresolved == applies /\ runner.status = "applying"
\* Mutant: an unresolved apply is announced, its status is not.
FinalWithoutStatus(s) ==
  CASE s = "succeeded" -> <<Other("task"), StatusChanged(s)>>
    [] s = "failed" -> <<Failed("worker"), StatusChanged(s)>>
    [] s = "reconcile_required" -> <<Failed("worker"), Other("reconcile")>>
\* The events process writes after the final UPDATE.
FinalEvents(s) ==
  CASE s = "succeeded" -> <<Other("task"), StatusChanged(s)>>
    [] s = "failed" -> <<Failed("worker"), StatusChanged(s)>>
    [] s = "reconcile_required" -> <<Failed("worker"), Other("reconcile"), StatusChanged(s)>>

\* process: the result of run decides.
FinishRow ==
  /\ runner.at \in {"ok", "bad"}
  /\ LET s == CASE runner.at = "ok" -> "succeeded"
                [] runner.at = "bad" /\ Unresolved -> "reconcile_required"
                [] OTHER -> "failed"
     IN Report(s, FinalEvents(s), "idle")
  /\ UNCHANGED <<cut, left>>

\* What an error of event() makes of the report: run returns it, process and
\* the recovery stop.
GiveUpEvents ==
  /\ runner' = CASE runner.then \in {"planned", "applying", "ok", "bad"} ->
                      [runner EXCEPT !.at = "bad", !.events = <<>>, !.then = "none"]
                 [] runner.then = "idle" -> Waiting
                 [] runner.then = "recovered" -> Asleep
  /\ cut' = (cut \/ runner.then \in {"idle", "recovered"})

\* event(): the list is read, and a statement later the event is inserted.
ReadLength ==
  /\ runner.at = "read"
  /\ runner' = [runner EXCEPT !.at = "write", !.read = Length]
  /\ UNCHANGED <<jobRow, applies, log, creator, viewer, cut, left>>
WriteEvent ==
  LET n == NumberAfter(runner.read)
      rest == Tail(runner.events) IN
  /\ runner.at = "write"
  /\ \/ /\ AppendEvent(n, Head(runner.events))
        /\ runner' = CASE rest # <<>> -> [runner EXCEPT !.at = "read", !.events = rest]
                       [] rest = <<>> /\ runner.then \in {"idle", "recovered"} -> Waiting
                       [] OTHER -> [runner EXCEPT !.at = runner.then, !.events = <<>>, !.then = "none"]
        /\ UNCHANGED <<cut, left>>
     \/ Taken(n) /\ GiveUpEvents /\ UNCHANGED <<log, left>>
     \/ Lose /\ GiveUpEvents /\ UNCHANGED log
  /\ UNCHANGED <<jobRow, applies, creator, viewer>>

\* The process stops; the container starts it again.
RunnerCrashes ==
  /\ runner.at # "down" /\ Lose
  /\ runner' = Asleep /\ cut' = (cut \/ runner.then \in {"idle", "recovered"})
  /\ UNCHANGED <<jobRow, applies, log, creator, viewer>>

\* recover_interrupted_jobs.
RecoverRow ==
  /\ runner.at = "down"
  /\ CASE jobRow = "applying" ->
            Report("reconcile_required", <<Other("reconcile"), StatusChanged("reconcile_required")>>, "recovered")
       [] jobRow \in {"checking", "planned"} ->
            Report("failed", <<Failed("worker"), StatusChanged("failed")>>, "recovered")
       [] OTHER -> runner' = Waiting /\ UNCHANGED <<jobRow, applies, log, creator, viewer>>
  /\ cut' = (cut /\ jobRow \notin Executing) /\ UNCHANGED left

EventsNext ==
  \/ SaveJobRow \/ AppendQueued \/ RetryFailed
  \/ \E v \in Viewers : ReadEvents(v) \/ FindJob(v) \/ AppendFailed(v)
  \/ ClaimRow \/ Plan \/ Apply \/ PlaybookEnds \/ GivesUp \/ FinishRow
  \/ ReadLength \/ WriteEvent \/ RunnerCrashes \/ RecoverRow
EventsSpec == EventsInit /\ [][EventsNext]_eventVars

----------------------------------------------------------------------------
(* Properties *)

(* The variables have their types; what was read is not more than there is. *)
EventsTypeOK ==
  /\ jobRow \in Status \cup {"none"} /\ applies \in BOOLEAN
  /\ DOMAIN log \subseteq Nat \ {0} /\ Range(log) \subseteq JobEvent
  /\ creator \in {"save", "append", "created", "error"}
  /\ runner.read <= Length /\ \A v \in Viewers : viewer[v].read <= Length

(* The numbers of a job's events are 1, 2, 3 and so on without a hole,      *)
(* whatever was lost or given up: the length and the maximum, by which the  *)
(* writers number, agree.                                                   *)
NumbersDense == DOMAIN log = 1 .. Length

(* The primary key keeps a writer from appending to a list it has not seen: *)
(* the event of a creation answered with success is the first, and however  *)
(* old its list, the events page adds its failure only to a job that has    *)
(* none, never behind the worker's own.                                     *)
NobodyWritesBlind ==
  /\ creator = "created" => log[1] = Queued
  /\ \A n \in DOMAIN log : log[n] = Failed("page") => \A k \in 1 .. n - 1 : log[k].kind # "failed"

LastStatus == CHOOSE s \in Status \cup {"none"} :
  \/ \E n \in DOMAIN log : /\ log[n].kind \in {"queued", "status"} /\ log[n].status = s
                           /\ \A k \in DOMAIN log : k > n => log[k].kind \notin {"queued", "status"}
  \/ s = "none" /\ \A n \in DOMAIN log : log[n].kind \notin {"queued", "status"}

(* When the worker rests, the last status the events tell of a finished job *)
(* is its row's, and a failed one is told of as failed, unless the report   *)
(* was cut off: by a crash, a failed statement, or the events page.         *)
StatusTold ==
  runner = Waiting /\ jobRow \in {"succeeded", "failed", "reconcile_required"} /\ ~cut =>
    /\ LastStatus = jobRow
    /\ jobRow = "failed" => \E n \in DOMAIN log : log[n].kind = "failed"

(* The events of a job tell what happened to it, in whatever order the      *)
(* creating request, the worker, retries and the events page write:         *)
(* numbers without a hole, nothing written blindly, the status told.        *)
EventsTellTheJob == EventsTypeOK /\ NumbersDense /\ NobodyWritesBlind /\ StatusTold
=============================================================================
