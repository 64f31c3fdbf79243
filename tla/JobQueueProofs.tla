--------------------------- MODULE JobQueueProofs ---------------------------
(***************************************************************************)
(* Proofs about the jobs for every number of targets, jobs, retries and    *)
(* faults.  Of the queue: type correctness for any set of workers, the     *)
(* safety of reconciliation for the single worker of the deployment, and   *)
(* the separation of workers that are never restarted.  Of the worker's    *)
(* heartbeat and its artifacts: that what is told of it is true.  Of the   *)
(* Windows agent: that the table tells what happened on the host, and that *)
(* nothing holds the target for good.                                      *)
(***************************************************************************)
EXTENDS JobQueue, WorkerHealth, WindowsAgent, FiniteSetTheorems, TLAPS

USE DEF JobId

\* Every reference to a job is to one that was submitted: those the workers
\* hold, those recovery listed and the sources of reconciliation jobs.
KnownJobs ==
    /\ \A w \in Workers : cur[w] # 0 => status[cur[w]] # "none"
    /\ \A w \in Workers : \A e \in todo[w] : status[e[1]] # "none"
    /\ \A j \in JobId : status[j] # "none" /\ job[j].src # 0 => status[job[j].src] # "none"

\* A worker past its SELECT holds a job.
HoldsJob ==
    \A w \in Workers : pc[w] \notin {"down", "recovering", "idle"} => cur[w] # 0

TypeInv == TypeOK /\ KnownJobs /\ HoldsJob

\* Recovery writes failed or reconcile_required.
LEMMA RecoveredStatusType ==
    ASSUME NEW s PROVE RecoveredStatus(s) \in {"failed", "reconcile_required"}
BY DEF RecoveredStatus

\* The final UPDATE of process settles the job.
LEMMA FinalStatusType ==
    ASSUME NEW w PROVE FinalStatus(w) \in {"succeeded", "failed", "reconcile_required"}
BY DEF FinalStatus

\* The initial states are well typed.
LEMMA InitTypeInv == Init => TypeInv
BY BoundsAssumption DEF Init, TypeInv, TypeOK, KnownJobs, HoldsJob, RowState, Status, Pc

\* A row written by a worker or a controller transaction was a row before.
LEMMA RowWriteType ==
    ASSUME TypeInv, NEW j, j \in JobId => status[j] # "none", NEW s \in Status,
           status' = [status EXCEPT ![j] = s], UNCHANGED job
    PROVE  /\ status' \in [JobId -> RowState]
           /\ \A k \in JobId : status[k] # "none" <=> status'[k] # "none"
           /\ \A k \in JobId : status'[k] # "none" => job'[k] \in JobSpec
BY DEF TypeInv, TypeOK, RowState, Status

\* A step that keeps the jobs and the set of submitted ids, and whose workers
\* refer to known jobs only.
LEMMA KeepsKnown ==
    ASSUME TypeInv, UNCHANGED job,
           \A k \in JobId : status[k] # "none" <=> status'[k] # "none",
           cur' \in [Workers -> 0..MaxJobs],
           \A w \in Workers : cur'[w] \in {0, cur[w]} \/ status[cur'[w]] # "none",
           todo' \in [Workers -> SUBSET (JobId \X Executing)],
           \A w \in Workers : todo'[w] \subseteq todo[w] \/ \A e \in todo'[w] : status[e[1]] # "none"
    PROVE  KnownJobs'
<1> USE BoundsAssumption
<1>1. \A w \in Workers : cur'[w] # 0 => status'[cur'[w]] # "none"
  <2> SUFFICES ASSUME NEW w \in Workers, cur'[w] # 0 PROVE status'[cur'[w]] # "none"
    OBVIOUS
  <2>1. cur'[w] \in JobId
    OBVIOUS
  <2>2. status[cur'[w]] # "none"
    BY DEF TypeInv, KnownJobs
  <2> QED BY <2>1, <2>2
<1>2. \A w \in Workers : \A e \in todo'[w] : status'[e[1]] # "none"
  <2> SUFFICES ASSUME NEW w \in Workers, NEW e \in todo'[w] PROVE status'[e[1]] # "none"
    OBVIOUS
  <2>1. e[1] \in JobId
    OBVIOUS
  <2>2. status[e[1]] # "none"
    BY DEF TypeInv, KnownJobs
  <2> QED BY <2>1, <2>2
<1>3. \A j \in JobId : status'[j] # "none" /\ job'[j].src # 0 => status'[job'[j].src] # "none"
  <2> SUFFICES ASSUME NEW j \in JobId, status'[j] # "none", job'[j].src # 0
               PROVE status'[job'[j].src] # "none"
    OBVIOUS
  <2>1. status[job[j].src] # "none" /\ job[j].src \in JobId
    BY DEF TypeInv, TypeOK, KnownJobs, JobSpec
  <2> QED BY <2>1
<1> QED BY <1>1, <1>2, <1>3 DEF KnownJobs

\* The job a worker holds is a row's worth of contract.
LEMMA HeldJob ==
    ASSUME TypeInv, NEW w \in Workers, pc[w] \notin {"down", "recovering", "idle"}
    PROVE  cur[w] \in JobId /\ status[cur[w]] # "none" /\ job[cur[w]] \in JobSpec
<1>1. cur[w] \in JobId
  BY BoundsAssumption DEF TypeInv, TypeOK, HoldsJob
<1> QED BY <1>1 DEF TypeInv, TypeOK, KnownJobs

\* No step leaves the types or makes a reference to an unknown job.
LEMMA NextTypeInv == TypeInv /\ [Next]_vars => TypeInv'
<1> SUFFICES ASSUME TypeInv, [Next]_vars PROVE TypeInv'
  OBVIOUS
<1> USE BoundsAssumption
<1>0. CASE UNCHANGED vars
  BY <1>0 DEF TypeInv, TypeOK, KnownJobs, HoldsJob, vars
<1>1. ASSUME NEW w \in Workers, RecoverDone(w) PROVE TypeInv'
  <2>1. TypeOK'
    BY <1>1 DEF TypeInv, TypeOK, RecoverDone, bounds, Pc
  <2>2. KnownJobs'
    BY <1>1, <2>1, KeepsKnown DEF TypeInv, TypeOK, RecoverDone
  <2>3. HoldsJob'
    BY <1>1 DEF TypeInv, TypeOK, HoldsJob, RecoverDone
  <2> QED BY <2>1, <2>2, <2>3 DEF TypeInv
<1>2. ASSUME NEW w \in Workers, ClaimSelect(w) PROVE TypeInv'
  <2>1. TypeOK'
    BY <1>2 DEF TypeInv, TypeOK, ClaimSelect, bounds, Pc
  <2>2. KnownJobs'
    BY <1>2, <2>1, KeepsKnown DEF TypeInv, TypeOK, ClaimSelect, Claimable
  <2>3. HoldsJob'
    BY <1>2 DEF TypeInv, TypeOK, HoldsJob, ClaimSelect
  <2> QED BY <2>1, <2>2, <2>3 DEF TypeInv
<1>3. ASSUME NEW w \in Workers, ClaimRollback(w) PROVE TypeInv'
  <2>1. TypeOK'
    BY <1>3 DEF TypeInv, TypeOK, ClaimRollback, DbFault, Pc
  <2>2. KnownJobs'
    BY <1>3, <2>1, KeepsKnown DEF TypeInv, TypeOK, ClaimRollback, DbFault
  <2>3. HoldsJob'
    BY <1>3 DEF TypeInv, TypeOK, HoldsJob, ClaimRollback
  <2> QED BY <2>1, <2>2, <2>3 DEF TypeInv
<1>4. ASSUME NEW w \in Workers, PrecheckFails(w) PROVE TypeInv'
  <2>1. TypeOK'
    BY <1>4 DEF TypeInv, TypeOK, PrecheckFails, Return, bounds, Pc
  <2>2. KnownJobs'
    BY <1>4, <2>1, KeepsKnown DEF TypeInv, TypeOK, PrecheckFails, Return
  <2>3. HoldsJob'
    BY <1>4 DEF TypeInv, TypeOK, HoldsJob, PrecheckFails, Return
  <2> QED BY <2>1, <2>2, <2>3 DEF TypeInv
<1>5. ASSUME NEW w \in Workers, MarkPlannedError(w) PROVE TypeInv'
  <2>1. TypeOK'
    BY <1>5 DEF TypeInv, TypeOK, MarkPlannedError, Return, UpdateFails, DbFault, Status, Pc
  <2>2. KnownJobs'
    BY <1>5, <2>1, KeepsKnown DEF TypeInv, TypeOK, MarkPlannedError, Return, UpdateFails, DbFault
  <2>3. HoldsJob'
    BY <1>5 DEF TypeInv, TypeOK, HoldsJob, MarkPlannedError, Return
  <2> QED BY <2>1, <2>2, <2>3 DEF TypeInv
<1>6. ASSUME NEW w \in Workers, PrepareInvocation(w) PROVE TypeInv'
  <2>1. TypeOK'
    BY <1>6 DEF TypeInv, TypeOK, PrepareInvocation, bounds, Pc
  <2>2. KnownJobs'
    BY <1>6, <2>1, KeepsKnown DEF TypeInv, TypeOK, PrepareInvocation
  <2>3. HoldsJob'
    BY <1>6 DEF TypeInv, TypeOK, HoldsJob, PrepareInvocation
  <2> QED BY <2>1, <2>2, <2>3 DEF TypeInv
<1>7. ASSUME NEW w \in Workers, PrepareFails(w) PROVE TypeInv'
  <2>1. TypeOK'
    BY <1>7 DEF TypeInv, TypeOK, PrepareFails, Return, bounds, Pc
  <2>2. KnownJobs'
    BY <1>7, <2>1, KeepsKnown DEF TypeInv, TypeOK, PrepareFails, Return
  <2>3. HoldsJob'
    BY <1>7 DEF TypeInv, TypeOK, HoldsJob, PrepareFails, Return
  <2> QED BY <2>1, <2>2, <2>3 DEF TypeInv
<1>8. ASSUME NEW w \in Workers, MarkApplyingError(w) PROVE TypeInv'
  <2>1. TypeOK'
    BY <1>8 DEF TypeInv, TypeOK, MarkApplyingError, Return, UpdateFails, DbFault, Status, Pc
  <2>2. KnownJobs'
    BY <1>8, <2>1, KeepsKnown DEF TypeInv, TypeOK, MarkApplyingError, Return, UpdateFails, DbFault
  <2>3. HoldsJob'
    BY <1>8 DEF TypeInv, TypeOK, HoldsJob, MarkApplyingError, Return
  <2> QED BY <2>1, <2>2, <2>3 DEF TypeInv
<1>9. ASSUME NEW w \in Workers, SpawnPlaybook(w) PROVE TypeInv'
  <2>1. TypeOK'
    BY <1>9, HeldJob DEF TypeInv, TypeOK, SpawnPlaybook, ReadyToSpawn, bounds, Pc
  <2>2. KnownJobs'
    BY <1>9, <2>1, KeepsKnown DEF TypeInv, TypeOK, SpawnPlaybook
  <2>3. HoldsJob'
    BY <1>9 DEF TypeInv, TypeOK, HoldsJob, SpawnPlaybook, ReadyToSpawn
  <2> QED BY <2>1, <2>2, <2>3 DEF TypeInv
<1>10. ASSUME NEW w \in Workers, SpawnFails(w) PROVE TypeInv'
  <2>1. TypeOK'
    BY <1>10 DEF TypeInv, TypeOK, SpawnFails, Return, bounds, Pc
  <2>2. KnownJobs'
    BY <1>10, <2>1, KeepsKnown DEF TypeInv, TypeOK, SpawnFails, Return
  <2>3. HoldsJob'
    BY <1>10 DEF TypeInv, TypeOK, HoldsJob, SpawnFails, ReadyToSpawn, Return
  <2> QED BY <2>1, <2>2, <2>3 DEF TypeInv
<1>11. ASSUME NEW w \in Workers, PlaybookExits(w) PROVE TypeInv'
  <2>1. TypeOK'
    BY <1>11 DEF TypeInv, TypeOK, PlaybookExits, Return, bounds, Pc
  <2>2. KnownJobs'
    BY <1>11, <2>1, KeepsKnown DEF TypeInv, TypeOK, PlaybookExits, Return
  <2>3. HoldsJob'
    BY <1>11 DEF TypeInv, TypeOK, HoldsJob, PlaybookExits, Return
  <2> QED BY <2>1, <2>2, <2>3 DEF TypeInv
<1>12. ASSUME NEW w \in Workers, PlaybookTimesOut(w) PROVE TypeInv'
  <2>0. orphans' \subseteq Workers \X JobId
    <3>1. cur[w] \in JobId
      BY <1>12, HeldJob DEF PlaybookTimesOut
    <3> QED BY <1>12, <3>1 DEF TypeInv, TypeOK, PlaybookTimesOut
  <2>1. TypeOK'
    BY <1>12, <2>0 DEF TypeInv, TypeOK, PlaybookTimesOut, Return, Pc
  <2>2. KnownJobs'
    BY <1>12, <2>1, KeepsKnown DEF TypeInv, TypeOK, PlaybookTimesOut, Return
  <2>3. HoldsJob'
    BY <1>12 DEF TypeInv, TypeOK, HoldsJob, PlaybookTimesOut, Return
  <2> QED BY <2>1, <2>2, <2>3 DEF TypeInv
<1>13. ASSUME NEW w \in Workers, FinalizeSourceError(w) PROVE TypeInv'
  <2>1. TypeOK'
    BY <1>13 DEF TypeInv, TypeOK, FinalizeSourceError, Return, DbFault, Pc
  <2>2. KnownJobs'
    BY <1>13, <2>1, KeepsKnown DEF TypeInv, TypeOK, FinalizeSourceError, Return, DbFault
  <2>3. HoldsJob'
    BY <1>13 DEF TypeInv, TypeOK, HoldsJob, FinalizeSourceError, Return
  <2> QED BY <2>1, <2>2, <2>3 DEF TypeInv
<1>14. ASSUME NEW w \in Workers, FinishError(w) PROVE TypeInv'
  <2>1. TypeOK'
    BY <1>14 DEF TypeInv, TypeOK, FinishError, DbFault, Pc
  <2>2. KnownJobs'
    BY <1>14, <2>1, KeepsKnown DEF TypeInv, TypeOK, FinishError, DbFault
  <2>3. HoldsJob'
    BY <1>14 DEF TypeInv, TypeOK, HoldsJob, FinishError
  <2> QED BY <2>1, <2>2, <2>3 DEF TypeInv
<1>15. ASSUME NEW w \in Workers, Crash(w) PROVE TypeInv'
  <2>1. TypeOK'
    BY <1>15 DEF TypeInv, TypeOK, Crash, Status, Pc
  <2>2. KnownJobs'
    BY <1>15, <2>1, KeepsKnown DEF TypeInv, TypeOK, Crash
  <2>3. HoldsJob'
    BY <1>15 DEF TypeInv, TypeOK, HoldsJob, Crash
  <2> QED BY <2>1, <2>2, <2>3 DEF TypeInv
<1>16. ASSUME NEW w \in Workers, Start(w) PROVE TypeInv'
  <2>1. TypeOK'
    BY <1>16 DEF TypeInv, TypeOK, Start, bounds, Pc, Executing
  <2>2. \A v \in Workers : todo'[v] \subseteq todo[v] \/ \A e \in todo'[v] : status[e[1]] # "none"
    BY <1>16 DEF TypeInv, TypeOK, Start, Executing
  <2>3. KnownJobs'
    BY <1>16, <2>1, <2>2, KeepsKnown DEF TypeInv, TypeOK, Start
  <2>4. HoldsJob'
    BY <1>16 DEF TypeInv, TypeOK, HoldsJob, Start
  <2> QED BY <2>1, <2>3, <2>4 DEF TypeInv
<1>17. ASSUME NEW w \in Workers, ClaimCommit(w) PROVE TypeInv'
  <2>1. cur[w] \in JobId /\ status[cur[w]] # "none"
    BY <1>17, HeldJob DEF ClaimCommit
  <2>2. status' = [status EXCEPT ![cur[w]] = "checking"] /\ "checking" \in Status /\ UNCHANGED job
    BY <1>17 DEF ClaimCommit, Status
  <2>3. /\ status' \in [JobId -> RowState]
        /\ \A k \in JobId : status[k] # "none" <=> status'[k] # "none"
        /\ \A k \in JobId : status'[k] # "none" => job'[k] \in JobSpec
    BY <2>1, <2>2, RowWriteType
  <2>4. TypeOK'
    BY <1>17, <2>3 DEF TypeInv, TypeOK, ClaimCommit, bounds, Status, Pc
  <2>5. KnownJobs'
    BY <1>17, <2>3, <2>4, KeepsKnown DEF TypeInv, TypeOK, ClaimCommit
  <2>6. HoldsJob'
    BY <1>17 DEF TypeInv, TypeOK, HoldsJob, ClaimCommit
  <2> QED BY <2>4, <2>5, <2>6 DEF TypeInv
<1>18. ASSUME NEW w \in Workers, ClaimLost(w) PROVE TypeInv'
  <2>1. cur[w] \in JobId /\ status[cur[w]] # "none"
    BY <1>18, HeldJob DEF ClaimLost
  <2>2. status' = [status EXCEPT ![cur[w]] = "checking"] /\ "checking" \in Status /\ UNCHANGED job
    BY <1>18 DEF ClaimLost, Status
  <2>3. /\ status' \in [JobId -> RowState]
        /\ \A k \in JobId : status[k] # "none" <=> status'[k] # "none"
        /\ \A k \in JobId : status'[k] # "none" => job'[k] \in JobSpec
    BY <2>1, <2>2, RowWriteType
  <2>4. TypeOK'
    BY <1>18, <2>3 DEF TypeInv, TypeOK, ClaimLost, DbFault, Status, Pc
  <2>5. KnownJobs'
    BY <1>18, <2>3, <2>4, KeepsKnown DEF TypeInv, TypeOK, ClaimLost
  <2>6. HoldsJob'
    BY <1>18 DEF TypeInv, TypeOK, HoldsJob, ClaimLost
  <2> QED BY <2>4, <2>5, <2>6 DEF TypeInv
<1>19. ASSUME NEW w \in Workers, MarkPlanned(w) PROVE TypeInv'
  <2>1. cur[w] \in JobId /\ status[cur[w]] # "none"
    BY <1>19, HeldJob DEF MarkPlanned
  <2>2. status' = [status EXCEPT ![cur[w]] = "planned"] /\ "planned" \in Status /\ UNCHANGED job
    BY <1>19 DEF MarkPlanned, Update, Status
  <2>3. /\ status' \in [JobId -> RowState]
        /\ \A k \in JobId : status[k] # "none" <=> status'[k] # "none"
        /\ \A k \in JobId : status'[k] # "none" => job'[k] \in JobSpec
    BY <2>1, <2>2, RowWriteType
  <2>4. TypeOK'
    BY <1>19, <2>3 DEF TypeInv, TypeOK, MarkPlanned, bounds, Status, Pc
  <2>5. KnownJobs'
    BY <1>19, <2>3, <2>4, KeepsKnown DEF TypeInv, TypeOK, MarkPlanned
  <2>6. HoldsJob'
    BY <1>19 DEF TypeInv, TypeOK, HoldsJob, MarkPlanned
  <2> QED BY <2>4, <2>5, <2>6 DEF TypeInv
<1>20. ASSUME NEW w \in Workers, MarkApplying(w) PROVE TypeInv'
  <2>1. cur[w] \in JobId /\ status[cur[w]] # "none"
    BY <1>20, HeldJob DEF MarkApplying
  <2>2. status' = [status EXCEPT ![cur[w]] = "applying"] /\ "applying" \in Status /\ UNCHANGED job
    BY <1>20 DEF MarkApplying, Update, Status
  <2>3. /\ status' \in [JobId -> RowState]
        /\ \A k \in JobId : status[k] # "none" <=> status'[k] # "none"
        /\ \A k \in JobId : status'[k] # "none" => job'[k] \in JobSpec
    BY <2>1, <2>2, RowWriteType
  <2>4. TypeOK'
    BY <1>20, <2>3 DEF TypeInv, TypeOK, MarkApplying, bounds, Status, Pc
  <2>5. KnownJobs'
    BY <1>20, <2>3, <2>4, KeepsKnown DEF TypeInv, TypeOK, MarkApplying
  <2>6. HoldsJob'
    BY <1>20 DEF TypeInv, TypeOK, HoldsJob, MarkApplying
  <2> QED BY <2>4, <2>5, <2>6 DEF TypeInv
<1>21. ASSUME NEW w \in Workers, Finish(w) PROVE TypeInv'
  <2>1. cur[w] \in JobId /\ status[cur[w]] # "none"
    BY <1>21, HeldJob DEF Finish
  <2>2. status' = [status EXCEPT ![cur[w]] = FinalStatus(w)] /\ FinalStatus(w) \in Status /\ UNCHANGED job
    BY <1>21, FinalStatusType DEF Finish, Update, Status
  <2>3. /\ status' \in [JobId -> RowState]
        /\ \A k \in JobId : status[k] # "none" <=> status'[k] # "none"
        /\ \A k \in JobId : status'[k] # "none" => job'[k] \in JobSpec
    BY <2>1, <2>2, RowWriteType
  <2>4. TypeOK'
    <3>1. touched' \subseteq JobId
      BY <1>21 DEF TypeInv, TypeOK, Finish
    <3> QED BY <1>21, <2>3, <3>1 DEF TypeInv, TypeOK, Finish, bounds, Pc
  <2>5. KnownJobs'
    BY <1>21, <2>3, <2>4, KeepsKnown DEF TypeInv, TypeOK, Finish
  <2>6. HoldsJob'
    BY <1>21 DEF TypeInv, TypeOK, HoldsJob, Finish
  <2> QED BY <2>4, <2>5, <2>6 DEF TypeInv
<1>22. ASSUME NEW w \in Workers, RecoverJob(w) PROVE TypeInv'
  <2> PICK e \in todo[w] : Update(e[1], RecoveredStatus(e[2])) /\ todo' = [todo EXCEPT ![w] = @ \ {e}]
    BY <1>22 DEF RecoverJob
  <2>1. e[1] \in JobId /\ status[e[1]] # "none"
    BY DEF TypeInv, TypeOK, KnownJobs
  <2>2. RecoveredStatus(e[2]) \in Status /\ UNCHANGED job
    BY <1>22, RecoveredStatusType DEF RecoverJob, Status
  <2>3. /\ status' \in [JobId -> RowState]
        /\ \A k \in JobId : status[k] # "none" <=> status'[k] # "none"
        /\ \A k \in JobId : status'[k] # "none" => job'[k] \in JobSpec
    BY <2>1, <2>2, RowWriteType DEF Update
  <2>4. TypeOK'
    BY <1>22, <2>3 DEF TypeInv, TypeOK, RecoverJob, bounds
  <2>5. KnownJobs'
    BY <1>22, <2>3, <2>4, KeepsKnown DEF TypeInv, TypeOK, RecoverJob
  <2>6. HoldsJob'
    BY <1>22 DEF TypeInv, HoldsJob, RecoverJob
  <2> QED BY <2>4, <2>5, <2>6 DEF TypeInv
<1>23. ASSUME NEW w \in Workers, FinalizeSource(w) PROVE TypeInv'
  <2> DEFINE src == job[cur[w]].src
  <2> PICK s \in {"succeeded", "failed"}, r \in BOOLEAN : Update(src, s) /\ Return(w, r)
    BY <1>23 DEF FinalizeSource
  <2>1. src \in JobId => status[src] # "none"
    <3>1. cur[w] \in JobId /\ status[cur[w]] # "none"
      BY <1>23, HeldJob DEF FinalizeSource
    <3> QED BY <3>1 DEF TypeInv, KnownJobs
  <2>2. status' = [status EXCEPT ![src] = s] /\ s \in Status /\ UNCHANGED job
    BY <1>23 DEF FinalizeSource, Update, Status
  <2> HIDE DEF src
  <2>3. /\ status' \in [JobId -> RowState]
        /\ \A k \in JobId : status[k] # "none" <=> status'[k] # "none"
        /\ \A k \in JobId : status'[k] # "none" => job'[k] \in JobSpec
    BY <2>1, <2>2, RowWriteType
  <2>4. TypeOK'
    BY <1>23, <2>3 DEF TypeInv, TypeOK, FinalizeSource, Return, bounds, Pc
  <2>5. KnownJobs'
    BY <1>23, <2>3, <2>4, KeepsKnown DEF TypeInv, TypeOK, FinalizeSource
  <2>6. HoldsJob'
    BY <1>23 DEF TypeInv, TypeOK, HoldsJob, FinalizeSource, Return
  <2> QED BY <2>4, <2>5, <2>6 DEF TypeInv
<1>24. CASE OrphanExits
  <2>1. TypeOK'
    BY <1>24 DEF TypeInv, TypeOK, OrphanExits, worker, bounds
  <2>2. KnownJobs'
    BY <1>24, <2>1, KeepsKnown DEF TypeInv, TypeOK, OrphanExits, worker
  <2>3. HoldsJob'
    BY <1>24 DEF TypeInv, HoldsJob, OrphanExits, worker
  <2> QED BY <2>1, <2>2, <2>3 DEF TypeInv
<1>25. ASSUME NEW j \in JobId, NEW spec \in JobSpec, Register(j, spec),
             spec.src # 0 => status[spec.src] # "none"
      PROVE TypeInv'
  <2>1. TypeOK'
    BY <1>25 DEF TypeInv, TypeOK, Register, RowState, worker, bounds
  <2>2. KnownJobs'
    BY <1>25, <2>1 DEF TypeInv, TypeOK, KnownJobs, Register, worker, JobSpec
  <2>3. HoldsJob'
    BY <1>25 DEF TypeInv, HoldsJob, Register, worker
  <2> QED BY <2>1, <2>2, <2>3 DEF TypeInv
<1>26. CASE CreateJob \/ SubmitUnchecked
  <2> PICK t \in Targets, r \in Requests \cup Unchecked, j \in JobId :
         Register(j, [target |-> t, op |-> r[1], mode |-> r[2], src |-> 0])
    BY <1>26 DEF CreateJob, SubmitUnchecked
  <2>1. [target |-> t, op |-> r[1], mode |-> r[2], src |-> 0] \in JobSpec
    BY RequestsAssumption DEF JobSpec
  <2> QED BY <2>1, <1>25
<1>27. ASSUME NEW s \in JobId, RequestReconcile(s) PROVE TypeInv'
  <2> DEFINE spec == [target |-> job[s].target, op |-> job[s].op, mode |-> "reconcile", src |-> s]
  <2>1. ASSUME NEW k \in JobId, status[k] = "rejected",
               status' = [status EXCEPT ![k] = "pending"],
               UNCHANGED <<job, worker, orphans, touched, bounds>>
        PROVE TypeInv'
    <3>1. TypeOK'
      BY <2>1 DEF TypeInv, TypeOK, RowState, worker, bounds
    <3>2. KnownJobs'
      BY <2>1, <3>1, KeepsKnown DEF TypeInv, TypeOK, worker
    <3>3. HoldsJob'
      BY <2>1 DEF TypeInv, HoldsJob, worker
    <3> QED BY <3>1, <3>2, <3>3 DEF TypeInv
  <2>2. ASSUME NEW j \in JobId, Register(j, spec)
        PROVE TypeInv'
    <3>1. job[s] \in JobSpec /\ status[s] # "none"
      BY <1>27 DEF RequestReconcile, Row, TypeInv, TypeOK, Status
    <3>2. spec \in JobSpec
      BY <3>1 DEF JobSpec, Mode
    <3> QED BY <2>2, <3>1, <3>2, <1>25
  <2> QED BY <1>27, <2>1, <2>2 DEF RequestReconcile
<1>28. ASSUME NEW j \in JobId, SaveJob(j) PROVE TypeInv'
  <2>1. TypeOK'
    BY <1>28 DEF TypeInv, TypeOK, SaveJob, RowState, Status, worker, bounds
  <2>2. KnownJobs'
    BY <1>28, <2>1, KeepsKnown DEF TypeInv, TypeOK, SaveJob, Status, worker
  <2>3. HoldsJob'
    BY <1>28 DEF TypeInv, HoldsJob, SaveJob, worker
  <2> QED BY <2>1, <2>2, <2>3 DEF TypeInv
<1>29. ASSUME NEW j \in JobId, SaveFails(j) PROVE TypeInv'
  <2>1. TypeOK'
    BY <1>29 DEF TypeInv, TypeOK, SaveFails, DbFault, RowState, Status, worker, bounds
  <2>2. KnownJobs'
    BY <1>29, <2>1, KeepsKnown DEF TypeInv, TypeOK, SaveFails, DbFault, Status, worker
  <2>3. HoldsJob'
    BY <1>29 DEF TypeInv, HoldsJob, SaveFails, worker
  <2> QED BY <2>1, <2>2, <2>3 DEF TypeInv
<1>30. ASSUME NEW j \in JobId, RetryJob(j) PROVE TypeInv'
  <2>1. TypeOK'
    BY <1>30 DEF TypeInv, TypeOK, RetryJob, Row, Update, RowState, Status, worker, bounds
  <2>2. KnownJobs'
    BY <1>30, <2>1, KeepsKnown DEF TypeInv, TypeOK, RetryJob, Row, Update, Status, worker
  <2>3. HoldsJob'
    BY <1>30 DEF TypeInv, HoldsJob, RetryJob, worker
  <2> QED BY <2>1, <2>2, <2>3 DEF TypeInv
<1> QED
  BY <1>0, <1>1, <1>2, <1>3, <1>4, <1>5, <1>6, <1>7, <1>8, <1>9, <1>10, <1>11, <1>12, <1>13,
       <1>14, <1>15, <1>16, <1>17, <1>18, <1>19, <1>20, <1>21, <1>22, <1>23, <1>24, <1>25, <1>26,
       <1>27, <1>28, <1>29, <1>30 DEF Next, WorkerStep, ControllerStep

\* Whatever the workers, targets, requests and faults, every row holds a
\* status of the enum and every submitted id a job of the contract: the blind
\* UPDATEs never write to an id that was not submitted.
THEOREM TypeCorrect == Spec => []TypeOK
<1>1. TypeInv => TypeOK
  BY DEF TypeInv
<1> QED
  BY InitTypeInv, NextTypeInv, <1>1, PTL DEF Spec

----------------------------------------------------------------------------
(***************************************************************************)
(* Reconciliation is safe with one worker, whatever crashes, lost writes,  *)
(* timeouts and operator requests happen: SafeInv of JobQueue is inductive *)
(* and gives NoBlindRetry, OneUnresolved and RowLifecycle.                 *)
(***************************************************************************)

HIDE DEF JobId

\* The deployment of compose.yaml: one worker process.
SingleWorker == \A v, w \in Workers : v = w

\* Init keeps the safety invariant.
LEMMA InitSafe == Init => SafeInv
BY DEF Init, SafeInv, RowMatchesWorker, SnapshotFresh, ApplyStatuses, OneExecuting,
       UnresolvedHoldsTarget, NoBlindRetry, OneUnresolved, Others, Row, Status, Executing, Locked

\* Start keeps the safety invariant.
LEMMA StartSafe ==
    ASSUME SingleWorker, TypeInv, SafeInv, NEW w \in Workers, Start(w)
    PROVE  SafeInv'
<1>0. /\ pc[w] \notin {"down", "recovering", "idle"} => cur[w] \in JobId /\ job[cur[w]] \in JobSpec
      /\ \A v \in Workers : v = w
  BY HeldJob DEF SingleWorker
<1>1. RowMatchesWorker'
  BY <1>0 DEF SafeInv, RowMatchesWorker, Start, Executing, TypeInv, TypeOK
<1>2. SnapshotFresh'
  BY <1>0 DEF SafeInv, SnapshotFresh, Start, Executing, TypeInv, TypeOK, RowMatchesWorker
<1>3. ApplyStatuses'
  BY <1>0 DEF SafeInv, ApplyStatuses, Start, TypeInv, TypeOK, RowMatchesWorker
<1>4. OneExecuting'
  BY <1>0 DEF SafeInv, OneExecuting, Start, Others, Row, Executing, Status, TypeInv, TypeOK,
       RowMatchesWorker
<1>5. UnresolvedHoldsTarget'
  BY <1>0 DEF SafeInv, UnresolvedHoldsTarget, Start, Others, Row, Executing, Status, Locked,
       Reconciles, TypeInv, TypeOK, RowMatchesWorker
<1>6. NoBlindRetry'
  BY <1>0 DEF SafeInv, NoBlindRetry, Start, TypeInv, TypeOK, RowMatchesWorker
<1>7. OneUnresolved'
  BY <1>0 DEF SafeInv, OneUnresolved, Start, Others, Row, Status, Reconciles,
       UnresolvedHoldsTarget, ApplyStatuses, TypeInv, TypeOK, RowMatchesWorker
<1> QED BY <1>1, <1>2, <1>3, <1>4, <1>5, <1>6, <1>7 DEF SafeInv

\* RecoverDone keeps the safety invariant.
LEMMA RecoverDoneSafe ==
    ASSUME SingleWorker, TypeInv, SafeInv, NEW w \in Workers, RecoverDone(w)
    PROVE  SafeInv'
<1>0. /\ pc[w] \notin {"down", "recovering", "idle"} => cur[w] \in JobId /\ job[cur[w]] \in JobSpec
      /\ \A v \in Workers : v = w
  BY HeldJob DEF SingleWorker
<1>1. RowMatchesWorker'
  BY <1>0 DEF SafeInv, RowMatchesWorker, RecoverDone, Executing, TypeInv, TypeOK
<1>2. SnapshotFresh'
  BY <1>0 DEF SafeInv, SnapshotFresh, RecoverDone, Executing, TypeInv, TypeOK, RowMatchesWorker
<1>3. ApplyStatuses'
  BY <1>0 DEF SafeInv, ApplyStatuses, RecoverDone, TypeInv, TypeOK, RowMatchesWorker
<1>4. OneExecuting'
  BY <1>0 DEF SafeInv, OneExecuting, RecoverDone, Others, Row, Executing, Status, TypeInv, TypeOK,
       RowMatchesWorker
<1>5. UnresolvedHoldsTarget'
  BY <1>0 DEF SafeInv, UnresolvedHoldsTarget, RecoverDone, Others, Row, Executing, Status, Locked,
       Reconciles, TypeInv, TypeOK, RowMatchesWorker
<1>6. NoBlindRetry'
  BY <1>0 DEF SafeInv, NoBlindRetry, RecoverDone, TypeInv, TypeOK, RowMatchesWorker
<1>7. OneUnresolved'
  BY <1>0 DEF SafeInv, OneUnresolved, RecoverDone, Others, Row, Status, Reconciles,
       UnresolvedHoldsTarget, ApplyStatuses, TypeInv, TypeOK, RowMatchesWorker
<1> QED BY <1>1, <1>2, <1>3, <1>4, <1>5, <1>6, <1>7 DEF SafeInv

\* ClaimSelect keeps the safety invariant.
LEMMA ClaimSelectSafe ==
    ASSUME SingleWorker, TypeInv, SafeInv, NEW w \in Workers, ClaimSelect(w)
    PROVE  SafeInv'
<1>0. /\ pc[w] \notin {"down", "recovering", "idle"} => cur[w] \in JobId /\ job[cur[w]] \in JobSpec
      /\ \A v \in Workers : v = w
  BY HeldJob DEF SingleWorker
<1>1. RowMatchesWorker'
  BY <1>0 DEF SafeInv, RowMatchesWorker, ClaimSelect, Claimable, Executing, TypeInv, TypeOK
<1>2. SnapshotFresh'
  BY <1>0 DEF SafeInv, SnapshotFresh, ClaimSelect, Claimable, Executing, TypeInv, TypeOK,
       RowMatchesWorker
<1>3. ApplyStatuses'
  BY <1>0 DEF SafeInv, ApplyStatuses, ClaimSelect, Claimable, TypeInv, TypeOK, RowMatchesWorker
<1>4. OneExecuting'
  BY <1>0 DEF SafeInv, OneExecuting, ClaimSelect, Claimable, Others, Row, Executing, Status,
       TypeInv, TypeOK, RowMatchesWorker
<1>5. UnresolvedHoldsTarget'
  BY <1>0 DEF SafeInv, UnresolvedHoldsTarget, ClaimSelect, Claimable, Others, Row, Executing,
       Status, Locked, Reconciles, TypeInv, TypeOK, RowMatchesWorker
<1>6. NoBlindRetry'
  BY <1>0 DEF SafeInv, NoBlindRetry, ClaimSelect, Claimable, TypeInv, TypeOK, RowMatchesWorker
<1>7. OneUnresolved'
  BY <1>0 DEF SafeInv, OneUnresolved, ClaimSelect, Claimable, Others, Row, Status, Reconciles,
       UnresolvedHoldsTarget, ApplyStatuses, TypeInv, TypeOK, RowMatchesWorker
<1> QED BY <1>1, <1>2, <1>3, <1>4, <1>5, <1>6, <1>7 DEF SafeInv

\* ClaimRollback keeps the safety invariant.
LEMMA ClaimRollbackSafe ==
    ASSUME SingleWorker, TypeInv, SafeInv, NEW w \in Workers, ClaimRollback(w)
    PROVE  SafeInv'
<1>0. /\ pc[w] \notin {"down", "recovering", "idle"} => cur[w] \in JobId /\ job[cur[w]] \in JobSpec
      /\ \A v \in Workers : v = w
  BY HeldJob DEF SingleWorker
<1>1. RowMatchesWorker'
  BY <1>0 DEF SafeInv, RowMatchesWorker, ClaimRollback, Executing, TypeInv, TypeOK
<1>2. SnapshotFresh'
  BY <1>0 DEF SafeInv, SnapshotFresh, ClaimRollback, Executing, TypeInv, TypeOK, RowMatchesWorker
<1>3. ApplyStatuses'
  BY <1>0 DEF SafeInv, ApplyStatuses, ClaimRollback, TypeInv, TypeOK, RowMatchesWorker
<1>4. OneExecuting'
  BY <1>0 DEF SafeInv, OneExecuting, ClaimRollback, Others, Row, Executing, Status, TypeInv,
       TypeOK, RowMatchesWorker
<1>5. UnresolvedHoldsTarget'
  BY <1>0 DEF SafeInv, UnresolvedHoldsTarget, ClaimRollback, Others, Row, Executing, Status,
       Locked, Reconciles, TypeInv, TypeOK, RowMatchesWorker
<1>6. NoBlindRetry'
  BY <1>0 DEF SafeInv, NoBlindRetry, ClaimRollback, TypeInv, TypeOK, RowMatchesWorker
<1>7. OneUnresolved'
  BY <1>0 DEF SafeInv, OneUnresolved, ClaimRollback, Others, Row, Status, Reconciles,
       UnresolvedHoldsTarget, ApplyStatuses, TypeInv, TypeOK, RowMatchesWorker
<1> QED BY <1>1, <1>2, <1>3, <1>4, <1>5, <1>6, <1>7 DEF SafeInv

\* PrecheckFails keeps the safety invariant.
LEMMA PrecheckFailsSafe ==
    ASSUME SingleWorker, TypeInv, SafeInv, NEW w \in Workers, PrecheckFails(w)
    PROVE  SafeInv'
<1>0. /\ pc[w] \notin {"down", "recovering", "idle"} => cur[w] \in JobId /\ job[cur[w]] \in JobSpec
      /\ \A v \in Workers : v = w
  BY HeldJob DEF SingleWorker
<1>1. RowMatchesWorker'
  BY <1>0 DEF SafeInv, RowMatchesWorker, PrecheckFails, Return, Executing, TypeInv, TypeOK
<1>2. SnapshotFresh'
  BY <1>0 DEF SafeInv, SnapshotFresh, PrecheckFails, Return, Executing, TypeInv, TypeOK,
       RowMatchesWorker
<1>3. ApplyStatuses'
  BY <1>0 DEF SafeInv, ApplyStatuses, PrecheckFails, Return, TypeInv, TypeOK, RowMatchesWorker
<1>4. OneExecuting'
  BY <1>0 DEF SafeInv, OneExecuting, PrecheckFails, Return, Others, Row, Executing, Status,
       TypeInv, TypeOK, RowMatchesWorker
<1>5. UnresolvedHoldsTarget'
  BY <1>0 DEF SafeInv, UnresolvedHoldsTarget, PrecheckFails, Return, Others, Row, Executing,
       Status, Locked, Reconciles, TypeInv, TypeOK, RowMatchesWorker
<1>6. NoBlindRetry'
  BY <1>0 DEF SafeInv, NoBlindRetry, PrecheckFails, Return, TypeInv, TypeOK, RowMatchesWorker
<1>7. OneUnresolved'
  BY <1>0 DEF SafeInv, OneUnresolved, PrecheckFails, Return, Others, Row, Status, Reconciles,
       UnresolvedHoldsTarget, ApplyStatuses, TypeInv, TypeOK, RowMatchesWorker
<1> QED BY <1>1, <1>2, <1>3, <1>4, <1>5, <1>6, <1>7 DEF SafeInv

\* MarkPlannedError keeps the safety invariant.
LEMMA MarkPlannedErrorSafe ==
    ASSUME SingleWorker, TypeInv, SafeInv, NEW w \in Workers, MarkPlannedError(w)
    PROVE  SafeInv'
<1>0. /\ pc[w] \notin {"down", "recovering", "idle"} => cur[w] \in JobId /\ job[cur[w]] \in JobSpec
      /\ \A v \in Workers : v = w
  BY HeldJob DEF SingleWorker
<1>1. RowMatchesWorker'
  BY <1>0 DEF SafeInv, RowMatchesWorker, MarkPlannedError, Return, UpdateFails, Executing,
       TypeInv, TypeOK
<1>2. SnapshotFresh'
  BY <1>0 DEF SafeInv, SnapshotFresh, MarkPlannedError, Return, UpdateFails, Executing, TypeInv,
       TypeOK, RowMatchesWorker
<1>3. ApplyStatuses'
  BY <1>0 DEF SafeInv, ApplyStatuses, MarkPlannedError, Return, UpdateFails, TypeInv, TypeOK,
       RowMatchesWorker
<1>4. OneExecuting'
  BY <1>0 DEF SafeInv, OneExecuting, MarkPlannedError, Return, UpdateFails, Others, Row,
       Executing, Status, TypeInv, TypeOK, RowMatchesWorker
<1>5. UnresolvedHoldsTarget'
  BY <1>0 DEF SafeInv, UnresolvedHoldsTarget, MarkPlannedError, Return, UpdateFails, Others, Row,
       Executing, Status, Locked, Reconciles, TypeInv, TypeOK, RowMatchesWorker
<1>6. NoBlindRetry'
  BY <1>0 DEF SafeInv, NoBlindRetry, MarkPlannedError, Return, UpdateFails, TypeInv, TypeOK,
       RowMatchesWorker
<1>7. OneUnresolved'
  BY <1>0 DEF SafeInv, OneUnresolved, MarkPlannedError, Return, UpdateFails, Others, Row, Status,
       Reconciles, UnresolvedHoldsTarget, ApplyStatuses, TypeInv, TypeOK, RowMatchesWorker
<1> QED BY <1>1, <1>2, <1>3, <1>4, <1>5, <1>6, <1>7 DEF SafeInv

\* PrepareInvocation keeps the safety invariant.
LEMMA PrepareInvocationSafe ==
    ASSUME SingleWorker, TypeInv, SafeInv, NEW w \in Workers, PrepareInvocation(w)
    PROVE  SafeInv'
<1>0. /\ pc[w] \notin {"down", "recovering", "idle"} => cur[w] \in JobId /\ job[cur[w]] \in JobSpec
      /\ \A v \in Workers : v = w
  BY HeldJob DEF SingleWorker
<1>1. RowMatchesWorker'
  BY <1>0 DEF SafeInv, RowMatchesWorker, PrepareInvocation, SourceAccepted, CanBeReconciled,
       Executing, TypeInv, TypeOK
<1>2. SnapshotFresh'
  BY <1>0 DEF SafeInv, SnapshotFresh, PrepareInvocation, SourceAccepted, CanBeReconciled,
       Executing, TypeInv, TypeOK, RowMatchesWorker
<1>3. ApplyStatuses'
  BY <1>0 DEF SafeInv, ApplyStatuses, PrepareInvocation, SourceAccepted, CanBeReconciled, TypeInv,
       TypeOK, RowMatchesWorker
<1>4. OneExecuting'
  BY <1>0 DEF SafeInv, OneExecuting, PrepareInvocation, SourceAccepted, CanBeReconciled, Others,
       Row, Executing, Status, TypeInv, TypeOK, RowMatchesWorker
<1>5. UnresolvedHoldsTarget'
  BY <1>0 DEF SafeInv, UnresolvedHoldsTarget, PrepareInvocation, SourceAccepted, CanBeReconciled,
       Others, Row, Executing, Status, Locked, Reconciles, TypeInv, TypeOK, RowMatchesWorker
<1>6. NoBlindRetry'
  BY <1>0 DEF SafeInv, NoBlindRetry, PrepareInvocation, SourceAccepted, CanBeReconciled, TypeInv,
       TypeOK, RowMatchesWorker
<1>7. OneUnresolved'
  BY <1>0 DEF SafeInv, OneUnresolved, PrepareInvocation, SourceAccepted, CanBeReconciled, Others,
       Row, Status, Reconciles, UnresolvedHoldsTarget, ApplyStatuses, TypeInv, TypeOK,
       RowMatchesWorker
<1> QED BY <1>1, <1>2, <1>3, <1>4, <1>5, <1>6, <1>7 DEF SafeInv

\* PrepareFails keeps the safety invariant.
LEMMA PrepareFailsSafe ==
    ASSUME SingleWorker, TypeInv, SafeInv, NEW w \in Workers, PrepareFails(w)
    PROVE  SafeInv'
<1>0. /\ pc[w] \notin {"down", "recovering", "idle"} => cur[w] \in JobId /\ job[cur[w]] \in JobSpec
      /\ \A v \in Workers : v = w
  BY HeldJob DEF SingleWorker
<1>1. RowMatchesWorker'
  BY <1>0 DEF SafeInv, RowMatchesWorker, PrepareFails, Return, Executing, TypeInv, TypeOK
<1>2. SnapshotFresh'
  BY <1>0 DEF SafeInv, SnapshotFresh, PrepareFails, Return, Executing, TypeInv, TypeOK,
       RowMatchesWorker
<1>3. ApplyStatuses'
  BY <1>0 DEF SafeInv, ApplyStatuses, PrepareFails, Return, TypeInv, TypeOK, RowMatchesWorker
<1>4. OneExecuting'
  BY <1>0 DEF SafeInv, OneExecuting, PrepareFails, Return, Others, Row, Executing, Status,
       TypeInv, TypeOK, RowMatchesWorker
<1>5. UnresolvedHoldsTarget'
  BY <1>0 DEF SafeInv, UnresolvedHoldsTarget, PrepareFails, Return, Others, Row, Executing,
       Status, Locked, Reconciles, TypeInv, TypeOK, RowMatchesWorker
<1>6. NoBlindRetry'
  BY <1>0 DEF SafeInv, NoBlindRetry, PrepareFails, Return, TypeInv, TypeOK, RowMatchesWorker
<1>7. OneUnresolved'
  BY <1>0 DEF SafeInv, OneUnresolved, PrepareFails, Return, Others, Row, Status, Reconciles,
       UnresolvedHoldsTarget, ApplyStatuses, TypeInv, TypeOK, RowMatchesWorker
<1> QED BY <1>1, <1>2, <1>3, <1>4, <1>5, <1>6, <1>7 DEF SafeInv

\* MarkApplyingError keeps the safety invariant.
LEMMA MarkApplyingErrorSafe ==
    ASSUME SingleWorker, TypeInv, SafeInv, NEW w \in Workers, MarkApplyingError(w)
    PROVE  SafeInv'
<1>0. /\ pc[w] \notin {"down", "recovering", "idle"} => cur[w] \in JobId /\ job[cur[w]] \in JobSpec
      /\ \A v \in Workers : v = w
  BY HeldJob DEF SingleWorker
<1>1. RowMatchesWorker'
  BY <1>0 DEF SafeInv, RowMatchesWorker, MarkApplyingError, Return, UpdateFails, Executing,
       TypeInv, TypeOK
<1>2. SnapshotFresh'
  BY <1>0 DEF SafeInv, SnapshotFresh, MarkApplyingError, Return, UpdateFails, Executing, TypeInv,
       TypeOK, RowMatchesWorker
<1>3. ApplyStatuses'
  BY <1>0 DEF SafeInv, ApplyStatuses, MarkApplyingError, Return, UpdateFails, TypeInv, TypeOK,
       RowMatchesWorker
<1>4. OneExecuting'
  BY <1>0 DEF SafeInv, OneExecuting, MarkApplyingError, Return, UpdateFails, Others, Row,
       Executing, Status, TypeInv, TypeOK, RowMatchesWorker
<1>5. UnresolvedHoldsTarget'
  BY <1>0 DEF SafeInv, UnresolvedHoldsTarget, MarkApplyingError, Return, UpdateFails, Others, Row,
       Executing, Status, Locked, Reconciles, TypeInv, TypeOK, RowMatchesWorker
<1>6. NoBlindRetry'
  BY <1>0 DEF SafeInv, NoBlindRetry, MarkApplyingError, Return, UpdateFails, TypeInv, TypeOK,
       RowMatchesWorker
<1>7. OneUnresolved'
  BY <1>0 DEF SafeInv, OneUnresolved, MarkApplyingError, Return, UpdateFails, Others, Row, Status,
       Reconciles, UnresolvedHoldsTarget, ApplyStatuses, TypeInv, TypeOK, RowMatchesWorker
<1> QED BY <1>1, <1>2, <1>3, <1>4, <1>5, <1>6, <1>7 DEF SafeInv

\* SpawnPlaybook keeps the safety invariant.
LEMMA SpawnPlaybookSafe ==
    ASSUME SingleWorker, TypeInv, SafeInv, NEW w \in Workers, SpawnPlaybook(w)
    PROVE  SafeInv'
<1>0. /\ pc[w] \notin {"down", "recovering", "idle"} => cur[w] \in JobId /\ job[cur[w]] \in JobSpec
      /\ \A v \in Workers : v = w
  BY HeldJob DEF SingleWorker
<1>1. RowMatchesWorker'
  BY <1>0 DEF SafeInv, RowMatchesWorker, SpawnPlaybook, ReadyToSpawn, Executing, ApplyStatuses,
       TypeInv, TypeOK
<1>2. SnapshotFresh'
  BY <1>0 DEF SafeInv, SnapshotFresh, SpawnPlaybook, ReadyToSpawn, Executing, TypeInv, TypeOK,
       RowMatchesWorker
<1>3. ApplyStatuses'
  BY <1>0 DEF SafeInv, ApplyStatuses, SpawnPlaybook, ReadyToSpawn, TypeInv, TypeOK,
       RowMatchesWorker
<1>4. OneExecuting'
  BY <1>0 DEF SafeInv, OneExecuting, SpawnPlaybook, ReadyToSpawn, Others, Row, Executing, Status,
       TypeInv, TypeOK, RowMatchesWorker
<1>5. UnresolvedHoldsTarget'
  BY <1>0 DEF SafeInv, UnresolvedHoldsTarget, SpawnPlaybook, ReadyToSpawn, Others, Row, Executing,
       Status, Locked, Reconciles, TypeInv, TypeOK, RowMatchesWorker
<1>6. NoBlindRetry'
  BY <1>0 DEF SafeInv, NoBlindRetry, SpawnPlaybook, ReadyToSpawn, TypeInv, TypeOK,
       RowMatchesWorker
<1>7. OneUnresolved'
  BY <1>0 DEF SafeInv, OneUnresolved, SpawnPlaybook, ReadyToSpawn, Others, Row, Status,
       Reconciles, UnresolvedHoldsTarget, ApplyStatuses, TypeInv, TypeOK, RowMatchesWorker
<1> QED BY <1>1, <1>2, <1>3, <1>4, <1>5, <1>6, <1>7 DEF SafeInv

\* SpawnFails keeps the safety invariant.
LEMMA SpawnFailsSafe ==
    ASSUME SingleWorker, TypeInv, SafeInv, NEW w \in Workers, SpawnFails(w)
    PROVE  SafeInv'
<1>0. /\ pc[w] \notin {"down", "recovering", "idle"} => cur[w] \in JobId /\ job[cur[w]] \in JobSpec
      /\ \A v \in Workers : v = w
  BY HeldJob DEF SingleWorker
<1>1. RowMatchesWorker'
  BY <1>0 DEF SafeInv, RowMatchesWorker, SpawnFails, ReadyToSpawn, Return, Executing, TypeInv,
       TypeOK
<1>2. SnapshotFresh'
  BY <1>0 DEF SafeInv, SnapshotFresh, SpawnFails, ReadyToSpawn, Return, Executing, TypeInv,
       TypeOK, RowMatchesWorker
<1>3. ApplyStatuses'
  BY <1>0 DEF SafeInv, ApplyStatuses, SpawnFails, ReadyToSpawn, Return, TypeInv, TypeOK,
       RowMatchesWorker
<1>4. OneExecuting'
  BY <1>0 DEF SafeInv, OneExecuting, SpawnFails, ReadyToSpawn, Return, Others, Row, Executing,
       Status, TypeInv, TypeOK, RowMatchesWorker
<1>5. UnresolvedHoldsTarget'
  BY <1>0 DEF SafeInv, UnresolvedHoldsTarget, SpawnFails, ReadyToSpawn, Return, Others, Row,
       Executing, Status, Locked, Reconciles, TypeInv, TypeOK, RowMatchesWorker
<1>6. NoBlindRetry'
  BY <1>0 DEF SafeInv, NoBlindRetry, SpawnFails, ReadyToSpawn, Return, TypeInv, TypeOK,
       RowMatchesWorker
<1>7. OneUnresolved'
  BY <1>0 DEF SafeInv, OneUnresolved, SpawnFails, ReadyToSpawn, Return, Others, Row, Status,
       Reconciles, UnresolvedHoldsTarget, ApplyStatuses, TypeInv, TypeOK, RowMatchesWorker
<1> QED BY <1>1, <1>2, <1>3, <1>4, <1>5, <1>6, <1>7 DEF SafeInv

\* PlaybookExits keeps the safety invariant.
LEMMA PlaybookExitsSafe ==
    ASSUME SingleWorker, TypeInv, SafeInv, NEW w \in Workers, PlaybookExits(w)
    PROVE  SafeInv'
<1>0. /\ pc[w] \notin {"down", "recovering", "idle"} => cur[w] \in JobId /\ job[cur[w]] \in JobSpec
      /\ \A v \in Workers : v = w
  BY HeldJob DEF SingleWorker
<1>1. RowMatchesWorker'
  BY <1>0 DEF SafeInv, RowMatchesWorker, PlaybookExits, Return, Executing, TypeInv, TypeOK
<1>2. SnapshotFresh'
  BY <1>0 DEF SafeInv, SnapshotFresh, PlaybookExits, Return, Executing, TypeInv, TypeOK,
       RowMatchesWorker
<1>3. ApplyStatuses'
  BY <1>0 DEF SafeInv, ApplyStatuses, PlaybookExits, Return, TypeInv, TypeOK, RowMatchesWorker
<1>4. OneExecuting'
  BY <1>0 DEF SafeInv, OneExecuting, PlaybookExits, Return, Others, Row, Executing, Status,
       TypeInv, TypeOK, RowMatchesWorker
<1>5. UnresolvedHoldsTarget'
  BY <1>0 DEF SafeInv, UnresolvedHoldsTarget, PlaybookExits, Return, Others, Row, Executing,
       Status, Locked, Reconciles, TypeInv, TypeOK, RowMatchesWorker
<1>6. NoBlindRetry'
  BY <1>0 DEF SafeInv, NoBlindRetry, PlaybookExits, Return, TypeInv, TypeOK, RowMatchesWorker
<1>7. OneUnresolved'
  BY <1>0 DEF SafeInv, OneUnresolved, PlaybookExits, Return, Others, Row, Status, Reconciles,
       UnresolvedHoldsTarget, ApplyStatuses, TypeInv, TypeOK, RowMatchesWorker
<1> QED BY <1>1, <1>2, <1>3, <1>4, <1>5, <1>6, <1>7 DEF SafeInv

\* PlaybookTimesOut keeps the safety invariant.
LEMMA PlaybookTimesOutSafe ==
    ASSUME SingleWorker, TypeInv, SafeInv, NEW w \in Workers, PlaybookTimesOut(w)
    PROVE  SafeInv'
<1>0. /\ pc[w] \notin {"down", "recovering", "idle"} => cur[w] \in JobId /\ job[cur[w]] \in JobSpec
      /\ \A v \in Workers : v = w
  BY HeldJob DEF SingleWorker
<1>1. RowMatchesWorker'
  BY <1>0 DEF SafeInv, RowMatchesWorker, PlaybookTimesOut, Return, Executing, TypeInv, TypeOK
<1>2. SnapshotFresh'
  BY <1>0 DEF SafeInv, SnapshotFresh, PlaybookTimesOut, Return, Executing, TypeInv, TypeOK,
       RowMatchesWorker
<1>3. ApplyStatuses'
  BY <1>0 DEF SafeInv, ApplyStatuses, PlaybookTimesOut, Return, TypeInv, TypeOK, RowMatchesWorker
<1>4. OneExecuting'
  BY <1>0 DEF SafeInv, OneExecuting, PlaybookTimesOut, Return, Others, Row, Executing, Status,
       TypeInv, TypeOK, RowMatchesWorker
<1>5. UnresolvedHoldsTarget'
  BY <1>0 DEF SafeInv, UnresolvedHoldsTarget, PlaybookTimesOut, Return, Others, Row, Executing,
       Status, Locked, Reconciles, TypeInv, TypeOK, RowMatchesWorker
<1>6. NoBlindRetry'
  BY <1>0 DEF SafeInv, NoBlindRetry, PlaybookTimesOut, Return, TypeInv, TypeOK, RowMatchesWorker
<1>7. OneUnresolved'
  BY <1>0 DEF SafeInv, OneUnresolved, PlaybookTimesOut, Return, Others, Row, Status, Reconciles,
       UnresolvedHoldsTarget, ApplyStatuses, TypeInv, TypeOK, RowMatchesWorker
<1> QED BY <1>1, <1>2, <1>3, <1>4, <1>5, <1>6, <1>7 DEF SafeInv

\* FinalizeSourceError keeps the safety invariant.
LEMMA FinalizeSourceErrorSafe ==
    ASSUME SingleWorker, TypeInv, SafeInv, NEW w \in Workers, FinalizeSourceError(w)
    PROVE  SafeInv'
<1>0. /\ pc[w] \notin {"down", "recovering", "idle"} => cur[w] \in JobId /\ job[cur[w]] \in JobSpec
      /\ \A v \in Workers : v = w
  BY HeldJob DEF SingleWorker
<1>1. RowMatchesWorker'
  BY <1>0 DEF SafeInv, RowMatchesWorker, FinalizeSourceError, Return, Executing, TypeInv, TypeOK
<1>2. SnapshotFresh'
  BY <1>0 DEF SafeInv, SnapshotFresh, FinalizeSourceError, Return, Executing, TypeInv, TypeOK,
       RowMatchesWorker
<1>3. ApplyStatuses'
  BY <1>0 DEF SafeInv, ApplyStatuses, FinalizeSourceError, Return, TypeInv, TypeOK,
       RowMatchesWorker
<1>4. OneExecuting'
  BY <1>0 DEF SafeInv, OneExecuting, FinalizeSourceError, Return, Others, Row, Executing, Status,
       TypeInv, TypeOK, RowMatchesWorker
<1>5. UnresolvedHoldsTarget'
  BY <1>0 DEF SafeInv, UnresolvedHoldsTarget, FinalizeSourceError, Return, Others, Row, Executing,
       Status, Locked, Reconciles, TypeInv, TypeOK, RowMatchesWorker
<1>6. NoBlindRetry'
  BY <1>0 DEF SafeInv, NoBlindRetry, FinalizeSourceError, Return, TypeInv, TypeOK,
       RowMatchesWorker
<1>7. OneUnresolved'
  BY <1>0 DEF SafeInv, OneUnresolved, FinalizeSourceError, Return, Others, Row, Status,
       Reconciles, UnresolvedHoldsTarget, ApplyStatuses, TypeInv, TypeOK, RowMatchesWorker
<1> QED BY <1>1, <1>2, <1>3, <1>4, <1>5, <1>6, <1>7 DEF SafeInv

\* FinishError keeps the safety invariant.
LEMMA FinishErrorSafe ==
    ASSUME SingleWorker, TypeInv, SafeInv, NEW w \in Workers, FinishError(w)
    PROVE  SafeInv'
<1>0. /\ pc[w] \notin {"down", "recovering", "idle"} => cur[w] \in JobId /\ job[cur[w]] \in JobSpec
      /\ \A v \in Workers : v = w
  BY HeldJob DEF SingleWorker
<1>1. RowMatchesWorker'
  BY <1>0 DEF SafeInv, RowMatchesWorker, FinishError, Executing, TypeInv, TypeOK
<1>2. SnapshotFresh'
  BY <1>0 DEF SafeInv, SnapshotFresh, FinishError, Executing, TypeInv, TypeOK, RowMatchesWorker
<1>3. ApplyStatuses'
  BY <1>0 DEF SafeInv, ApplyStatuses, FinishError, TypeInv, TypeOK, RowMatchesWorker
<1>4. OneExecuting'
  BY <1>0 DEF SafeInv, OneExecuting, FinishError, Others, Row, Executing, Status, TypeInv, TypeOK,
       RowMatchesWorker
<1>5. UnresolvedHoldsTarget'
  BY <1>0 DEF SafeInv, UnresolvedHoldsTarget, FinishError, Others, Row, Executing, Status, Locked,
       Reconciles, TypeInv, TypeOK, RowMatchesWorker
<1>6. NoBlindRetry'
  BY <1>0 DEF SafeInv, NoBlindRetry, FinishError, TypeInv, TypeOK, RowMatchesWorker
<1>7. OneUnresolved'
  BY <1>0 DEF SafeInv, OneUnresolved, FinishError, Others, Row, Status, Reconciles,
       UnresolvedHoldsTarget, ApplyStatuses, TypeInv, TypeOK, RowMatchesWorker
<1> QED BY <1>1, <1>2, <1>3, <1>4, <1>5, <1>6, <1>7 DEF SafeInv

\* Crash keeps the safety invariant.
LEMMA CrashSafe ==
    ASSUME SingleWorker, TypeInv, SafeInv, NEW w \in Workers, Crash(w)
    PROVE  SafeInv'
<1>0. /\ pc[w] \notin {"down", "recovering", "idle"} => cur[w] \in JobId /\ job[cur[w]] \in JobSpec
      /\ \A v \in Workers : v = w
  BY HeldJob DEF SingleWorker
<1>1. RowMatchesWorker'
  BY <1>0 DEF SafeInv, RowMatchesWorker, Crash, Executing, TypeInv, TypeOK
<1>2. SnapshotFresh'
  BY <1>0 DEF SafeInv, SnapshotFresh, Crash, Executing, TypeInv, TypeOK, RowMatchesWorker
<1>3. ApplyStatuses'
  BY <1>0 DEF SafeInv, ApplyStatuses, Crash, TypeInv, TypeOK, RowMatchesWorker
<1>4. OneExecuting'
  BY <1>0 DEF SafeInv, OneExecuting, Crash, Others, Row, Executing, Status, TypeInv, TypeOK,
       RowMatchesWorker
<1>5. UnresolvedHoldsTarget'
  BY <1>0 DEF SafeInv, UnresolvedHoldsTarget, Crash, Others, Row, Executing, Status, Locked,
       Reconciles, TypeInv, TypeOK, RowMatchesWorker
<1>6. NoBlindRetry'
  BY <1>0 DEF SafeInv, NoBlindRetry, Crash, TypeInv, TypeOK, RowMatchesWorker
<1>7. OneUnresolved'
  BY <1>0 DEF SafeInv, OneUnresolved, Crash, Others, Row, Status, Reconciles,
       UnresolvedHoldsTarget, ApplyStatuses, TypeInv, TypeOK, RowMatchesWorker
<1> QED BY <1>1, <1>2, <1>3, <1>4, <1>5, <1>6, <1>7 DEF SafeInv

\* ClaimCommit keeps the safety invariant.
LEMMA ClaimCommitSafe ==
    ASSUME SingleWorker, TypeInv, SafeInv, NEW w \in Workers, ClaimCommit(w)
    PROVE  SafeInv'
<1>0. /\ pc[w] \notin {"down", "recovering", "idle"} => cur[w] \in JobId /\ job[cur[w]] \in JobSpec
      /\ \A v \in Workers : v = w
  BY HeldJob DEF SingleWorker
<1>1. RowMatchesWorker'
  BY <1>0 DEF SafeInv, RowMatchesWorker, ClaimCommit, IndexAllows, Executing, TypeInv, TypeOK
<1>2. SnapshotFresh'
  BY <1>0 DEF SafeInv, SnapshotFresh, ClaimCommit, IndexAllows, Executing, TypeInv, TypeOK,
       RowMatchesWorker
<1>3. ApplyStatuses'
  BY <1>0 DEF SafeInv, ApplyStatuses, ClaimCommit, IndexAllows, TypeInv, TypeOK, RowMatchesWorker
<1>4. OneExecuting'
  BY <1>0 DEF SafeInv, OneExecuting, ClaimCommit, IndexAllows, Others, Row, Executing, Status,
       TypeInv, TypeOK, RowMatchesWorker
<1>5. UnresolvedHoldsTarget'
  BY <1>0 DEF SafeInv, UnresolvedHoldsTarget, ClaimCommit, IndexAllows, Others, Row, Executing,
       Status, Locked, Reconciles, TypeInv, TypeOK, RowMatchesWorker
<1>6. NoBlindRetry'
  BY <1>0 DEF SafeInv, NoBlindRetry, ClaimCommit, IndexAllows, TypeInv, TypeOK, RowMatchesWorker
<1>7. OneUnresolved'
  BY <1>0 DEF SafeInv, OneUnresolved, ClaimCommit, IndexAllows, Others, Row, Status, Reconciles,
       UnresolvedHoldsTarget, ApplyStatuses, TypeInv, TypeOK, RowMatchesWorker
<1> QED BY <1>1, <1>2, <1>3, <1>4, <1>5, <1>6, <1>7 DEF SafeInv

\* ClaimLost keeps the safety invariant.
LEMMA ClaimLostSafe ==
    ASSUME SingleWorker, TypeInv, SafeInv, NEW w \in Workers, ClaimLost(w)
    PROVE  SafeInv'
<1>0. /\ pc[w] \notin {"down", "recovering", "idle"} => cur[w] \in JobId /\ job[cur[w]] \in JobSpec
      /\ \A v \in Workers : v = w
  BY HeldJob DEF SingleWorker
<1>1. RowMatchesWorker'
  BY <1>0 DEF SafeInv, RowMatchesWorker, ClaimLost, IndexAllows, Executing, TypeInv, TypeOK
<1>2. SnapshotFresh'
  BY <1>0 DEF SafeInv, SnapshotFresh, ClaimLost, IndexAllows, Executing, TypeInv, TypeOK,
       RowMatchesWorker
<1>3. ApplyStatuses'
  BY <1>0 DEF SafeInv, ApplyStatuses, ClaimLost, IndexAllows, TypeInv, TypeOK, RowMatchesWorker
<1>4. OneExecuting'
  BY <1>0 DEF SafeInv, OneExecuting, ClaimLost, IndexAllows, Others, Row, Executing, Status,
       TypeInv, TypeOK, RowMatchesWorker
<1>5. UnresolvedHoldsTarget'
  BY <1>0 DEF SafeInv, UnresolvedHoldsTarget, ClaimLost, IndexAllows, Others, Row, Executing,
       Status, Locked, Reconciles, TypeInv, TypeOK, RowMatchesWorker
<1>6. NoBlindRetry'
  BY <1>0 DEF SafeInv, NoBlindRetry, ClaimLost, IndexAllows, TypeInv, TypeOK, RowMatchesWorker
<1>7. OneUnresolved'
  BY <1>0 DEF SafeInv, OneUnresolved, ClaimLost, IndexAllows, Others, Row, Status, Reconciles,
       UnresolvedHoldsTarget, ApplyStatuses, TypeInv, TypeOK, RowMatchesWorker
<1> QED BY <1>1, <1>2, <1>3, <1>4, <1>5, <1>6, <1>7 DEF SafeInv

\* MarkPlanned keeps the safety invariant.
LEMMA MarkPlannedSafe ==
    ASSUME SingleWorker, TypeInv, SafeInv, NEW w \in Workers, MarkPlanned(w)
    PROVE  SafeInv'
<1>0. /\ pc[w] \notin {"down", "recovering", "idle"} => cur[w] \in JobId /\ job[cur[w]] \in JobSpec
      /\ \A v \in Workers : v = w
  BY HeldJob DEF SingleWorker
<1>1. RowMatchesWorker'
  BY <1>0 DEF SafeInv, RowMatchesWorker, MarkPlanned, Update, IndexAllows, Executing, TypeInv,
       TypeOK
<1>2. SnapshotFresh'
  BY <1>0 DEF SafeInv, SnapshotFresh, MarkPlanned, Update, IndexAllows, Executing, TypeInv,
       TypeOK, RowMatchesWorker
<1>3. ApplyStatuses'
  BY <1>0 DEF SafeInv, ApplyStatuses, MarkPlanned, Update, IndexAllows, TypeInv, TypeOK,
       RowMatchesWorker
<1>4. OneExecuting'
  BY <1>0 DEF SafeInv, OneExecuting, MarkPlanned, Update, IndexAllows, Others, Row, Executing,
       Status, TypeInv, TypeOK, RowMatchesWorker
<1>5. UnresolvedHoldsTarget'
  BY <1>0 DEF SafeInv, UnresolvedHoldsTarget, MarkPlanned, Update, IndexAllows, Others, Row,
       Executing, Status, Locked, Reconciles, TypeInv, TypeOK, RowMatchesWorker
<1>6. NoBlindRetry'
  BY <1>0 DEF SafeInv, NoBlindRetry, MarkPlanned, Update, IndexAllows, TypeInv, TypeOK,
       RowMatchesWorker
<1>7. OneUnresolved'
  BY <1>0 DEF SafeInv, OneUnresolved, MarkPlanned, Update, IndexAllows, Others, Row, Status,
       Reconciles, UnresolvedHoldsTarget, ApplyStatuses, TypeInv, TypeOK, RowMatchesWorker
<1> QED BY <1>1, <1>2, <1>3, <1>4, <1>5, <1>6, <1>7 DEF SafeInv

\* MarkApplying keeps the safety invariant.
LEMMA MarkApplyingSafe ==
    ASSUME SingleWorker, TypeInv, SafeInv, NEW w \in Workers, MarkApplying(w)
    PROVE  SafeInv'
<1>0. /\ pc[w] \notin {"down", "recovering", "idle"} => cur[w] \in JobId /\ job[cur[w]] \in JobSpec
      /\ \A v \in Workers : v = w
  BY HeldJob DEF SingleWorker
<1>1. RowMatchesWorker'
  BY <1>0 DEF SafeInv, RowMatchesWorker, MarkApplying, Update, IndexAllows, Executing, TypeInv,
       TypeOK
<1>2. SnapshotFresh'
  BY <1>0 DEF SafeInv, SnapshotFresh, MarkApplying, Update, IndexAllows, Executing, TypeInv,
       TypeOK, RowMatchesWorker
<1>3. ApplyStatuses'
  BY <1>0 DEF SafeInv, ApplyStatuses, MarkApplying, Update, IndexAllows, TypeInv, TypeOK,
       RowMatchesWorker
<1>4. OneExecuting'
  BY <1>0 DEF SafeInv, OneExecuting, MarkApplying, Update, IndexAllows, Others, Row, Executing,
       Status, TypeInv, TypeOK, RowMatchesWorker
<1>5. UnresolvedHoldsTarget'
  BY <1>0 DEF SafeInv, UnresolvedHoldsTarget, MarkApplying, Update, IndexAllows, Others, Row,
       Executing, Status, Locked, Reconciles, TypeInv, TypeOK, RowMatchesWorker
<1>6. NoBlindRetry'
  BY <1>0 DEF SafeInv, NoBlindRetry, MarkApplying, Update, IndexAllows, TypeInv, TypeOK,
       RowMatchesWorker
<1>7. OneUnresolved'
  BY <1>0 DEF SafeInv, OneUnresolved, MarkApplying, Update, IndexAllows, Others, Row, Status,
       Reconciles, UnresolvedHoldsTarget, ApplyStatuses, TypeInv, TypeOK, RowMatchesWorker
<1> QED BY <1>1, <1>2, <1>3, <1>4, <1>5, <1>6, <1>7 DEF SafeInv

\* Finish keeps the safety invariant.
LEMMA FinishSafe ==
    ASSUME SingleWorker, TypeInv, SafeInv, NEW w \in Workers, Finish(w)
    PROVE  SafeInv'
<1>0. /\ pc[w] \notin {"down", "recovering", "idle"} => cur[w] \in JobId /\ job[cur[w]] \in JobSpec
      /\ \A v \in Workers : v = w
  BY HeldJob DEF SingleWorker
<1>1. RowMatchesWorker'
  BY <1>0 DEF SafeInv, RowMatchesWorker, Finish, Update, FinalStatus, Status, Executing, TypeInv,
       TypeOK
<1>2. SnapshotFresh'
  BY <1>0 DEF SafeInv, SnapshotFresh, Finish, Update, FinalStatus, Status, Executing, TypeInv,
       TypeOK, RowMatchesWorker
<1>3. ApplyStatuses'
  BY <1>0 DEF SafeInv, ApplyStatuses, Finish, Update, FinalStatus, Status, TypeInv, TypeOK,
       RowMatchesWorker
<1>4. OneExecuting'
  BY <1>0 DEF SafeInv, OneExecuting, Finish, Update, FinalStatus, Status, Others, Row, Executing,
       TypeInv, TypeOK, RowMatchesWorker
<1>5. UnresolvedHoldsTarget'
  BY <1>0 DEF SafeInv, UnresolvedHoldsTarget, Finish, Update, FinalStatus, Status, Others, Row,
       Executing, Locked, Reconciles, OneExecuting, ApplyStatuses, TypeInv, TypeOK,
       RowMatchesWorker
<1>6. NoBlindRetry'
  <2> SUFFICES ASSUME NEW j \in touched' PROVE status'[j] \in {"applying", "reconcile_required"}
    BY DEF NoBlindRetry
  <2>1. j \in touched /\ j \in JobId /\ status[j] \in {"applying", "reconcile_required"}
    BY <1>0 DEF Finish, SafeInv, NoBlindRetry, TypeInv, TypeOK
  <2>2. CASE j # cur[w]
    BY <1>0, <2>1, <2>2 DEF Finish, Update, TypeInv, TypeOK
  <2>3. CASE j = cur[w]
    <3>1. ~ok[w]
      BY <1>0, <2>3 DEF Finish
    <3>2. st[w] = "applying" /\ job[cur[w]].mode = "apply"
      BY <1>0, <2>1, <2>3 DEF Finish, SafeInv, RowMatchesWorker, ApplyStatuses, Executing
    <3> QED BY <1>0, <2>1, <2>3, <3>1, <3>2 DEF Finish, Update, FinalStatus, TypeInv, TypeOK
  <2> QED BY <2>2, <2>3
<1>7. OneUnresolved'
  BY <1>0 DEF SafeInv, OneUnresolved, Finish, Update, FinalStatus, Status, Others, Row,
       Reconciles, UnresolvedHoldsTarget, ApplyStatuses, TypeInv, TypeOK, RowMatchesWorker
<1> QED BY <1>1, <1>2, <1>3, <1>4, <1>5, <1>6, <1>7 DEF SafeInv

\* RecoverJob keeps the safety invariant.
LEMMA RecoverJobSafe ==
    ASSUME SingleWorker, TypeInv, SafeInv, NEW w \in Workers, RecoverJob(w)
    PROVE  SafeInv'
<1>0. /\ pc[w] \notin {"down", "recovering", "idle"} => cur[w] \in JobId /\ job[cur[w]] \in JobSpec
      /\ \A v \in Workers : v = w
  BY HeldJob DEF SingleWorker
<1> PICK e \in todo[w] : Update(e[1], RecoveredStatus(e[2])) /\ todo' = [todo EXCEPT ![w] = @ \ {e}]
  BY DEF RecoverJob
<1> DEFINE k == e[1]
<1>a. pc[w] = "recovering" /\ UNCHANGED <<job, pc, cur, st, ok, touched>>
  BY DEF RecoverJob
<1>b. \A d \in todo[w] : d[1] \in JobId /\ d[2] \in Executing /\ d[2] = status[d[1]] /\ d = <<d[1], d[2]>>
  BY DEF SafeInv, SnapshotFresh, TypeInv, TypeOK
<1>c. status' = [status EXCEPT ![k] = IF status[k] = "applying" THEN "reconcile_required" ELSE "failed"]
  BY <1>b DEF Update, RecoveredStatus
<1>d. \A d \in todo'[w] : d \in todo[w] /\ d[1] # k
  <2> SUFFICES ASSUME NEW d \in todo'[w] PROVE d \in todo[w] /\ d[1] # k
    OBVIOUS
  <2>1. d \in todo[w] /\ d # e
    BY DEF TypeInv, TypeOK
  <2> QED BY <2>1, <1>b
<1>r. /\ k \in JobId /\ status[k] \in Executing
      /\ todo' \in [Workers -> SUBSET (JobId \X Executing)]
  BY <1>b DEF TypeInv, TypeOK
<1> HIDE DEF k
<1>1. RowMatchesWorker'
  BY <1>0, <1>a, <1>b, <1>c, <1>d, <1>r DEF SafeInv, RowMatchesWorker, Executing, TypeInv, TypeOK
<1>2. SnapshotFresh'
  BY <1>0, <1>a, <1>b, <1>c, <1>d, <1>r DEF SafeInv, SnapshotFresh, Executing, TypeInv, TypeOK,
       RowMatchesWorker
<1>3. ApplyStatuses'
  BY <1>0, <1>a, <1>b, <1>c, <1>d, <1>r DEF SafeInv, ApplyStatuses, TypeInv, TypeOK,
       RowMatchesWorker
<1>4. OneExecuting'
  BY <1>0, <1>a, <1>b, <1>c, <1>d, <1>r DEF SafeInv, OneExecuting, Others, Row, Executing, Status,
       TypeInv, TypeOK, RowMatchesWorker
<1>5. UnresolvedHoldsTarget'
  BY <1>0, <1>a, <1>b, <1>c, <1>d, <1>r DEF SafeInv, UnresolvedHoldsTarget, Others, Row,
       Executing, Status, Locked, Reconciles, OneExecuting, TypeInv, TypeOK, RowMatchesWorker
<1>6. NoBlindRetry'
  <2> SUFFICES ASSUME NEW j \in touched' PROVE status'[j] \in {"applying", "reconcile_required"}
    BY DEF NoBlindRetry
  <2>1. j \in touched /\ j \in JobId /\ status[j] \in {"applying", "reconcile_required"}
    BY <1>0, <1>a, <1>b, <1>c, <1>d, <1>r DEF RecoverJob, SafeInv, NoBlindRetry, TypeInv, TypeOK
  <2>2. CASE j # k
    BY <1>0, <1>a, <1>b, <1>c, <1>d, <1>r, <2>1, <2>2 DEF RecoverJob, Update, TypeInv, TypeOK
  <2>3. CASE j = k
    BY <1>c, <1>r, <2>1, <2>3 DEF Executing, TypeInv, TypeOK
  <2> QED BY <2>2, <2>3
<1>7. OneUnresolved'
  BY <1>0, <1>a, <1>b, <1>c, <1>d, <1>r DEF SafeInv, OneUnresolved, Others, Row, Status,
       Reconciles, UnresolvedHoldsTarget, ApplyStatuses, TypeInv, TypeOK, RowMatchesWorker
<1> QED BY <1>1, <1>2, <1>3, <1>4, <1>5, <1>6, <1>7 DEF SafeInv

\* FinalizeSource keeps the safety invariant.
LEMMA FinalizeSourceSafe ==
    ASSUME SingleWorker, TypeInv, SafeInv, NEW w \in Workers, FinalizeSource(w)
    PROVE  SafeInv'
<1>0. /\ pc[w] \notin {"down", "recovering", "idle"} => cur[w] \in JobId /\ job[cur[w]] \in JobSpec
      /\ \A v \in Workers : v = w
  BY HeldJob DEF SingleWorker
<1>1. RowMatchesWorker'
  BY <1>0 DEF SafeInv, RowMatchesWorker, FinalizeSource, Update, Return, Executing, TypeInv,
       TypeOK
<1>2. SnapshotFresh'
  BY <1>0 DEF SafeInv, SnapshotFresh, FinalizeSource, Update, Return, Executing, TypeInv, TypeOK,
       RowMatchesWorker
<1>3. ApplyStatuses'
  BY <1>0 DEF SafeInv, ApplyStatuses, FinalizeSource, Update, Return, TypeInv, TypeOK,
       RowMatchesWorker
<1>4. OneExecuting'
  BY <1>0 DEF SafeInv, OneExecuting, FinalizeSource, Update, Return, Others, Row, Executing,
       Status, TypeInv, TypeOK, RowMatchesWorker
<1>5. UnresolvedHoldsTarget'
  BY <1>0 DEF SafeInv, UnresolvedHoldsTarget, FinalizeSource, Update, Return, Others, Row,
       Executing, Status, Locked, Reconciles, TypeInv, TypeOK, RowMatchesWorker
<1>6. NoBlindRetry'
  BY <1>0 DEF SafeInv, NoBlindRetry, FinalizeSource, Update, Return, TypeInv, TypeOK,
       RowMatchesWorker
<1>7. OneUnresolved'
  BY <1>0 DEF SafeInv, OneUnresolved, FinalizeSource, Update, Return, Others, Row, Status,
       Reconciles, UnresolvedHoldsTarget, ApplyStatuses, TypeInv, TypeOK, RowMatchesWorker
<1> QED BY <1>1, <1>2, <1>3, <1>4, <1>5, <1>6, <1>7 DEF SafeInv

\* A step of the controller moves one id and no worker: it registers it,
\* inserts it, gives it up or queues a failed job again.
QuietStep ==
    /\ UNCHANGED <<pc, cur, st, ok, todo, touched>>
    /\ \E x \in JobId :
          /\ status[x] \in {"none", "pending", "rejected", "failed"}
          /\ status'[x] \in {"pending", "rejected", "queued"}
          /\ \A k \in JobId \ {x} : status'[k] = status[k] /\ job'[k] = job[k]
          /\ status[x] # "none" => job'[x] = job[x]

\* Quiet keeps the safety invariant.
LEMMA QuietSafe ==
    ASSUME TypeInv, SafeInv, QuietStep
    PROVE  SafeInv'
<1> PICK x \in JobId :
       /\ status[x] \in {"none", "pending", "rejected", "failed"}
       /\ status'[x] \in {"pending", "rejected", "queued"}
       /\ \A k \in JobId \ {x} : status'[k] = status[k] /\ job'[k] = job[k]
       /\ status[x] # "none" => job'[x] = job[x]
  BY DEF QuietStep
<1>0. UNCHANGED <<pc, cur, st, ok, todo, touched>>
  BY DEF QuietStep
<1>1. RowMatchesWorker'
  <2> SUFFICES ASSUME NEW w \in Workers
               PROVE  (RowMatchesWorker!(w))'
    BY DEF RowMatchesWorker
  <2>1. CASE pc[w] \in {"down", "recovering", "idle"}
    BY <1>0, <2>1
  <2>2. CASE pc[w] \notin {"down", "recovering", "idle"}
    <3>1. cur[w] \in JobId /\ job[cur[w]] \in JobSpec
      BY <2>2, HeldJob
    <3>2. status[cur[w]] \in Executing \cup {"queued"}
      BY <2>2, <3>1 DEF SafeInv, RowMatchesWorker, Executing, TypeInv, TypeOK, Pc
    <3>3. status'[cur[w]] = status[cur[w]] /\ job'[cur[w]] = job[cur[w]]
      BY <3>1, <3>2 DEF Executing
    <3> QED BY <1>0, <3>1, <3>3 DEF SafeInv, RowMatchesWorker
  <2> QED BY <2>1, <2>2
<1>2. SnapshotFresh'
  BY <1>0 DEF SafeInv, SnapshotFresh, TypeInv, TypeOK, Executing
<1>3. ApplyStatuses'
  BY DEF SafeInv, ApplyStatuses
<1>4. OneExecuting'
  BY DEF SafeInv, OneExecuting, Others, Row, Executing, Status
<1>5. UnresolvedHoldsTarget'
  <2> SUFFICES ASSUME NEW j \in JobId, status'[j] \in Executing \/ Locked(j)',
                      NEW u \in Others(j, {"reconcile_required"})'
               PROVE  Reconciles(j, u)'
    BY DEF UnresolvedHoldsTarget
  <2>1. status[j] \in Executing \/ Locked(j)
    BY <1>0 DEF Locked, Executing
  <2>2. j # x
    BY <1>0, <2>1 DEF Locked, Executing, SafeInv, RowMatchesWorker
  <2>3. u \in Others(j, {"reconcile_required"})
    BY <2>2 DEF Others, Row, Status
  <2> QED BY <2>1, <2>2, <2>3 DEF SafeInv, UnresolvedHoldsTarget, Reconciles
<1>6. NoBlindRetry'
  BY <1>0 DEF SafeInv, NoBlindRetry, TypeInv, TypeOK
<1>7. OneUnresolved'
  BY DEF SafeInv, OneUnresolved, Others, Row, Status
<1> QED BY <1>1, <1>2, <1>3, <1>4, <1>5, <1>6, <1>7 DEF SafeInv

\* A controller step is quiet: it writes one row no worker holds.
LEMMA ControllerIsQuiet ==
    ASSUME TypeInv, ControllerStep
    PROVE  QuietStep
<1>1. ASSUME NEW j \in JobId, NEW spec, Register(j, spec) PROVE QuietStep
  BY <1>1 DEF Register, QuietStep, worker, TypeInv, TypeOK
<1>2. CASE CreateJob
  BY <1>1, <1>2 DEF CreateJob
<1>3. CASE SubmitUnchecked
  BY <1>1, <1>3 DEF SubmitUnchecked
<1>4. ASSUME NEW s \in JobId, RequestReconcile(s) PROVE QuietStep
  <2>1. ASSUME NEW k \in JobId, status[k] = "rejected", status' = [status EXCEPT ![k] = "pending"],
               UNCHANGED <<job, worker, orphans, touched, bounds>>
        PROVE  QuietStep
    BY <2>1 DEF QuietStep, worker, TypeInv, TypeOK
  <2> QED BY <1>1, <1>4, <2>1 DEF RequestReconcile
<1>5. ASSUME NEW j \in JobId, SaveJob(j) PROVE QuietStep
  BY <1>5 DEF SaveJob, QuietStep, worker, TypeInv, TypeOK
<1>6. ASSUME NEW j \in JobId, SaveFails(j) PROVE QuietStep
  BY <1>6 DEF SaveFails, QuietStep, worker, TypeInv, TypeOK
<1>7. ASSUME NEW j \in JobId, RetryJob(j) PROVE QuietStep
  BY <1>7 DEF RetryJob, CanRetry, Update, QuietStep, worker, TypeInv, TypeOK
<1> QED BY <1>2, <1>3, <1>4, <1>5, <1>6, <1>7 DEF ControllerStep

\* Next keeps the safety invariant.
LEMMA NextSafe ==
    ASSUME SingleWorker, TypeInv, SafeInv, [Next]_vars
    PROVE  SafeInv'
<1>1. CASE UNCHANGED vars \/ OrphanExits
  BY <1>1 DEF vars, OrphanExits, worker, SafeInv, RowMatchesWorker, SnapshotFresh, ApplyStatuses,
              OneExecuting, UnresolvedHoldsTarget, NoBlindRetry, OneUnresolved, Others, Row,
              Locked,
              Reconciles
<1>2. CASE ControllerStep
  BY <1>2, ControllerIsQuiet, QuietSafe
<1>3. ASSUME NEW w \in Workers, Start(w) \/ WorkerStep(w) \/ Crash(w) PROVE SafeInv'
  BY <1>3, StartSafe, RecoverDoneSafe, ClaimSelectSafe, ClaimRollbackSafe, PrecheckFailsSafe,
       MarkPlannedErrorSafe, PrepareInvocationSafe, PrepareFailsSafe, MarkApplyingErrorSafe,
       SpawnPlaybookSafe, SpawnFailsSafe, PlaybookExitsSafe, PlaybookTimesOutSafe,
       FinalizeSourceErrorSafe, FinishErrorSafe, CrashSafe, ClaimCommitSafe, ClaimLostSafe,
       MarkPlannedSafe, MarkApplyingSafe, FinishSafe, RecoverJobSafe, FinalizeSourceSafe
       DEF WorkerStep
<1> QED BY <1>1, <1>2, <1>3 DEF Next

\* The inductive invariant holds in every state one worker reaches: every row is
\* where process, run, invoke or recover_interrupted_jobs believe it is, or behind.
THEOREM SafeInvariant ==
    ASSUME SingleWorker
    PROVE  Spec => [](TypeInv /\ SafeInv)
<1>1. Init => TypeInv /\ SafeInv
  BY InitTypeInv, InitSafe
<1>2. TypeInv /\ SafeInv /\ [Next]_vars => (TypeInv /\ SafeInv)'
  BY NextTypeInv, NextSafe
<1> QED BY <1>1, <1>2, PTL DEF Spec

\* With one worker an apply that started is never failed, queued again or
\* claimed before reconciliation or success accounts for it, for any number of
\* jobs, targets, crashes, lost writes, timeouts and retries (process,
\* recover_interrupted_jobs).
THEOREM AppliesAreAccounted ==
    ASSUME SingleWorker
    PROVE  Spec => []NoBlindRetry
<1>1. SafeInv => NoBlindRetry
  BY DEF SafeInv
<1> QED BY SafeInvariant, <1>1, PTL

\* With one worker a target never waits for two reconciliations, each of which
\* would block the other (claim_next_queued).
THEOREM ReconciliationIsUnique ==
    ASSUME SingleWorker
    PROVE  Spec => []OneUnresolved
<1>1. SafeInv => OneUnresolved
  BY DEF SafeInv
<1> QED BY SafeInvariant, <1>1, PTL

LifecycleStep ==
    \A j \in JobId : Row(j) /\ status'[j] # status[j] =>
        \/ CanTransitionTo(status[j], status'[j])
        \/ status[j] = "planned" /\ status'[j] = "reconcile_required"

\* What one step may do to a row.
LEMMA RowSteps ==
    ASSUME SingleWorker, TypeInv, SafeInv, [Next]_vars
    PROVE  LifecycleStep
<1>0. ASSUME NEW w \in Workers, pc[w] \notin {"down", "recovering", "idle"}
      PROVE  cur[w] \in JobId
  BY <1>0, HeldJob
<1>1. ASSUME UNCHANGED status PROVE LifecycleStep
  BY <1>1 DEF LifecycleStep
<1>2. CASE UNCHANGED vars \/ OrphanExits
  BY <1>1, <1>2 DEF vars, OrphanExits
<1>3. CASE ControllerStep
  <2> PICK x \in JobId :
       /\ status[x] \in {"none", "pending", "rejected", "failed"}
       /\ status'[x] \in {"pending", "rejected", "queued"}
       /\ \A k \in JobId \ {x} : status'[k] = status[k] /\ job'[k] = job[k]
       /\ status[x] # "none" => job'[x] = job[x]
    BY <1>3, ControllerIsQuiet DEF QuietStep
  <2>1. status[x] = "failed" => status'[x] = "queued"
    BY <1>3 DEF ControllerStep, CreateJob, SubmitUnchecked, RequestReconcile, Register, SaveJob,
                SaveFails, RetryJob, CanRetry, Update, TypeInv, TypeOK
  <2> QED BY <2>1 DEF LifecycleStep, CanTransitionTo, Row, Status
<1>4. ASSUME NEW w \in Workers,
             \/ Start(w) \/ RecoverDone(w) \/ ClaimSelect(w) \/ ClaimRollback(w)
             \/ PrecheckFails(w) \/ MarkPlannedError(w) \/ PrepareInvocation(w) \/ PrepareFails(w)
             \/ MarkApplyingError(w) \/ SpawnPlaybook(w) \/ SpawnFails(w) \/ PlaybookExits(w)
             \/ PlaybookTimesOut(w) \/ FinalizeSourceError(w) \/ FinishError(w) \/ Crash(w)
      PROVE  LifecycleStep
  BY <1>1, <1>4 DEF Start, RecoverDone, ClaimSelect, ClaimRollback, PrecheckFails,
       MarkPlannedError, PrepareInvocation, PrepareFails, MarkApplyingError, SpawnPlaybook,
       SpawnFails, PlaybookExits, PlaybookTimesOut, FinalizeSourceError, FinishError, Crash,
       UpdateFails
<1>5. ASSUME NEW w \in Workers, ClaimCommit(w) \/ ClaimLost(w) PROVE LifecycleStep
  <2>1. cur[w] \in JobId /\ status[cur[w]] = "queued" /\ Locked(cur[w])
    BY <1>0, <1>5 DEF ClaimCommit, ClaimLost, SafeInv, RowMatchesWorker, Locked
  <2>2. status' = [status EXCEPT ![cur[w]] = "checking"]
    BY <1>5 DEF ClaimCommit, ClaimLost
  <2> QED BY <2>1, <2>2 DEF SafeInv, UnresolvedHoldsTarget, LifecycleStep,
       CanTransitionTo, TypeInv, TypeOK
<1>6. ASSUME NEW w \in Workers, MarkPlanned(w) \/ MarkApplying(w) PROVE LifecycleStep
  BY <1>0, <1>6 DEF MarkPlanned, MarkApplying, Update, SafeInv, RowMatchesWorker,                     LifecycleStep, CanTransitionTo, TypeInv, TypeOK
<1>7. ASSUME NEW w \in Workers, Finish(w) PROVE LifecycleStep
  <2>1. cur[w] \in JobId /\ status[cur[w]] \in Executing
    BY <1>0, <1>7 DEF Finish, SafeInv, RowMatchesWorker
  <2>2. status' = [status EXCEPT ![cur[w]] = FinalStatus(w)]
    BY <1>7 DEF Finish, Update
  <2>3. ok[w] => status[cur[w]] \in {"planned", "applying"}
    BY <1>7 DEF Finish, SafeInv, RowMatchesWorker
  <2>4. FinalStatus(w) = "reconcile_required" => status[cur[w]] \in {"planned", "applying"}
    BY <1>7, <2>1 DEF Finish, FinalStatus, SafeInv, RowMatchesWorker
  <2>5. FinalStatus(w) = "succeeded" => status[cur[w]] \in {"planned", "applying"}
    BY <2>3 DEF FinalStatus
  <2> QED BY <2>1, <2>2, <2>4, <2>5, FinalStatusType
          DEF LifecycleStep, CanTransitionTo, Executing, TypeInv, TypeOK
<1>8. ASSUME NEW w \in Workers, RecoverJob(w) PROVE LifecycleStep
  <2> PICK e \in todo[w] : Update(e[1], RecoveredStatus(e[2]))
    BY <1>8 DEF RecoverJob
  <2>1. e[1] \in JobId /\ e[2] \in Executing /\ status[e[1]] = e[2]
    BY DEF SafeInv, SnapshotFresh, TypeInv, TypeOK
  <2> QED BY <2>1 DEF Update, RecoveredStatus, LifecycleStep, CanTransitionTo,
       Executing, TypeInv, TypeOK
<1>9. ASSUME NEW w \in Workers, FinalizeSource(w) PROVE LifecycleStep
  <2> DEFINE s == job[cur[w]].src
  <2>1. s \in JobId /\ status[s] = "reconcile_required"
    BY <1>9 DEF FinalizeSource, SafeInv, RowMatchesWorker
  <2>2. \E r \in {"succeeded", "failed"} : status' = [status EXCEPT ![s] = r]
    BY <1>9 DEF FinalizeSource, Update
  <2> QED BY <2>1, <2>2 DEF LifecycleStep, CanTransitionTo, TypeInv, TypeOK
<1> QED
  BY <1>2, <1>3, <1>4, <1>5, <1>6, <1>7, <1>8, <1>9 DEF Next, WorkerStep

\* With one worker the blind UPDATEs follow can_transition_to, but for the lost
\* write of mark_job_applying.
THEOREM RowsFollowLifecycle ==
    ASSUME SingleWorker
    PROVE  Spec => RowLifecycle
<1>1. TypeInv /\ SafeInv /\ [Next]_vars => [LifecycleStep]_vars
  BY RowSteps
<1> QED BY SafeInvariant, <1>1, PTL DEF Spec, RowLifecycle, LifecycleStep

----------------------------------------------------------------------------
(***************************************************************************)
(* Any number of workers that started once: no restart runs recovery       *)
(* beside a live worker.  Whoever holds a job holds it alone               *)
(* (HoldersApart), its row is where the holder believes it is              *)
(* (RowMatchesWorker), and a reconciliation job is the only one of its     *)
(* source (OneReconciler).                                                 *)
(***************************************************************************)

\* All workers are up from the start and none dies.
NeverRestarted == Booted = Workers /\ "crash" \notin Faults

NoneDown == \A w \in Workers : pc[w] \notin {"down", "recovering"}
HoldersApart ==
    \A v, w \in Workers : v # w /\ pc[v] # "idle" /\ pc[w] # "idle" => cur[v] # cur[w]
OneReconciler ==
    \A j, k \in JobId :
        job[j] # NoJob /\ job[k] # NoJob /\ job[j].src # 0 /\ job[j].src = job[k].src => j = k
SeparateInv ==
    /\ NoneDown /\ HoldersApart /\ OneReconciler
    /\ RowMatchesWorker /\ ApplyStatuses /\ OneExecuting /\ NoBlindRetry

\* Idle workers are apart.
LEMMA InitSeparate == ASSUME NeverRestarted PROVE Init => SeparateInv
<1> SUFFICES ASSUME Init PROVE SeparateInv
  OBVIOUS
<1>1. \A w \in Workers : pc[w] = "idle"
  BY DEF Init, NeverRestarted
<1>2. \A j \in JobId : status[j] = "none" /\ job[j] = NoJob
  BY DEF Init
<1>3. NoneDown /\ HoldersApart /\ RowMatchesWorker
  BY <1>1 DEF NoneDown, HoldersApart, RowMatchesWorker
<1>4. OneReconciler /\ ApplyStatuses /\ OneExecuting
  BY <1>2 DEF OneReconciler, ApplyStatuses, OneExecuting, Executing
<1>5. NoBlindRetry
  BY DEF Init, NoBlindRetry
<1> QED BY <1>3, <1>4, <1>5 DEF SeparateInv

\* The row of a job that is held is queued or executing.
LEMMA HeldRow ==
    ASSUME TypeInv, SeparateInv, NEW w \in Workers, pc[w] # "idle"
    PROVE  /\ cur[w] \in JobId /\ job[cur[w]] \in JobSpec
           /\ pc[w] = "selected" => status[cur[w]] = "queued"
           /\ pc[w] # "selected" => status[cur[w]] \in Executing
<1>1. pc[w] \notin {"down", "recovering", "idle"} /\ pc[w] \in Pc
  BY DEF SeparateInv, NoneDown, TypeInv, TypeOK
<1>2. cur[w] \in JobId /\ job[cur[w]] \in JobSpec
  BY <1>1, HeldJob
<1>3. /\ pc[w] = "selected" => status[cur[w]] = "queued"
      /\ pc[w] # "selected" => status[cur[w]] \in Executing
  BY <1>1 DEF SeparateInv, RowMatchesWorker, Pc, Executing
<1> QED BY <1>2, <1>3

\* The source of a reconciliation that is prepared is nobody's job.
LEMMA SourceRow ==
    ASSUME TypeInv, SeparateInv, NEW w \in Workers, pc[w] \in {"ready", "running", "finalizing"},
           job[cur[w]].mode = "reconcile"
    PROVE  /\ job[cur[w]].src \in JobId /\ status[job[cur[w]].src] = "reconcile_required"
           /\ \A x \in Workers : pc[x] # "idle" => cur[x] # job[cur[w]].src
<1>1. job[cur[w]].src \in JobId /\ status[job[cur[w]].src] = "reconcile_required"
  BY DEF SeparateInv, RowMatchesWorker
<1>2. ASSUME NEW x \in Workers, pc[x] # "idle" PROVE status[cur[x]] # "reconcile_required"
  BY <1>2, HeldRow DEF Executing
<1> QED BY <1>1, <1>2

\* The row a holder writes: its own, or the source it finalizes.
Writes(w, j) ==
    \/ j = cur[w] /\ pc[w] # "idle"
    \/ j = job[cur[w]].src /\ pc[w] = "finalizing"

\* No other worker counts on the row a holder writes.
LEMMA WritesApart ==
    ASSUME TypeInv, SeparateInv, NEW w \in Workers, NEW j, Writes(w, j), NEW x \in Workers, x # w, pc[x] # "idle"
    PROVE  /\ j # cur[x]
           /\ pc[x] \in {"ready", "running", "finalizing"} /\ job[cur[x]].mode = "reconcile" => j # job[cur[x]].src
<1>0. pc[w] # "idle" /\ cur[w] # cur[x]
  BY DEF SeparateInv, HoldersApart, Writes
<1>h. /\ cur[w] \in JobId /\ job[cur[w]] \in JobSpec
      /\ cur[x] \in JobId /\ job[cur[x]] \in JobSpec
      /\ status[cur[w]] \in Executing \cup {"queued"} /\ status[cur[x]] \in Executing \cup {"queued"}
  BY <1>0, HeldRow
<1>1. CASE j = cur[w]
  <2>1. status[j] # "reconcile_required"
    BY <1>h, <1>1 DEF Executing
  <2> QED BY <1>0, <1>1, <2>1, SourceRow
<1>2. CASE j = job[cur[w]].src /\ pc[w] = "finalizing"
  <2>1. job[cur[w]].mode = "reconcile"
    BY <1>2 DEF SeparateInv, RowMatchesWorker
  <2>2. j \in JobId /\ j # cur[x]
    BY <1>2, <2>1, SourceRow
  <2>3. ASSUME j = job[cur[x]].src PROVE FALSE
    <3>1. j # 0
      BY <2>2, BoundsAssumption DEF JobId
    <3>2. job[cur[w]] # NoJob /\ job[cur[x]] # NoJob
      BY <1>h, NoJobAssumption
    <3> QED BY <1>0, <1>h, <1>2, <2>3, <3>1, <3>2 DEF SeparateInv, OneReconciler
  <2> QED BY <2>2, <2>3
<1> QED BY <1>1, <1>2 DEF Writes

\* One holder moves and writes at most one row; the others keep their places.
LEMMA HolderMoves ==
    ASSUME TypeInv, SeparateInv, NEW w \in Workers, NEW j \in JobId, Writes(w, j), job' = job,
           \A x \in Workers \ {w} : pc'[x] = pc[x] /\ cur'[x] = cur[x] /\ st'[x] = st[x] /\ ok'[x] = ok[x],
           \A k \in JobId \ {j} : status'[k] = status[k],
           status'[j] \in Status, status[j] \in Status,
           status'[j] \in Executing => status[j] \in Executing \/ Others(j, Executing) = {},
           status'[j] \in {"applying", "reconcile_required"} => job[j].mode = "apply",
           pc'[w] \notin {"down", "recovering"}, pc'[w] # "idle" => cur'[w] = cur[w],
           (RowMatchesWorker!(w))',
           touched' \subseteq touched \cup {cur[w]},
           j \in touched' => status'[j] \in {"applying", "reconcile_required"},
           cur[w] \in touched' => status'[cur[w]] \in {"applying", "reconcile_required"}
    PROVE  SeparateInv'
<1>0. pc[w] # "idle"
  BY DEF Writes
<1>1. NoneDown'
  BY DEF SeparateInv, NoneDown
<1>2. HoldersApart'
  BY <1>0 DEF SeparateInv, HoldersApart
<1>3. OneReconciler'
  BY DEF SeparateInv, OneReconciler
<1>4. RowMatchesWorker'
  <2> SUFFICES ASSUME NEW x \in Workers, x # w PROVE (RowMatchesWorker!(x))'
    BY DEF RowMatchesWorker
  <2>1. pc'[x] = pc[x] /\ cur'[x] = cur[x] /\ st'[x] = st[x] /\ ok'[x] = ok[x]
    OBVIOUS
  <2>2. CASE pc[x] = "idle"
    BY <2>1, <2>2
  <2>3. CASE pc[x] # "idle"
    <3>1. cur[x] \in JobId /\ j # cur[x]
      BY <2>3, HeldRow, WritesApart
    <3>2. status'[cur[x]] = status[cur[x]]
      BY <3>1
    <3>3. pc[x] \in {"ready", "running", "finalizing"} /\ job[cur[x]].mode = "reconcile" =>
             job[cur[x]].src \in JobId /\ status'[job[cur[x]].src] = status[job[cur[x]].src]
      BY <2>3, SourceRow, WritesApart
    <3> QED BY <2>1, <3>2, <3>3 DEF SeparateInv, RowMatchesWorker
  <2> QED BY <2>2, <2>3
<1>5. ApplyStatuses'
  BY DEF SeparateInv, ApplyStatuses
<1>6. OneExecuting'
  <2> SUFFICES ASSUME NEW a \in JobId, NEW b \in JobId \ {a}, status'[a] \in Executing, status'[b] \in Executing,
                      job[b].target = job[a].target
               PROVE  FALSE
    BY DEF OneExecuting, Others
  <2>0. \A m, n \in JobId : m # n /\ status[m] \in Executing /\ status[n] \in Executing => job[n].target # job[m].target
    BY DEF SeparateInv, OneExecuting, Others, Row, Executing, Status
  <2>1. CASE a # j /\ b # j
    BY <2>0, <2>1
  <2>2. CASE a = j
    <3>1. status[b] = status'[b]
      BY <2>2
    <3>2. status[j] \notin Executing
      BY <2>0, <2>2, <3>1
    <3>3. Others(j, Executing) = {}
      BY <2>2, <3>2
    <3> QED BY <2>2, <3>1, <3>3 DEF Others, Row, Executing, Status
  <2>3. CASE b = j
    <3>1. status[a] = status'[a]
      BY <2>3
    <3>2. status[j] \notin Executing
      BY <2>0, <2>3, <3>1
    <3>3. Others(j, Executing) = {}
      BY <2>3, <3>2
    <3> QED BY <2>3, <3>1, <3>3 DEF Others, Row, Executing, Status
  <2> QED BY <2>1, <2>2, <2>3
<1>7. NoBlindRetry'
  <2> SUFFICES ASSUME NEW k \in touched' PROVE status'[k] \in {"applying", "reconcile_required"}
    BY DEF NoBlindRetry
  <2>1. k \in JobId
    BY <1>0, HeldRow DEF TypeInv, TypeOK
  <2>2. CASE k = j \/ k = cur[w]
    BY <2>2
  <2>3. CASE k # j /\ k # cur[w]
    BY <2>1, <2>3 DEF SeparateInv, NoBlindRetry
  <2> QED BY <2>2, <2>3
<1> QED BY <1>1, <1>2, <1>3, <1>4, <1>5, <1>6, <1>7 DEF SeparateInv

\* A holder moves without a write.
LEMMA HolderRests ==
    ASSUME TypeInv, SeparateInv, NEW w \in Workers, pc[w] # "idle", UNCHANGED <<job, status>>,
           \A x \in Workers \ {w} : pc'[x] = pc[x] /\ cur'[x] = cur[x] /\ st'[x] = st[x] /\ ok'[x] = ok[x],
           pc'[w] \notin {"down", "recovering"}, pc'[w] # "idle" => cur'[w] = cur[w],
           (RowMatchesWorker!(w))',
           touched' \subseteq touched \cup {cur[w]},
           cur[w] \in touched' \ touched => status[cur[w]] = "applying"
    PROVE  SeparateInv'
<1>1. PICK j \in JobId : j = cur[w]
  BY HeldRow
<1>2. Writes(w, j) /\ status[j] \in Status
  BY <1>1, HeldRow DEF Writes, Executing, Status
<1>3. status[j] \in {"applying", "reconcile_required"} => job[j].mode = "apply"
  BY DEF SeparateInv, ApplyStatuses
<1>4. cur[w] \in touched' => status[cur[w]] \in {"applying", "reconcile_required"}
  BY DEF SeparateInv, NoBlindRetry
<1> QED BY <1>1, <1>2, <1>3, <1>4, HolderMoves

\* What the other workers are left with when only w's place changes.
LEMMA PlaceChanges ==
    ASSUME TypeInv, NEW w \in Workers, NEW p \in Pc
    PROVE  /\ pc' = [pc EXCEPT ![w] = p] => pc'[w] = p /\ \A x \in Workers \ {w} : pc'[x] = pc[x]
           /\ \A c : cur' = [cur EXCEPT ![w] = c] => cur'[w] = c /\ \A x \in Workers \ {w} : cur'[x] = cur[x]
           /\ \A s : st' = [st EXCEPT ![w] = s] => st'[w] = s /\ \A x \in Workers \ {w} : st'[x] = st[x]
           /\ \A b : ok' = [ok EXCEPT ![w] = b] => ok'[w] = b /\ \A x \in Workers \ {w} : ok'[x] = ok[x]
BY DEF TypeInv, TypeOK

\* The steps of run and invoke that end the job's run: the row is left as it
\* is, st may be ahead of it by one lost write.
LEMMA ReturnsApart ==
    ASSUME TypeInv, SeparateInv, NEW w \in Workers, pc[w] \notin {"idle", "selected"},
           UNCHANGED <<job, status, cur, touched>>, NEW r \in BOOLEAN, Return(w, r), NEW s \in Status,
           st' = [st EXCEPT ![w] = s],
           status[cur[w]] = "applying" => s = "applying",
           job[cur[w]].mode = "apply" /\ s = "applying" => status[cur[w]] \in {"planned", "applying"},
           r => status[cur[w]] = (IF job[cur[w]].mode = "apply" THEN "applying" ELSE "planned")
    PROVE  SeparateInv'
<1>1. pc'[w] = "finishing" /\ ok'[w] = r /\ st'[w] = s /\ cur' = cur
  BY PlaceChanges DEF Return, TypeInv, TypeOK
<1>2. \A x \in Workers \ {w} : pc'[x] = pc[x] /\ cur'[x] = cur[x] /\ st'[x] = st[x] /\ ok'[x] = ok[x]
  BY DEF Return, TypeInv, TypeOK
<1>3. status[cur[w]] \in Executing
  BY HeldRow
<1>4. (RowMatchesWorker!(w))'
  BY <1>1, <1>3
<1> QED BY <1>1, <1>2, <1>4, HolderRests

\* st of the holder, kept.
LEMMA StStays ==
    ASSUME TypeInv, NEW w \in Workers, st' = st
    PROVE  st' = [st EXCEPT ![w] = st[w]] /\ st[w] \in Status
BY DEF TypeInv, TypeOK

\* A run that fails or ends.
LEMMA RunEndsApart ==
    ASSUME TypeInv, SeparateInv, NEW w \in Workers,
           \/ PrecheckFails(w) \/ MarkPlannedError(w) \/ PrepareFails(w) \/ MarkApplyingError(w) \/ SpawnFails(w)
           \/ PlaybookTimesOut(w) \/ FinalizeSourceError(w)
    PROVE  SeparateInv'
<1>1. CASE PrecheckFails(w)
  <2>1. pc[w] = "claimed" /\ Return(w, FALSE) /\ UNCHANGED <<job, status, cur, touched>> /\ st' = st
    BY <1>1 DEF PrecheckFails
  <2>2. status[cur[w]] = "checking" /\ st[w] = "checking"
    BY <2>1 DEF SeparateInv, RowMatchesWorker
  <2> QED BY <2>1, <2>2, StStays, ReturnsApart
<1>2. CASE MarkPlannedError(w)
  <2>1. pc[w] = "claimed" /\ Return(w, FALSE) /\ UNCHANGED <<job, status, cur, touched>> /\ st' = [st EXCEPT ![w] = "planned"]
    BY <1>2 DEF MarkPlannedError, UpdateFails
  <2>2. status[cur[w]] = "checking"
    BY <2>1 DEF SeparateInv, RowMatchesWorker
  <2>3. "planned" \in Status
    BY DEF Status
  <2> QED BY <2>1, <2>2, <2>3, ReturnsApart
<1>3. CASE PrepareFails(w)
  <2>1. pc[w] = "planned" /\ Return(w, FALSE) /\ UNCHANGED <<job, status, cur, touched>> /\ st' = st
    BY <1>3 DEF PrepareFails
  <2>2. status[cur[w]] = "planned"
    BY <2>1 DEF SeparateInv, RowMatchesWorker
  <2> QED BY <2>1, <2>2, StStays, ReturnsApart
<1>4. CASE MarkApplyingError(w)
  <2>1. pc[w] = "ready" /\ Return(w, FALSE) /\ UNCHANGED <<job, status, cur, touched>> /\ st' = [st EXCEPT ![w] = "applying"]
    BY <1>4 DEF MarkApplyingError, UpdateFails
  <2>2. status[cur[w]] = "planned"
    BY <2>1 DEF SeparateInv, RowMatchesWorker
  <2>3. "applying" \in Status
    BY DEF Status
  <2> QED BY <2>1, <2>2, <2>3, ReturnsApart
<1>5. CASE SpawnFails(w)
  <2>1. pc[w] \in {"applying", "ready"} /\ Return(w, FALSE) /\ UNCHANGED <<job, status, cur, touched>> /\ st' = st
    BY <1>5 DEF SpawnFails, ReadyToSpawn
  <2>2. status[cur[w]] = "planned" \/ (status[cur[w]] = "applying" /\ st[w] = "applying")
    BY <2>1 DEF SeparateInv, RowMatchesWorker
  <2> QED BY <2>1, <2>2, StStays, ReturnsApart
<1>6. CASE PlaybookTimesOut(w)
  <2>1. pc[w] = "running" /\ Return(w, FALSE) /\ UNCHANGED <<job, status, cur, touched>> /\ st' = st
    BY <1>6 DEF PlaybookTimesOut
  <2>2. status[cur[w]] = "planned" \/ (status[cur[w]] = "applying" /\ st[w] = "applying")
    BY <2>1 DEF SeparateInv, RowMatchesWorker
  <2> QED BY <2>1, <2>2, StStays, ReturnsApart
<1>7. CASE FinalizeSourceError(w)
  <2>1. pc[w] = "finalizing" /\ Return(w, FALSE) /\ UNCHANGED <<job, status, cur, touched>> /\ st' = st
    BY <1>7 DEF FinalizeSourceError
  <2>2. status[cur[w]] = "planned"
    BY <2>1 DEF SeparateInv, RowMatchesWorker
  <2> QED BY <2>1, <2>2, StStays, ReturnsApart
<1> QED BY <1>1, <1>2, <1>3, <1>4, <1>5, <1>6, <1>7

\* Preparation, the playbook, and a job that is let go.
LEMMA PlaybookApart ==
    ASSUME TypeInv, SeparateInv, NEW w \in Workers,
           \/ PrepareInvocation(w) \/ SpawnPlaybook(w) \/ PlaybookExits(w) \/ ClaimRollback(w) \/ FinishError(w)
    PROVE  SeparateInv'
<1>1. CASE PrepareInvocation(w)
  <2>1. pc[w] = "planned" /\ pc'[w] = "ready" /\ UNCHANGED <<job, status, cur, st, ok, touched>>
    BY <1>1 DEF PrepareInvocation, TypeInv, TypeOK
  <2>2. \A x \in Workers \ {w} : pc'[x] = pc[x]
    BY <1>1 DEF PrepareInvocation, TypeInv, TypeOK
  <2>3. status[cur[w]] = "planned"
    BY <2>1 DEF SeparateInv, RowMatchesWorker
  <2>4. job[cur[w]].mode = "reconcile" => job[cur[w]].src \in JobId /\ status[job[cur[w]].src] = "reconcile_required"
    BY <1>1 DEF PrepareInvocation, SourceAccepted, CanBeReconciled
  <2>5. (RowMatchesWorker!(w))'
    BY <2>1, <2>3, <2>4
  <2> QED BY <2>1, <2>2, <2>5, HolderRests
<1>2. CASE SpawnPlaybook(w)
  <2>1. /\ pc[w] \in {"applying", "ready"} /\ pc'[w] = "running" /\ UNCHANGED <<job, status, cur, st, ok>>
        /\ pc[w] = "ready" => job[cur[w]].mode # "apply"
        /\ touched' = IF job[cur[w]].mode = "apply" THEN touched \cup {cur[w]} ELSE touched
    BY <1>2 DEF SpawnPlaybook, ReadyToSpawn, TypeInv, TypeOK
  <2>2. \A x \in Workers \ {w} : pc'[x] = pc[x]
    BY <1>2 DEF SpawnPlaybook, TypeInv, TypeOK
  <2>3. /\ pc[w] = "applying" => status[cur[w]] = "applying" /\ st[w] = "applying"
        /\ pc[w] = "ready" => status[cur[w]] = "planned"
        /\ pc[w] = "ready" /\ job[cur[w]].mode = "reconcile" =>
             job[cur[w]].src \in JobId /\ status[job[cur[w]].src] = "reconcile_required"
    BY DEF SeparateInv, RowMatchesWorker
  <2>4. pc[w] = "applying" => job[cur[w]].mode = "apply"
    BY <2>1, <2>3, HeldRow DEF SeparateInv, ApplyStatuses
  <2>5. (RowMatchesWorker!(w))'
    BY <2>1, <2>3, <2>4
  <2>6. cur[w] \in touched' \ touched => status[cur[w]] = "applying"
    BY <2>1, <2>3
  <2>7. touched' \subseteq touched \cup {cur[w]}
    BY <2>1
  <2> QED BY <2>1, <2>2, <2>5, <2>6, <2>7, HolderRests
<1>3. CASE PlaybookExits(w)
  <2>0. pc[w] = "running" /\ UNCHANGED <<job, status, cur, st, touched>>
    BY <1>3 DEF PlaybookExits
  <2>1. /\ status[cur[w]] = (IF job[cur[w]].mode = "apply" THEN "applying" ELSE "planned")
        /\ job[cur[w]].mode = "apply" => st[w] = "applying"
        /\ job[cur[w]].mode = "reconcile" =>
             job[cur[w]].src \in JobId /\ status[job[cur[w]].src] = "reconcile_required"
    BY <2>0 DEF SeparateInv, RowMatchesWorker
  <2>2. CASE \E r \in BOOLEAN : Return(w, r)
    <3>1. PICK r \in BOOLEAN : Return(w, r)
      BY <2>2
    <3> QED BY <2>0, <2>1, <3>1, StStays, ReturnsApart
  <2>3. CASE job[cur[w]].mode = "reconcile" /\ pc' = [pc EXCEPT ![w] = "finalizing"] /\ ok' = ok
    <3>1. pc'[w] = "finalizing" /\ \A x \in Workers \ {w} : pc'[x] = pc[x]
      BY <2>3 DEF TypeInv, TypeOK
    <3>2. (RowMatchesWorker!(w))'
      BY <2>0, <2>1, <2>3, <3>1
    <3> QED BY <2>0, <2>3, <3>1, <3>2, HolderRests
  <2> QED BY <1>3, <2>2, <2>3 DEF PlaybookExits
<1>4. CASE ClaimRollback(w) \/ FinishError(w)
  <2>1. pc[w] \in {"selected", "finishing"} /\ pc'[w] = "idle" /\ UNCHANGED <<job, status, st, ok, touched>>
    BY <1>4 DEF ClaimRollback, FinishError, TypeInv, TypeOK
  <2>2. \A x \in Workers \ {w} : pc'[x] = pc[x] /\ cur'[x] = cur[x]
    BY <1>4 DEF ClaimRollback, FinishError, TypeInv, TypeOK
  <2>3. (RowMatchesWorker!(w))'
    BY <2>1
  <2> QED BY <2>1, <2>2, <2>3, HolderRests
<1> QED BY <1>1, <1>2, <1>3, <1>4

\* A claim takes a job that nobody holds.
LEMMA ClaimApart ==
    ASSUME TypeInv, SeparateInv, NEW w \in Workers, ClaimSelect(w)
    PROVE  SeparateInv'
<1>1. PICK j \in JobId : Claimable(j) /\ ~Locked(j) /\ cur' = [cur EXCEPT ![w] = j]
  BY DEF ClaimSelect
<1>2. pc[w] = "idle" /\ pc' = [pc EXCEPT ![w] = "selected"] /\ UNCHANGED <<job, status, st, ok, touched>>
  BY DEF ClaimSelect
<1>3. /\ pc'[w] = "selected" /\ cur'[w] = j
      /\ \A x \in Workers \ {w} : pc'[x] = pc[x] /\ cur'[x] = cur[x]
  BY <1>1, <1>2 DEF TypeInv, TypeOK
<1>4. status[j] = "queued"
  BY <1>1 DEF Claimable
<1>5. ASSUME NEW x \in Workers, x # w, pc[x] # "idle" PROVE cur[x] # j
  <2>1. CASE pc[x] = "selected"
    BY <1>1, <2>1 DEF Locked
  <2>2. CASE pc[x] # "selected"
    <3>1. status[cur[x]] \in Executing
      BY <1>5, <2>2, HeldRow
    <3> QED BY <1>4, <3>1 DEF Executing
  <2> QED BY <2>1, <2>2
<1>6. HoldersApart'
  BY <1>3, <1>5 DEF SeparateInv, HoldersApart
<1>7. NoneDown'
  BY <1>3 DEF SeparateInv, NoneDown
<1>8. RowMatchesWorker'
  <2> SUFFICES ASSUME NEW x \in Workers PROVE (RowMatchesWorker!(x))'
    BY DEF RowMatchesWorker
  <2>1. CASE x = w
    BY <1>2, <1>3, <1>4, <2>1
  <2>2. CASE x # w
    BY <1>2, <1>3, <2>2 DEF SeparateInv, RowMatchesWorker
  <2> QED BY <2>1, <2>2
<1>9. OneReconciler' /\ ApplyStatuses' /\ NoBlindRetry'
  BY <1>2 DEF SeparateInv, OneReconciler, ApplyStatuses, NoBlindRetry
<1>10. OneExecuting'
  BY <1>2 DEF SeparateInv, OneExecuting, Others, Row
<1> QED BY <1>6, <1>7, <1>8, <1>9, <1>10 DEF SeparateInv

\* A claim is committed, with its answer or without.
LEMMA CommitApart ==
    ASSUME TypeInv, SeparateInv, NEW w \in Workers, ClaimCommit(w) \/ ClaimLost(w)
    PROVE  SeparateInv'
<1>1. pc[w] = "selected" /\ status' = [status EXCEPT ![cur[w]] = "checking"] /\ UNCHANGED <<job, ok, touched>>
  BY DEF ClaimCommit, ClaimLost
<1>2. PICK j \in JobId : j = cur[w] /\ status[j] = "queued" /\ Writes(w, j)
  BY <1>1, HeldRow DEF Writes
<1>3. status'[j] = "checking" /\ \A k \in JobId \ {j} : status'[k] = status[k]
  BY <1>1, <1>2 DEF TypeInv, TypeOK
<1>4. Others(j, Executing) = {}
  BY <1>2 DEF ClaimCommit, ClaimLost, IndexAllows, Executing
<1>5. j \notin touched'
  BY <1>1, <1>2 DEF SeparateInv, NoBlindRetry
<1>6. "checking" \in Status /\ "queued" \in Status
  BY DEF Status
<1>7. CASE ClaimCommit(w)
  <2>1. pc'[w] = "claimed" /\ st'[w] = "checking" /\ cur' = cur
    BY <1>7 DEF ClaimCommit, TypeInv, TypeOK
  <2>2. \A x \in Workers \ {w} : pc'[x] = pc[x] /\ st'[x] = st[x]
    BY <1>7 DEF ClaimCommit, TypeInv, TypeOK
  <2>3. (RowMatchesWorker!(w))'
    BY <1>2, <1>3, <2>1
  <2> QED BY <1>1, <1>2, <1>3, <1>4, <1>5, <1>6, <2>1, <2>2, <2>3, HolderMoves
<1>8. CASE ClaimLost(w)
  <2>1. pc'[w] = "idle" /\ st' = st
    BY <1>8 DEF ClaimLost, TypeInv, TypeOK
  <2>2. \A x \in Workers \ {w} : pc'[x] = pc[x] /\ cur'[x] = cur[x]
    BY <1>8 DEF ClaimLost, TypeInv, TypeOK
  <2>3. (RowMatchesWorker!(w))'
    BY <2>1
  <2> QED BY <1>1, <1>2, <1>3, <1>4, <1>5, <1>6, <2>1, <2>2, <2>3, HolderMoves
<1> QED BY <1>7, <1>8

\* mark_job_planned and mark_job_applying.
LEMMA MarksApart ==
    ASSUME TypeInv, SeparateInv, NEW w \in Workers, MarkPlanned(w) \/ MarkApplying(w)
    PROVE  SeparateInv'
<1>0. pc[w] \in {"claimed", "ready"} /\ UNCHANGED <<job, cur, ok, touched>>
  BY DEF MarkPlanned, MarkApplying
<1>1. PICK j \in JobId : j = cur[w] /\ status[j] \in {"checking", "planned"} /\ Writes(w, j)
  BY <1>0, HeldRow DEF Writes, SeparateInv, RowMatchesWorker
<1>2. PICK s : /\ s = "planned" \/ (s = "applying" /\ job[j].mode = "apply")
               /\ status' = [status EXCEPT ![j] = s] /\ st' = [st EXCEPT ![w] = s] /\ pc' = [pc EXCEPT ![w] = s]
  BY <1>1 DEF MarkPlanned, MarkApplying, Update
<1>3. status'[j] = s /\ \A k \in JobId \ {j} : status'[k] = status[k]
  BY <1>1, <1>2 DEF TypeInv, TypeOK
<1>4. status[j] \in Executing /\ status[j] \in Status /\ s \in Status
  BY <1>1, <1>2 DEF Executing, Status
<1>5. j \notin touched'
  BY <1>0, <1>1 DEF SeparateInv, NoBlindRetry
<1>6. pc'[w] = s /\ st'[w] = s /\ \A x \in Workers \ {w} : pc'[x] = pc[x] /\ st'[x] = st[x]
  BY <1>2 DEF TypeInv, TypeOK
<1>7. (RowMatchesWorker!(w))'
  BY <1>0, <1>1, <1>2, <1>3, <1>6
<1> QED BY <1>0, <1>1, <1>2, <1>3, <1>4, <1>5, <1>6, <1>7, HolderMoves

\* The last UPDATE of process.
LEMMA FinishApart ==
    ASSUME TypeInv, SeparateInv, NEW w \in Workers, Finish(w)
    PROVE  SeparateInv'
<1>0. /\ pc[w] = "finishing" /\ UNCHANGED <<job, st, ok>>
      /\ touched' = IF ok[w] THEN touched \ {cur[w]} ELSE touched
  BY DEF Finish
<1>1. PICK j \in JobId : j = cur[w] /\ status[j] \in Executing /\ Writes(w, j)
  BY <1>0, HeldRow DEF Writes
<1>2. PICK s : s = FinalStatus(w)
  OBVIOUS
<1>3. status' = [status EXCEPT ![j] = s] /\ s \in {"succeeded", "failed", "reconcile_required"}
  BY <1>1, <1>2, FinalStatusType DEF Finish, Update
<1>4. status'[j] = s /\ \A k \in JobId \ {j} : status'[k] = status[k]
  BY <1>3 DEF TypeInv, TypeOK
<1>5. pc'[w] = "idle" /\ \A x \in Workers \ {w} : pc'[x] = pc[x] /\ cur'[x] = cur[x]
  BY DEF Finish, TypeInv, TypeOK
<1>6. (RowMatchesWorker!(w))'
  BY <1>5
<1>7. j \in touched' => s = "reconcile_required"
  <2> SUFFICES ASSUME j \in touched' PROVE s = "reconcile_required"
    OBVIOUS
  <2>1. ~ok[w] /\ j \in touched
    BY <1>0, <1>1
  <2>2. status[j] = "applying"
    BY <1>1, <2>1 DEF SeparateInv, NoBlindRetry, Executing
  <2>3. st[w] = "applying" /\ job[j].mode = "apply"
    BY <1>0, <1>1, <2>2 DEF SeparateInv, RowMatchesWorker, ApplyStatuses
  <2> QED BY <1>1, <1>2, <2>1, <2>3 DEF FinalStatus
<1>8. s = "reconcile_required" => job[j].mode = "apply"
  BY <1>1, <1>2 DEF FinalStatus
<1>9. status[j] \in Status /\ s \in Status /\ s \notin Executing /\ s # "applying"
  BY <1>1, <1>3 DEF Executing, Status
<1>10. touched' \subseteq touched \cup {cur[w]}
  BY <1>0
<1> QED BY <1>0, <1>1, <1>4, <1>5, <1>6, <1>7, <1>8, <1>9, <1>10, HolderMoves

\* A reconciliation settles its source, which nobody else is after.
LEMMA FinalizeApart ==
    ASSUME TypeInv, SeparateInv, NEW w \in Workers, FinalizeSource(w)
    PROVE  SeparateInv'
<1>0. /\ pc[w] = "finalizing" /\ touched' = touched \ {job[cur[w]].src} /\ UNCHANGED <<job, cur, st>>
      /\ job[cur[w]].mode = "reconcile" /\ status[cur[w]] = "planned"
  BY DEF FinalizeSource, SeparateInv, RowMatchesWorker
<1>1. PICK j \in JobId : j = job[cur[w]].src /\ status[j] = "reconcile_required" /\ j # cur[w] /\ Writes(w, j)
  BY <1>0, SourceRow DEF Writes
<1>2. PICK s \in {"succeeded", "failed"}, r \in BOOLEAN : status' = [status EXCEPT ![j] = s] /\ Return(w, r)
  BY <1>1 DEF FinalizeSource, Update
<1>3. status'[j] = s /\ \A k \in JobId \ {j} : status'[k] = status[k]
  BY <1>2 DEF TypeInv, TypeOK
<1>4. pc'[w] = "finishing" /\ ok'[w] = r /\ \A x \in Workers \ {w} : pc'[x] = pc[x] /\ ok'[x] = ok[x]
  BY <1>2 DEF Return, TypeInv, TypeOK
<1>5. status'[cur[w]] = "planned"
  BY <1>0, <1>1, <1>3, HeldRow
<1>6. (RowMatchesWorker!(w))'
  BY <1>0, <1>4, <1>5 DEF Executing
<1>7. s \in Status /\ status[j] \in Status /\ s \notin Executing /\ s \notin {"applying", "reconcile_required"}
  BY <1>1 DEF Status, Executing
<1>8. cur[w] \notin touched'
  BY <1>0 DEF SeparateInv, NoBlindRetry
<1>9. j \notin touched' /\ touched' \subseteq touched \cup {cur[w]}
  BY <1>0, <1>1
<1> QED BY <1>0, <1>1, <1>3, <1>4, <1>6, <1>7, <1>8, <1>9, HolderMoves

\* The controller registers one reconciliation job for a source.
LEMMA ControllerReconcilers ==
    ASSUME TypeInv, SeparateInv, ControllerStep
    PROVE  OneReconciler'
<1>1. ASSUME NEW j \in JobId, NEW spec, Register(j, spec),
             spec.src = 0 \/ \A k \in JobId : job[k] # NoJob => job[k].src # spec.src
      PROVE  OneReconciler'
  <2>1. job'[j] = spec /\ \A k \in JobId \ {j} : job'[k] = job[k]
    BY <1>1 DEF Register, TypeInv, TypeOK
  <2> QED BY <1>1, <2>1 DEF SeparateInv, OneReconciler
<1>2. ASSUME job' = job PROVE OneReconciler'
  BY <1>2 DEF SeparateInv, OneReconciler
<1>3. CASE CreateJob
  <2>1. PICK t \in Targets, r \in Requests, j \in JobId : Register(j, [target |-> t, op |-> r[1], mode |-> r[2], src |-> 0])
    BY <1>3 DEF CreateJob
  <2> QED BY <2>1, <1>1
<1>4. CASE SubmitUnchecked
  <2>1. PICK t \in Targets, r \in Unchecked, j \in JobId : Register(j, [target |-> t, op |-> r[1], mode |-> r[2], src |-> 0])
    BY <1>4 DEF SubmitUnchecked
  <2> QED BY <2>1, <1>1
<1>5. ASSUME NEW s \in JobId, RequestReconcile(s) PROVE OneReconciler'
  <2>1. CASE job' = job
    BY <2>1, <1>2
  <2>2. CASE \A k \in JobId : job[k] # NoJob => job[k].src # s
    <3>1. CASE \E j \in JobId : Register(j, [target |-> job[s].target, op |-> job[s].op, mode |-> "reconcile", src |-> s])
      <4>1. PICK j \in JobId : Register(j, [target |-> job[s].target, op |-> job[s].op, mode |-> "reconcile", src |-> s])
        BY <3>1
      <4> QED BY <2>2, <4>1, <1>1
    <3> QED BY <1>5, <2>1, <3>1 DEF RequestReconcile
  <2> QED BY <1>5, <2>1, <2>2 DEF RequestReconcile
<1>6. ASSUME NEW j \in JobId, SaveJob(j) \/ SaveFails(j) \/ RetryJob(j) PROVE job' = job
  BY <1>6 DEF SaveJob, SaveFails, RetryJob
<1> QED BY <1>2, <1>3, <1>4, <1>5, <1>6 DEF ControllerStep

\* The controller writes no row that a worker holds.
LEMMA ControllerApart ==
    ASSUME TypeInv, SeparateInv, ControllerStep
    PROVE  SeparateInv'
<1>q. QuietStep
  BY ControllerIsQuiet
<1> PICK x \in JobId :
       /\ status[x] \in {"none", "pending", "rejected", "failed"}
       /\ status'[x] \in {"pending", "rejected", "queued"}
       /\ \A k \in JobId \ {x} : status'[k] = status[k] /\ job'[k] = job[k]
       /\ status[x] # "none" => job'[x] = job[x]
  BY <1>q DEF QuietStep
<1>0. UNCHANGED <<pc, cur, st, ok, touched>>
  BY <1>q DEF QuietStep
<1>1. RowMatchesWorker'
  <2> SUFFICES ASSUME NEW w \in Workers PROVE (RowMatchesWorker!(w))'
    BY DEF RowMatchesWorker
  <2>1. CASE pc[w] = "idle"
    BY <1>0, <2>1
  <2>2. CASE pc[w] # "idle"
    <3>1. cur[w] \in JobId /\ status[cur[w]] \in Executing \cup {"queued"}
      BY <2>2, HeldRow
    <3>2. status'[cur[w]] = status[cur[w]] /\ job'[cur[w]] = job[cur[w]]
      BY <3>1 DEF Executing
    <3>3. pc[w] \in {"ready", "running", "finalizing"} /\ job[cur[w]].mode = "reconcile" =>
            status'[job[cur[w]].src] = status[job[cur[w]].src] /\ job[cur[w]].src \in JobId
      BY SourceRow
    <3> QED BY <1>0, <3>2, <3>3 DEF SeparateInv, RowMatchesWorker
  <2> QED BY <2>1, <2>2
<1>2. NoneDown' /\ HoldersApart'
  BY <1>0 DEF SeparateInv, NoneDown, HoldersApart
<1>3. ApplyStatuses'
  BY DEF SeparateInv, ApplyStatuses
<1>4. OneExecuting'
  BY DEF SeparateInv, OneExecuting, Others, Row, Executing, Status
<1>5. NoBlindRetry'
  BY <1>0 DEF SeparateInv, NoBlindRetry, TypeInv, TypeOK
<1>6. OneReconciler'
  BY ControllerReconcilers
<1> QED BY <1>1, <1>2, <1>3, <1>4, <1>5, <1>6 DEF SeparateInv

\* Next keeps the workers apart.
LEMMA NextSeparate ==
    ASSUME NeverRestarted, TypeInv, SeparateInv, [Next]_vars
    PROVE  SeparateInv'
<1>1. CASE UNCHANGED vars \/ OrphanExits
  <2>1. UNCHANGED <<job, status, pc, cur, st, ok, touched>>
    BY <1>1 DEF vars, OrphanExits, worker
  <2>2. NoneDown' /\ HoldersApart' /\ OneReconciler' /\ ApplyStatuses' /\ NoBlindRetry'
    BY <2>1 DEF SeparateInv, NoneDown, HoldersApart, OneReconciler, ApplyStatuses, NoBlindRetry
  <2>3. RowMatchesWorker' /\ OneExecuting'
    BY <2>1 DEF SeparateInv, RowMatchesWorker, OneExecuting, Others, Row
  <2> QED BY <2>2, <2>3 DEF SeparateInv
<1>2. CASE ControllerStep
  BY <1>2, ControllerApart
<1>3. ASSUME NEW w \in Workers, Start(w) \/ RecoverJob(w) \/ RecoverDone(w) \/ Crash(w) PROVE FALSE
  BY <1>3 DEF Start, RecoverJob, RecoverDone, Crash, NeverRestarted, SeparateInv, NoneDown
<1>4. ASSUME NEW w \in Workers, WorkerStep(w) PROVE SeparateInv'
  BY <1>3, <1>4, ClaimApart, CommitApart, RunEndsApart, PlaybookApart, MarksApart, FinishApart, FinalizeApart
     DEF WorkerStep
<1> QED BY <1>1, <1>2, <1>3, <1>4 DEF Next

\* Holders that are apart execute apart.
LEMMA ApartIsSeparate == TypeInv /\ SeparateInv => WorkersSeparate
<1> SUFFICES ASSUME TypeInv, SeparateInv PROVE WorkersSeparate
  OBVIOUS
<1>1. NoSharedJob
  BY DEF SeparateInv, HoldersApart, NoSharedJob, Executes
<1>2. ASSUME NEW v \in Workers, NEW w \in Workers, v # w, pc[v] = "running", pc[w] = "running"
      PROVE  job[cur[v]].target # job[cur[w]].target
  <2>1. cur[v] \in JobId /\ cur[w] \in JobId /\ status[cur[v]] \in Executing /\ status[cur[w]] \in Executing
    BY <1>2, HeldRow
  <2>2. cur[v] # cur[w]
    BY <1>2 DEF SeparateInv, HoldersApart
  <2> QED BY <2>1, <2>2 DEF SeparateInv, OneExecuting, Others, Row, Executing, Status
<1> QED BY <1>1, <1>2 DEF WorkersSeparate, WorkersApart

\* Workers that started once share no job and no target, for any number of
\* them and of jobs, targets, lost writes, lost claims, timeouts and retries:
\* FOR UPDATE SKIP LOCKED and the unique index of claim_next_queued are enough.
THEOREM WorkersStaySeparate ==
    ASSUME NeverRestarted
    PROVE  Spec => []WorkersSeparate
<1>1. Init => TypeInv /\ SeparateInv
  BY InitTypeInv, InitSeparate
<1>2. TypeInv /\ SeparateInv /\ [Next]_vars => (TypeInv /\ SeparateInv)'
  BY NextTypeInv, NextSeparate
<1> QED BY <1>1, <1>2, ApartIsSeparate, PTL DEF Spec

\* Such workers also account for every apply that started: none of them takes
\* it for a failed or queued job (process).
THEOREM SeparateWorkersAccount ==
    ASSUME NeverRestarted
    PROVE  Spec => []NoBlindRetry
<1>1. Init => TypeInv /\ SeparateInv
  BY InitTypeInv, InitSeparate
<1>2. TypeInv /\ SeparateInv /\ [Next]_vars => (TypeInv /\ SeparateInv)'
  BY NextTypeInv, NextSeparate
<1>3. SeparateInv => NoBlindRetry
  BY DEF SeparateInv
<1> QED BY <1>1, <1>2, <1>3, PTL DEF Spec

----------------------------------------------------------------------------
(* The worker's availability: for any intervals that leave the window room  *)
(* (WindowAssumption), any store, releases, failed writes and restarts.     *)
(* WorkerToldTruly is not inductive: BeatInv adds how old the row can be    *)
(* after each write that failed, with the time left on the timers           *)
(* (RowTimely), which is where two probes have to be further apart than two *)
(* sleeps, and the same for what was probed (FlagTimely); LoopInv adds that *)
(* every file written so far was verified against the manifest that was     *)
(* read (WrittenVerified).                                                  *)

Manifests == [version : {"none", "ours", "other"}, sha : [Platforms -> Nat]]
Files == [sha : Nat, machine : Platforms]
Binaries == [platform : Platforms, sha : Nat, machine : Platforms]

BeatTyped ==
  /\ beat \in [at : {"sleep", "probe"}, wait : Nat, next : 0..ProbeInterval, reported : BOOLEAN]
  /\ probed \in [available : BOOLEAN, age : 0..Old]
  /\ beatRow \in [seen : 0..Late, available : BOOLEAN, age : 0..Old]
  /\ misses \in 0..MaxMisses /\ downFor \in 0..Late
  /\ up \in BOOLEAN /\ skipped \in BOOLEAN
LoopTyped ==
  loop \in [at : {"poll", "manifest", "download", "playbook"}, kind : {"linux", "windows"},
            manifest : Manifests, written : SUBSET Binaries]
StoreTyped ==
  store \in [up : BOOLEAN, releases : Nat, manifest : Manifests, file : [Platforms -> Files]]

(* The timers: a sleep is no longer than the interval, a probe no longer    *)
(* than its timeout, and it starts when one is due; nothing runs when down. *)
TimersSet ==
  /\ beat.at = "sleep" => beat.wait <= HeartbeatInterval
  /\ beat.at = "probe" => beat.wait <= ProbeTimeout /\ beat.next = 0
  /\ ~up => beat = FirstBeat
  /\ ~beat.reported /\ beat.next > 0 => skipped

(* The age of the row a failed write leaves, after none, one or two.        *)
SleepTime(n) ==
  IF n = 0 THEN HeartbeatInterval
  ELSE IF n = 1 THEN HeartbeatInterval + HeartbeatInterval
  ELSE HeartbeatInterval + HeartbeatInterval + HeartbeatInterval
RowTimely ==
  up /\ beat.reported /\ misses <= 2 =>
    \/ beat.at = "sleep" /\ beatRow.seen + beat.wait <= SleepTime(misses)
    \/ beat.at = "probe" /\ beatRow.seen + beat.wait <= SleepTime(misses) + ProbeTimeout
    \/ /\ beat.at = "sleep" /\ misses >= 1
       /\ beatRow.seen + beat.wait <= SleepTime(misses) + ProbeTimeout
       /\ ProbeInterval + beat.wait <= SleepTime(misses - 1) + beat.next

(* What the task remembers is what the row says, and how old it is.         *)
FlagTimely ==
  up /\ beat.reported /\ ~skipped =>
    /\ beatRow.available = probed.available /\ beatRow.age = probed.age
    /\ beat.at = "sleep" /\ beat.next > 0 => probed.age + beat.next <= ProbeInterval
    /\ beat.at = "sleep" /\ beat.next = 0 => probed.age + beat.wait <= ProbeInterval + HeartbeatInterval
    /\ beat.at = "probe" => probed.age + beat.wait <= ProbeInterval + HeartbeatInterval + ProbeTimeout

DownCounted == (up => downFor = 0) /\ downFor <= beatRow.seen

WrittenVerified ==
  /\ loop.at \in {"poll", "manifest"} => loop.written = {}
  /\ loop.at \in {"download", "playbook"} => loop.manifest.version = "ours"
  /\ \A w \in loop.written :
       /\ w.platform \in Wanted(loop.kind, loop.manifest)
       /\ w.machine = w.platform /\ w.sha = loop.manifest.sha[w.platform]
  /\ loop.at = "playbook" => Missing = {}

BeatInv == BeatTyped /\ TimersSet /\ RowTimely /\ FlagTimely /\ DownCounted
LoopInv == LoopTyped /\ StoreTyped /\ WrittenVerified

LEMMA BeatNumbers ==
  /\ HeartbeatInterval \in Nat /\ ProbeInterval \in Nat /\ ProbeTimeout \in Nat /\ WindowSeconds \in Nat
  /\ HeartbeatInterval > 0 /\ ProbeInterval > 0 /\ ProbeTimeout > 0 /\ WindowSeconds > 0
  /\ MaxMisses \in Nat /\ Late = WindowSeconds + 1 /\ Old = ProbeInterval + HeartbeatInterval + ProbeTimeout + 1
BY WorkerAssumption DEF Late, Old

LEMMA BeatFacts ==
  ASSUME BeatTyped
  PROVE  /\ beat.at \in {"sleep", "probe"} /\ beat.wait \in Nat /\ beat.next \in Nat /\ beat.next <= ProbeInterval
         /\ beat.reported \in BOOLEAN /\ probed.available \in BOOLEAN /\ probed.age \in Nat /\ probed.age <= Old
         /\ beatRow.seen \in Nat /\ beatRow.seen <= Late /\ beatRow.available \in BOOLEAN /\ beatRow.age \in Nat
         /\ beatRow.age <= Old /\ misses \in Nat /\ misses <= MaxMisses /\ downFor \in Nat /\ downFor <= Late
BY BeatNumbers DEF BeatTyped

\* A step that leaves the reporting task alone.
LEMMA BeatUntouched ==
  ASSUME BeatInv, UNCHANGED <<beatVars, up, downFor>>
  PROVE  BeatInv'
<1>1. UNCHANGED <<beat, probed, beatRow, misses, skipped, up, downFor>>
  BY DEF beatVars
<1>2. BeatTyped' /\ TimersSet' /\ DownCounted'
  BY <1>1 DEF BeatInv, BeatTyped, TimersSet, DownCounted
<1>3. RowTimely'
  BY <1>1 DEF BeatInv, RowTimely
<1>4. FlagTimely'
  BY <1>1 DEF BeatInv, FlagTimely
<1> QED
  BY <1>2, <1>3, <1>4 DEF BeatInv

LEMMA StartProbeKeeps ==
  ASSUME BeatInv, StartProbe
  PROVE  BeatInv'
<1>0. BeatTyped /\ TimersSet /\ RowTimely /\ FlagTimely /\ DownCounted
  BY DEF BeatInv
<1>1. /\ up /\ beat.at = "sleep" /\ beat.wait = 0 /\ beat.next = 0
      /\ beat' = [beat EXCEPT !.at = "probe", !.wait = ProbeTimeout]
      /\ UNCHANGED <<probed, beatRow, misses, skipped, up, downFor>>
  BY DEF StartProbe
<1>2. beat'.at = "probe" /\ beat'.wait = ProbeTimeout /\ beat'.next = 0 /\ beat'.reported = beat.reported
  BY <1>0, <1>1 DEF BeatTyped
<1>3. BeatTyped'
  BY <1>0, <1>1, BeatNumbers DEF BeatTyped
<1>4. TimersSet' /\ DownCounted'
  BY <1>0, <1>1, <1>2, BeatNumbers DEF TimersSet, DownCounted
<1>5. RowTimely'
  <2> SUFFICES ASSUME beat.reported, misses <= 2 PROVE beatRow.seen + ProbeTimeout <= SleepTime(misses) + ProbeTimeout
    BY <1>1, <1>2 DEF RowTimely
  <2>1. SleepTime(misses) \in Nat
    BY BeatNumbers DEF SleepTime
  <2>2. CASE beatRow.seen + beat.wait <= SleepTime(misses)
    BY <2>1, <2>2, <1>0, <1>1, BeatNumbers, BeatFacts
  <2>3. CASE misses >= 1 /\ ProbeInterval + beat.wait <= SleepTime(misses - 1) + beat.next
    <3>1. misses - 1 \in {0, 1}
      BY <2>3, <1>0, BeatFacts
    <3>2. SleepTime(misses - 1) <= HeartbeatInterval + HeartbeatInterval /\ SleepTime(misses - 1) \in Nat
      BY <3>1, BeatNumbers DEF SleepTime
    <3> QED
      BY <2>3, <3>2, <1>1, BeatNumbers, WindowAssumption
  <2> QED
    BY <2>2, <2>3, <1>0, <1>1 DEF RowTimely
<1>6. FlagTimely'
  <2> SUFFICES ASSUME beat.reported, ~skipped
               PROVE  /\ beatRow.available = probed.available /\ beatRow.age = probed.age
                      /\ probed.age + ProbeTimeout <= ProbeInterval + HeartbeatInterval + ProbeTimeout
    BY <1>1, <1>2 DEF FlagTimely
  <2>1. /\ beatRow.available = probed.available /\ beatRow.age = probed.age
        /\ probed.age + beat.wait <= ProbeInterval + HeartbeatInterval
    BY <1>0, <1>1 DEF FlagTimely
  <2> QED
    BY <2>1, <1>0, <1>1, BeatNumbers, BeatFacts
<1> QED
  BY <1>3, <1>4, <1>5, <1>6 DEF BeatInv

LEMMA ProbeEndsKeeps ==
  ASSUME BeatInv, NEW stored \in BOOLEAN, ProbeEnds(stored)
  PROVE  BeatInv'
<1>0. BeatTyped /\ TimersSet /\ RowTimely /\ FlagTimely /\ DownCounted
  BY DEF BeatInv
<1>1. /\ up /\ beat.at = "probe" /\ skipped' = ~stored /\ UNCHANGED <<up, downFor>>
      /\ beat' = [at |-> "sleep", wait |-> HeartbeatInterval, next |-> ProbeInterval, reported |-> beat.reported \/ stored]
  BY DEF ProbeEnds
<1>2. /\ beat'.at = "sleep" /\ beat'.wait = HeartbeatInterval /\ beat'.next = ProbeInterval
      /\ (stored => beat'.reported) /\ (~stored => beat'.reported = beat.reported)
  <2>1. beat.reported = TRUE \/ beat.reported = FALSE
    BY <1>0, BeatFacts
  <2> QED
    BY <1>1, <2>1
<1>3. TimersSet'
  <2>1. ~stored => skipped'
    BY <1>1
  <2> QED
    BY <1>1, <1>2, <2>1, BeatNumbers DEF TimersSet
<1>4. CASE stored
  <2>1. PICK a \in BOOLEAN : /\ beatRow' = [seen |-> 0, available |-> a, age |-> 0] /\ misses' = 0
                             /\ probed' = [available |-> a, age |-> 0]
    BY <1>4 DEF ProbeEnds, Record, ProbeAnswers
  <2>2. /\ beatRow'.seen = 0 /\ beatRow'.available = a /\ beatRow'.age = 0
        /\ probed'.available = a /\ probed'.age = 0
    BY <2>1
  <2>3. BeatTyped'
    BY <1>0, <1>1, <2>1, BeatNumbers DEF BeatTyped
  <2>4. DownCounted'
    BY <1>0, <1>1, <2>2 DEF DownCounted
  <2>5. RowTimely'
    BY <1>2, <2>1, <2>2, BeatNumbers DEF RowTimely, SleepTime
  <2>6. FlagTimely'
    BY <1>2, <2>2, BeatNumbers DEF FlagTimely
  <2> QED
    BY <1>3, <2>3, <2>4, <2>5, <2>6 DEF BeatInv
<1>5. CASE ~stored
  <2>1. UNCHANGED <<beatRow, probed>> /\ misses' = misses + 1 /\ misses < MaxMisses
    BY <1>5 DEF ProbeEnds, Record
  <2>2. BeatTyped'
    BY <1>0, <1>1, <2>1, BeatNumbers DEF BeatTyped
  <2>3. DownCounted' /\ FlagTimely'
    BY <1>0, <1>1, <1>5, <2>1 DEF DownCounted, FlagTimely
  <2>4. RowTimely'
    <3> SUFFICES ASSUME up', beat'.reported, misses' <= 2
                 PROVE  RowTimely'
      BY DEF RowTimely
    <3>1. beat.reported /\ misses \in {0, 1}
      <4>1. beat.reported
        BY <1>2, <1>5
      <4>2. misses \in {0, 1}
        BY <1>0, <2>1, BeatFacts
      <4> QED
        BY <4>1, <4>2
    <3>2. beatRow.seen + beat.wait <= SleepTime(misses) + ProbeTimeout
      BY <1>0, <1>1, <3>1 DEF RowTimely
    <3>3. CASE misses = 0
      <4>1. beatRow.seen + HeartbeatInterval <= HeartbeatInterval + HeartbeatInterval + ProbeTimeout /\ misses' = 1
        BY <3>2, <3>3, <1>0, <2>1, BeatNumbers, BeatFacts DEF SleepTime
      <4> QED
        BY <4>1, <1>2, <2>1, BeatNumbers DEF RowTimely, SleepTime
    <3>4. CASE misses = 1
      <4>1. /\ beatRow.seen + HeartbeatInterval <= HeartbeatInterval + HeartbeatInterval + HeartbeatInterval + ProbeTimeout
            /\ misses' = 2
        BY <3>2, <3>4, <1>0, <2>1, BeatNumbers, BeatFacts DEF SleepTime
      <4> QED
        BY <4>1, <1>2, <2>1, BeatNumbers DEF RowTimely, SleepTime
    <3> QED
      BY <3>1, <3>3, <3>4
  <2> QED
    BY <1>3, <2>2, <2>3, <2>4 DEF BeatInv
<1> QED
  BY <1>4, <1>5

LEMMA HeartbeatKeeps ==
  ASSUME BeatInv, NEW stored \in BOOLEAN, Heartbeat(stored)
  PROVE  BeatInv'
<1>0. BeatTyped /\ TimersSet /\ RowTimely /\ FlagTimely /\ DownCounted
  BY DEF BeatInv
<1>1. /\ up /\ beat.at = "sleep" /\ beat.wait = 0 /\ beat.next > 0 /\ UNCHANGED <<probed, skipped, up, downFor>>
      /\ beat' = [beat EXCEPT !.wait = HeartbeatInterval, !.reported = @ \/ stored]
  BY DEF Heartbeat
<1>2. /\ beat'.at = "sleep" /\ beat'.wait = HeartbeatInterval /\ beat'.next = beat.next
      /\ (stored => beat'.reported) /\ (~stored => beat'.reported = beat.reported)
  <2>1. beat.reported = TRUE \/ beat.reported = FALSE
    BY <1>0, BeatFacts
  <2> QED
    BY <1>0, <1>1, <2>1 DEF BeatTyped
<1>3. beat' \in [at : {"sleep", "probe"}, wait : Nat, next : 0..ProbeInterval, reported : BOOLEAN]
  BY <1>0, <1>1, BeatNumbers DEF BeatTyped
<1>4. TimersSet'
  BY <1>0, <1>1, <1>2, BeatNumbers DEF TimersSet
<1>5. CASE stored
  <2>1. beatRow' = [seen |-> 0, available |-> probed.available, age |-> probed.age] /\ misses' = 0
    BY <1>5 DEF Heartbeat, Record
  <2>2. beatRow'.seen = 0 /\ beatRow'.available = probed.available /\ beatRow'.age = probed.age
    BY <2>1
  <2>3. BeatTyped'
    BY <1>0, <1>1, <1>3, <2>1, BeatNumbers DEF BeatTyped
  <2>4. DownCounted'
    BY <1>0, <1>1, <2>2 DEF DownCounted
  <2>5. RowTimely'
    BY <1>2, <2>1, <2>2, BeatNumbers DEF RowTimely, SleepTime
  <2>6. FlagTimely'
    <3> SUFFICES ASSUME ~skipped PROVE probed.age + beat.next <= ProbeInterval
      BY <1>1, <1>2, <2>2 DEF FlagTimely
    <3>1. beat.reported
      BY <1>0, <1>1 DEF TimersSet
    <3> QED
      BY <1>0, <1>1, <3>1 DEF FlagTimely
  <2> QED
    BY <1>4, <2>3, <2>4, <2>5, <2>6 DEF BeatInv
<1>6. CASE ~stored
  <2>1. UNCHANGED beatRow /\ misses' = misses + 1 /\ misses < MaxMisses
    BY <1>6 DEF Heartbeat, Record
  <2>2. BeatTyped'
    BY <1>0, <1>1, <1>3, <2>1, BeatNumbers DEF BeatTyped
  <2>3. DownCounted' /\ FlagTimely'
    BY <1>0, <1>1, <1>2, <1>6, <2>1 DEF DownCounted, FlagTimely
  <2>4. RowTimely'
    <3> SUFFICES ASSUME up', beat'.reported, misses' <= 2
                 PROVE  RowTimely'
      BY DEF RowTimely
    <3>1. beat.reported /\ misses \in {0, 1}
      <4>1. beat.reported
        BY <1>2, <1>6
      <4>2. misses \in {0, 1}
        BY <1>0, <2>1, BeatFacts
      <4> QED
        BY <4>1, <4>2
    <3>2. \/ beatRow.seen <= SleepTime(misses)
          \/ /\ misses >= 1
             /\ beatRow.seen <= SleepTime(misses) + ProbeTimeout
             /\ ProbeInterval <= SleepTime(misses - 1) + beat.next
      <4>1. beatRow.seen + beat.wait = beatRow.seen /\ ProbeInterval + beat.wait = ProbeInterval
        BY <1>0, <1>1, BeatFacts, BeatNumbers
      <4> QED
        BY <1>0, <1>1, <3>1, <4>1 DEF RowTimely
    <3>3. CASE misses = 0
      <4>1. beatRow.seen + HeartbeatInterval <= HeartbeatInterval + HeartbeatInterval /\ misses' = 1
        BY <3>2, <3>3, <1>0, <2>1, BeatNumbers, BeatFacts DEF SleepTime
      <4> QED
        BY <4>1, <1>2, <2>1, BeatNumbers DEF RowTimely, SleepTime
    <3>4. CASE misses = 1
      <4>1. misses' = 2 /\ SleepTime(misses) = HeartbeatInterval + HeartbeatInterval /\ SleepTime(misses - 1) = HeartbeatInterval
        BY <3>4, <2>1 DEF SleepTime
      <4>2. CASE beatRow.seen <= SleepTime(misses)
        <5>1. beatRow.seen + HeartbeatInterval <= HeartbeatInterval + HeartbeatInterval + HeartbeatInterval
          BY <4>1, <4>2, <1>0, BeatNumbers, BeatFacts
        <5> QED
          BY <4>1, <5>1, <1>2, <2>1, BeatNumbers DEF RowTimely, SleepTime
      <4>3. CASE /\ beatRow.seen <= SleepTime(misses) + ProbeTimeout
                 /\ ProbeInterval <= SleepTime(misses - 1) + beat.next
        <5>1. /\ beatRow.seen + HeartbeatInterval <= HeartbeatInterval + HeartbeatInterval + HeartbeatInterval + ProbeTimeout
              /\ ProbeInterval + HeartbeatInterval <= HeartbeatInterval + HeartbeatInterval + beat.next
          BY <4>1, <4>3, <1>0, BeatNumbers, BeatFacts
        <5> QED
          BY <4>1, <5>1, <1>2, <2>1, BeatNumbers DEF RowTimely, SleepTime
      <4> QED
        BY <3>2, <4>2, <4>3
    <3> QED
      BY <3>1, <3>3, <3>4
  <2> QED
    BY <1>4, <2>2, <2>3, <2>4 DEF BeatInv
<1> QED
  BY <1>5, <1>6
LEMMA TimePasses ==
  ASSUME NEW age \in Nat, NEW bound \in Nat, age <= bound
  PROVE  Older(age, bound) \in 0..bound /\ Older(age, bound) <= age + 1
BY DEF Older

LEMMA TimerRuns ==
  ASSUME NEW n \in Nat
  PROVE  Down(n) \in 0..n /\ n <= Down(n) + 1 /\ (n > 0 => Down(n) = n - 1)
BY DEF Down

LEMMA TickKeeps ==
  ASSUME BeatInv, Tick
  PROVE  BeatInv'
<1>0. BeatTyped /\ TimersSet /\ RowTimely /\ FlagTimely /\ DownCounted
  BY DEF BeatInv
<1>1. /\ up => beat.wait > 0
      /\ beat' = [beat EXCEPT !.wait = Down(@), !.next = Down(@)]
      /\ probed' = [probed EXCEPT !.age = Older(@, Old)]
      /\ beatRow' = [beatRow EXCEPT !.seen = Older(@, Late), !.age = Older(@, Old)]
      /\ downFor' = IF up THEN 0 ELSE Older(downFor, Late)
      /\ UNCHANGED <<misses, skipped, up>>
  BY DEF Tick
<1>n. Late \in Nat /\ Old \in Nat
  BY BeatNumbers
<1>2. /\ beat'.at = beat.at /\ beat'.wait = Down(beat.wait) /\ beat'.next = Down(beat.next)
      /\ beat'.reported = beat.reported
  BY <1>0, <1>1 DEF BeatTyped
<1>3. probed'.available = probed.available /\ probed'.age = Older(probed.age, Old)
  BY <1>0, <1>1 DEF BeatTyped
<1>4. /\ beatRow'.available = beatRow.available /\ beatRow'.age = Older(beatRow.age, Old)
      /\ beatRow'.seen = Older(beatRow.seen, Late)
  BY <1>0, <1>1 DEF BeatTyped
<1>5. /\ Down(beat.wait) \in 0..beat.wait /\ beat.wait <= Down(beat.wait) + 1 /\ (beat.wait > 0 => Down(beat.wait) = beat.wait - 1)
      /\ Down(beat.next) \in 0..beat.next /\ beat.next <= Down(beat.next) + 1 /\ (beat.next > 0 => Down(beat.next) = beat.next - 1)
  BY <1>0, BeatFacts, TimerRuns
<1>6. /\ Older(probed.age, Old) \in 0..Old /\ Older(probed.age, Old) <= probed.age + 1
      /\ Older(beatRow.age, Old) \in 0..Old
      /\ Older(beatRow.seen, Late) \in 0..Late /\ Older(beatRow.seen, Late) <= beatRow.seen + 1
      /\ Older(downFor, Late) \in 0..Late
  BY <1>0, <1>n, BeatFacts, TimePasses
<1>7. BeatTyped'
  <2>1. beat' \in [at : {"sleep", "probe"}, wait : Nat, next : 0..ProbeInterval, reported : BOOLEAN]
    <3>1. Down(beat.wait) \in Nat /\ Down(beat.next) \in 0..ProbeInterval
      BY <1>0, <1>5, BeatFacts, BeatNumbers
    <3> QED
      BY <1>0, <1>1, <3>1 DEF BeatTyped
  <2>2. probed' \in [available : BOOLEAN, age : 0..Old]
    BY <1>0, <1>1, <1>6 DEF BeatTyped
  <2>3. beatRow' \in [seen : 0..Late, available : BOOLEAN, age : 0..Old]
    BY <1>0, <1>1, <1>6 DEF BeatTyped
  <2>4. downFor' \in 0..Late
    <3>1. CASE up
      BY <3>1, <1>1, <1>n
    <3>2. CASE ~up
      BY <3>2, <1>1, <1>6
    <3> QED
      BY <3>1, <3>2
  <2> QED
    BY <1>0, <1>1, <2>1, <2>2, <2>3, <2>4 DEF BeatTyped
<1>8. TimersSet'
  <2>1. beat.at = "sleep" => Down(beat.wait) <= HeartbeatInterval
    BY <1>0, <1>5, BeatFacts, BeatNumbers DEF TimersSet
  <2>2. beat.at = "probe" => Down(beat.wait) <= ProbeTimeout /\ Down(beat.next) = 0
    BY <1>0, <1>5, BeatFacts, BeatNumbers DEF TimersSet
  <2>3. ~up => beat' = FirstBeat
    <3> SUFFICES ASSUME ~up PROVE beat' = FirstBeat
      OBVIOUS
    <3>1. beat = FirstBeat
      BY <1>0 DEF TimersSet
    <3>2. FirstBeat.wait = 0 /\ FirstBeat.next = 0 /\ Down(0) = 0
      BY DEF FirstBeat, Down
    <3>3. beat' = [FirstBeat EXCEPT !.wait = 0, !.next = 0]
      BY <1>1, <3>1, <3>2
    <3> QED
      BY <3>3 DEF FirstBeat
  <2>4. Down(beat.next) > 0 => beat.next > 0
    BY <1>0, <1>5, BeatFacts
  <2>5. ~beat.reported /\ Down(beat.next) > 0 => skipped
    BY <1>0, <2>4 DEF TimersSet
  <2> QED
    BY <1>1, <1>2, <2>1, <2>2, <2>3, <2>5 DEF TimersSet
<1>9. DownCounted'
  <2>1. CASE up
    BY <2>1, <1>1, <1>4, <1>6, <1>n DEF DownCounted
  <2>2. CASE ~up
    <3>1. downFor <= beatRow.seen /\ downFor \in Nat /\ beatRow.seen \in Nat
      BY <1>0, BeatFacts DEF DownCounted
    <3>2. Older(downFor, Late) <= Older(beatRow.seen, Late)
      BY <3>1, <1>0, <1>n, BeatFacts DEF Older
    <3> QED
      BY <2>2, <3>2, <1>1, <1>4 DEF DownCounted
  <2> QED
    BY <2>1, <2>2
<1>10. RowTimely'
  <2> SUFFICES ASSUME up, beat.reported, misses <= 2 PROVE RowTimely'
    BY <1>1, <1>2 DEF RowTimely
  <2>a. PICK s, w, n : s = beatRow.seen /\ w = beat.wait /\ n = beat.next
    OBVIOUS
  <2>b. PICK s2, w2, n2 : s2 = Older(s, Late) /\ w2 = Down(w) /\ n2 = Down(n)
    OBVIOUS
  <2>c. PICK a, b : a = SleepTime(misses) /\ b = SleepTime(misses - 1)
    OBVIOUS
  <2>d. a \in Nat /\ b \in Nat
    BY <2>c, BeatNumbers DEF SleepTime
  <2>1. s \in Nat /\ w \in Nat /\ n \in Nat /\ s2 \in Nat /\ w2 \in Nat /\ n2 \in Nat
    BY <2>a, <2>b, <1>0, <1>5, <1>6, <1>n, BeatFacts
  <2>2. s2 <= s + 1 /\ w2 = w - 1 /\ n <= n2 + 1 /\ w > 0
    BY <2>a, <2>b, <1>1, <1>5, <1>6
  <2>3. beat'.at = beat.at /\ beat'.wait = w2 /\ beat'.next = n2 /\ beatRow'.seen = s2 /\ misses' = misses
    BY <2>a, <2>b, <1>1, <1>2, <1>4
  <2>4. SleepTime(misses)' = a /\ SleepTime(misses - 1)' = b
    BY <2>c, <1>1
  <2>5. CASE beat.at = "sleep" /\ s + w <= a
    <3>1. s2 + w2 <= a
      BY <2>1, <2>2, <2>5, <2>d
    <3> QED
      BY <2>3, <2>4, <2>5, <3>1 DEF RowTimely
  <2>6. CASE beat.at = "probe" /\ s + w <= a + ProbeTimeout
    <3>1. s2 + w2 <= a + ProbeTimeout
      BY <2>1, <2>2, <2>6, <2>d, BeatNumbers
    <3> QED
      BY <2>3, <2>4, <2>6, <3>1 DEF RowTimely
  <2>7. CASE beat.at = "sleep" /\ misses >= 1 /\ s + w <= a + ProbeTimeout /\ ProbeInterval + w <= b + n
    <3>1. s2 + w2 <= a + ProbeTimeout /\ ProbeInterval + w2 <= b + n2
      BY <2>1, <2>2, <2>7, <2>d, BeatNumbers
    <3> QED
      BY <2>3, <2>4, <2>7, <3>1 DEF RowTimely
  <2> QED
    BY <1>0, <2>a, <2>c, <2>5, <2>6, <2>7 DEF RowTimely
<1>11. FlagTimely'
  <2> SUFFICES ASSUME up, beat.reported, ~skipped PROVE FlagTimely'
    BY <1>1, <1>2 DEF FlagTimely
  <2>a. PICK g, w, n : g = probed.age /\ w = beat.wait /\ n = beat.next
    OBVIOUS
  <2>b. PICK g2, w2, n2 : g2 = Older(g, Old) /\ w2 = Down(w) /\ n2 = Down(n)
    OBVIOUS
  <2>1. g \in Nat /\ w \in Nat /\ n \in Nat /\ g2 \in Nat /\ w2 \in Nat /\ n2 \in Nat
    BY <2>a, <2>b, <1>0, <1>5, <1>6, <1>n, BeatFacts
  <2>2. g2 <= g + 1 /\ w2 = w - 1 /\ n2 <= n /\ (n > 0 => n2 = n - 1) /\ w > 0
    BY <2>a, <2>b, <2>1, <1>1, <1>5, <1>6
  <2>3. beat'.at = beat.at /\ beat'.wait = w2 /\ beat'.next = n2 /\ probed'.age = g2
    BY <2>a, <2>b, <1>2, <1>3
  <2>4. beatRow'.available = probed'.available /\ beatRow'.age = probed'.age
    BY <1>0, <1>3, <1>4 DEF FlagTimely
  <2>5. /\ beat.at = "sleep" /\ n > 0 => g + n <= ProbeInterval
        /\ beat.at = "sleep" /\ n = 0 => g + w <= ProbeInterval + HeartbeatInterval
        /\ beat.at = "probe" => g + w <= ProbeInterval + HeartbeatInterval + ProbeTimeout
    BY <1>0, <2>a DEF FlagTimely
  <2>6. beat.at = "sleep" => w <= HeartbeatInterval
    BY <1>0, <2>a DEF TimersSet
  <2>7. beat.at = "sleep" /\ n2 > 0 => g2 + n2 <= ProbeInterval
    BY <2>1, <2>2, <2>5, BeatNumbers
  <2>8. beat.at = "sleep" /\ n2 = 0 => g2 + w2 <= ProbeInterval + HeartbeatInterval
    BY <2>1, <2>2, <2>5, <2>6, BeatNumbers
  <2>9. beat.at = "probe" => g2 + w2 <= ProbeInterval + HeartbeatInterval + ProbeTimeout
    BY <2>1, <2>2, <2>5, BeatNumbers
  <2> QED
    BY <2>3, <2>4, <2>7, <2>8, <2>9 DEF FlagTimely
<1> QED
  BY <1>7, <1>8, <1>9, <1>10, <1>11 DEF BeatInv

LEMMA WorkerRestartKeeps ==
  ASSUME BeatInv, Restarts
  PROVE  BeatInv'
<1>0. BeatTyped /\ TimersSet /\ DownCounted
  BY DEF BeatInv
<1>f. /\ FirstBeat \in [at : {"sleep", "probe"}, wait : Nat, next : 0..ProbeInterval, reported : BOOLEAN]
      /\ FirstBeat.at = "sleep" /\ FirstBeat.wait = 0 /\ FirstBeat.next = 0 /\ FirstBeat.reported = FALSE
      /\ NotProbed \in [available : BOOLEAN, age : 0..Old]
  BY BeatNumbers DEF FirstBeat, NotProbed
<1>1. CASE WorkerStops
  <2>1. /\ up' = FALSE /\ beat' = FirstBeat /\ probed' = NotProbed /\ misses' = 0 /\ skipped' = FALSE
        /\ UNCHANGED <<beatRow, downFor>>
    BY <1>1 DEF WorkerStops
  <2>2. BeatTyped'
    <3>1. up' \in BOOLEAN /\ skipped' \in BOOLEAN
      BY <2>1
    <3>2. misses' \in 0..MaxMisses
      BY <2>1, BeatNumbers
    <3> QED
      BY <1>0, <1>f, <2>1, <3>1, <3>2 DEF BeatTyped
  <2>3. TimersSet'
    BY <1>f, <2>1, BeatNumbers DEF TimersSet
  <2>4. RowTimely' /\ FlagTimely'
    BY <2>1 DEF RowTimely, FlagTimely
  <2>5. DownCounted'
    BY <1>0, <2>1 DEF DownCounted
  <2> QED
    BY <2>2, <2>3, <2>4, <2>5 DEF BeatInv
<1>2. CASE WorkerStarts
  <2>1. ~up /\ up' = TRUE /\ downFor' = 0 /\ probed' = NotProbed /\ UNCHANGED <<beat, beatRow, misses, skipped>>
    BY <1>2 DEF WorkerStarts
  <2>2. beat = FirstBeat
    BY <1>0, <2>1 DEF TimersSet
  <2>3. BeatTyped'
    BY <1>0, <1>f, <2>1, BeatNumbers DEF BeatTyped
  <2>4. TimersSet'
    BY <1>0, <2>1 DEF TimersSet
  <2>5. ~beat'.reported
    BY <1>f, <2>1, <2>2
  <2>6. RowTimely' /\ FlagTimely'
    BY <2>5 DEF RowTimely, FlagTimely
  <2>7. beatRow.seen \in Nat
    BY <1>0, BeatFacts
  <2>8. DownCounted'
    BY <2>1, <2>7 DEF DownCounted
  <2> QED
    BY <2>3, <2>4, <2>6, <2>8 DEF BeatInv
<1> QED
  BY <1>1, <1>2 DEF Restarts

\* The loop at rest: nothing is written.
LEMMA LoopAtRest ==
  ASSUME StoreTyped, UNCHANGED store, loop' = Polling
  PROVE  LoopInv'
<1>1. Polling.at = "poll" /\ Polling.written = {} /\ Polling.manifest = NoManifest
  BY DEF Polling
<1>2. NoManifest \in Manifests
  BY DEF NoManifest, Manifests
<1>3. LoopTyped'
  BY <1>2 DEF LoopTyped, Polling
<1>4. WrittenVerified'
  BY <1>1 DEF WrittenVerified
<1> QED
  BY <1>3, <1>4 DEF LoopInv, StoreTyped

LEMMA LoopUntouched ==
  ASSUME LoopInv, UNCHANGED loop, StoreTyped'
  PROVE  LoopInv'
<1>1. LoopTyped'
  BY DEF LoopInv, LoopTyped
<1>2. WrittenVerified'
  BY DEF LoopInv, WrittenVerified, Missing
<1> QED
  BY <1>1, <1>2 DEF LoopInv

LEMMA PollKeeps ==
  ASSUME LoopInv, Poll
  PROVE  LoopInv'
<1>0. StoreTyped /\ UNCHANGED store
  BY DEF LoopInv, Poll
<1>1. StoreTyped'
  BY <1>0 DEF StoreTyped
<1>2. CASE UNCHANGED loop
  BY <1>1, <1>2, LoopUntouched
<1>3. ASSUME NEW k \in TargetKinds, loop' = [Polling EXCEPT !.at = "manifest", !.kind = k] PROVE LoopInv'
  <2>0. k \in {"linux", "windows"}
    BY WorkerAssumption
  <2>1. NoManifest \in Manifests
    BY DEF NoManifest, Manifests
  <2>2. loop'.at = "manifest" /\ loop'.written = {}
    BY <1>3 DEF Polling
  <2>3. LoopTyped'
    BY <1>3, <2>0, <2>1 DEF LoopTyped, Polling
  <2>4. WrittenVerified'
    BY <2>2 DEF WrittenVerified
  <2> QED
    BY <1>1, <2>3, <2>4 DEF LoopInv
<1> QED
  BY <1>2, <1>3 DEF Poll

LEMMA ReadManifestKeeps ==
  ASSUME LoopInv, ReadManifest
  PROVE  LoopInv'
<1>0. LoopTyped /\ StoreTyped /\ WrittenVerified /\ loop.at = "manifest" /\ UNCHANGED store
  BY DEF LoopInv, ReadManifest, JobFails
<1>1. PICK m : m = store.manifest
  OBVIOUS
<1>2. m \in Manifests
  BY <1>0, <1>1 DEF StoreTyped
<1>3. CASE m.version = "ours" /\ loop' = [loop EXCEPT !.at = "download", !.manifest = m]
  <2>1. loop'.at = "download" /\ loop'.written = {} /\ loop'.manifest = m
    BY <1>0, <1>3 DEF LoopTyped, WrittenVerified
  <2>2. LoopTyped'
    BY <1>0, <1>2, <1>3 DEF LoopTyped
  <2>3. WrittenVerified'
    BY <1>3, <2>1 DEF WrittenVerified
  <2> QED
    BY <1>0, <2>2, <2>3 DEF LoopInv, StoreTyped
<1>4. CASE JobFails
  BY <1>0, <1>4, LoopAtRest DEF JobFails
<1> QED
  BY <1>1, <1>3, <1>4 DEF ReadManifest

LEMMA DownloadKeeps ==
  ASSUME LoopInv, NEW p \in Platforms, Download(p)
  PROVE  LoopInv'
<1>0. LoopTyped /\ StoreTyped /\ WrittenVerified /\ loop.at = "download" /\ p \in Missing /\ UNCHANGED store
  BY DEF LoopInv, Download, JobFails
<1>1. CASE JobFails
  BY <1>0, <1>1, LoopAtRest DEF JobFails
<1>2. ASSUME Verified(p, store.file[p]),
             loop' = [loop EXCEPT !.written = @ \cup {[platform |-> p, sha |-> store.file[p].sha, machine |-> store.file[p].machine]}]
      PROVE  LoopInv'
  <2>1. PICK b : b = [platform |-> p, sha |-> store.file[p].sha, machine |-> store.file[p].machine]
    OBVIOUS
  <2>2. store.file[p] \in Files
    BY <1>0 DEF StoreTyped
  <2>3. b \in Binaries
    BY <2>1, <2>2 DEF Files, Binaries
  <2>4. b.platform = p /\ b.sha = loop.manifest.sha[p] /\ b.machine = p
    BY <1>2, <2>1 DEF Verified
  <2>5. loop' = [loop EXCEPT !.written = @ \cup {b}]
    BY <1>2, <2>1
  <2>6. LoopTyped'
    BY <1>0, <2>3, <2>5 DEF LoopTyped
  <2>7. loop'.at = "download" /\ loop'.kind = loop.kind /\ loop'.manifest = loop.manifest /\ loop'.written = loop.written \cup {b}
    BY <1>0, <2>5 DEF LoopTyped
  <2>8. p \in Wanted(loop.kind, loop.manifest)
    BY <1>0 DEF Missing
  <2>9. \A w \in loop'.written :
          /\ w.platform \in Wanted(loop.kind, loop.manifest)
          /\ w.machine = w.platform /\ w.sha = loop.manifest.sha[w.platform]
    BY <1>0, <2>4, <2>7, <2>8 DEF WrittenVerified
  <2>10. WrittenVerified'
    <3>1. \A w \in loop'.written :
            /\ w.platform \in Wanted(loop'.kind, loop'.manifest)
            /\ w.machine = w.platform /\ w.sha = loop'.manifest.sha[w.platform]
      BY <2>7, <2>9
    <3>2. loop'.manifest.version = "ours"
      BY <1>0, <2>7 DEF WrittenVerified
    <3> QED
      BY <2>7, <3>1, <3>2 DEF WrittenVerified
  <2> QED
    BY <1>0, <2>6, <2>10 DEF LoopInv, StoreTyped
<1> QED
  BY <1>1, <1>2 DEF Download

LEMMA RunPlaybookKeeps ==
  ASSUME LoopInv, RunPlaybook
  PROVE  LoopInv'
<1>0. LoopTyped /\ StoreTyped /\ WrittenVerified /\ loop.at = "download" /\ Missing = {} /\ UNCHANGED store
      /\ loop' = [loop EXCEPT !.at = "playbook"]
  BY DEF LoopInv, RunPlaybook
<1>1. LoopTyped'
  BY <1>0 DEF LoopTyped
<1>2. loop'.at = "playbook" /\ loop'.kind = loop.kind /\ loop'.manifest = loop.manifest /\ loop'.written = loop.written
  BY <1>0 DEF LoopTyped
<1>3. Missing' = Missing
  BY <1>2 DEF Missing
<1>4. \A w \in loop'.written :
        /\ w.platform \in Wanted(loop'.kind, loop'.manifest)
        /\ w.machine = w.platform /\ w.sha = loop'.manifest.sha[w.platform]
  BY <1>0, <1>2 DEF WrittenVerified
<1>5. loop'.manifest.version = "ours"
  BY <1>0, <1>2 DEF WrittenVerified
<1>6. WrittenVerified'
  BY <1>0, <1>2, <1>3, <1>4, <1>5 DEF WrittenVerified
<1> QED
  BY <1>0, <1>1, <1>6 DEF LoopInv, StoreTyped

LEMMA StoreKeeps ==
  ASSUME LoopInv, StoreNext
  PROVE  LoopInv'
<1>0. StoreTyped
  BY DEF LoopInv
<1>1. CASE StoreFails
  <2>1. UNCHANGED loop /\ store' = [store EXCEPT !.up = ~@]
    BY <1>1 DEF StoreFails
  <2>2. StoreTyped'
    BY <1>0, <2>1 DEF StoreTyped
  <2> QED
    BY <2>1, <2>2, LoopUntouched
<1>2. ASSUME NEW p \in Platforms, NEW q \in Platforms, PublishFile(p, q) PROVE LoopInv'
  <2>0. store.releases + 1 \in Nat
    BY <1>0 DEF StoreTyped
  <2>1. PICK f : f = [sha |-> store.releases + 1, machine |-> q]
    OBVIOUS
  <2>2. f \in Files
    BY <2>0, <2>1 DEF Files
  <2>3. PICK g : g = [store.file EXCEPT ![p] = f]
    OBVIOUS
  <2>4. g \in [Platforms -> Files]
    BY <1>0, <2>2, <2>3 DEF StoreTyped
  <2>5. UNCHANGED loop /\ store' = [store EXCEPT !.releases = store.releases + 1, !.file = g]
    BY <1>2, <2>1, <2>3, <1>0 DEF PublishFile, StoreTyped
  <2>6. StoreTyped'
    BY <1>0, <2>0, <2>4, <2>5 DEF StoreTyped
  <2> QED
    BY <2>5, <2>6, LoopUntouched
<1>3. ASSUME NEW version \in {"ours", "other"}, NEW listed \in SUBSET Platforms, PublishManifest(version, listed) PROVE LoopInv'
  <2>0. store.releases + 1 \in Nat
    BY <1>0 DEF StoreTyped
  <2>1. PICK h : h = [p \in Platforms |-> IF p \in listed THEN store.file[p].sha ELSE 0]
    OBVIOUS
  <2>2. \A p \in Platforms : store.file[p].sha \in Nat
    BY <1>0 DEF StoreTyped, Files
  <2>3. h \in [Platforms -> Nat]
    BY <2>1, <2>2
  <2>4. PICK m : m = [version |-> version, sha |-> h]
    OBVIOUS
  <2>5. m \in Manifests
    BY <2>3, <2>4 DEF Manifests
  <2>6. UNCHANGED loop /\ store' = [store EXCEPT !.releases = store.releases + 1, !.manifest = m]
    BY <1>3, <2>1, <2>4 DEF PublishManifest
  <2>7. StoreTyped'
    BY <1>0, <2>0, <2>5, <2>6 DEF StoreTyped
  <2> QED
    BY <2>6, <2>7, LoopUntouched
<1> QED
  BY <1>1, <1>2, <1>3 DEF StoreNext

LEMMA WorkerKept ==
  ASSUME BeatInv, LoopInv, [WorkerNext]_workerVars
  PROVE  BeatInv' /\ LoopInv'
<1>0. StoreTyped
  BY DEF LoopInv
<1>1. CASE BeatNext
  <2>1. UNCHANGED <<loop, store>>
    BY <1>1 DEF BeatNext, StartProbe, ProbeEnds, Heartbeat, Tick
  <2>2. StoreTyped'
    BY <1>0, <2>1 DEF StoreTyped
  <2>3. LoopInv'
    BY <2>1, <2>2, LoopUntouched
  <2>4. BeatInv'
    BY <1>1, StartProbeKeeps, ProbeEndsKeeps, HeartbeatKeeps, TickKeeps DEF BeatNext
  <2> QED
    BY <2>3, <2>4
<1>2. CASE LoopNext
  <2>1. UNCHANGED <<beatVars, up, downFor>>
    BY <1>2 DEF LoopNext, Poll, ReadManifest, Download, RunPlaybook, DeploymentEnds, JobFails
  <2>2. DeploymentEnds => LoopInv'
    <3>1. DeploymentEnds => UNCHANGED store /\ loop' = Polling
      BY DEF DeploymentEnds, JobFails
    <3> QED
      BY <1>0, <3>1, LoopAtRest
  <2>3. LoopInv'
    BY <1>2, <2>2, PollKeeps, ReadManifestKeeps, DownloadKeeps, RunPlaybookKeeps DEF LoopNext
  <2> QED
    BY <2>1, <2>3, BeatUntouched
<1>3. CASE StoreNext
  <2>1. UNCHANGED <<beatVars, up, downFor>>
    BY <1>3 DEF StoreNext, StoreFails, PublishFile, PublishManifest
  <2> QED
    BY <1>3, <2>1, BeatUntouched, StoreKeeps
<1>4. CASE Restarts
  <2>1. UNCHANGED store /\ (loop' = Polling \/ UNCHANGED loop)
    BY <1>4 DEF Restarts, WorkerStops, WorkerStarts
  <2>2. StoreTyped'
    BY <1>0, <2>1 DEF StoreTyped
  <2>3. LoopInv'
    BY <1>0, <2>1, <2>2, LoopAtRest, LoopUntouched
  <2> QED
    BY <1>4, <2>3, WorkerRestartKeeps
<1>5. CASE UNCHANGED workerVars
  <2>1. UNCHANGED <<beatVars, up, downFor>> /\ UNCHANGED <<loop, store>>
    BY <1>5 DEF workerVars
  <2>2. StoreTyped'
    BY <1>0, <2>1 DEF StoreTyped
  <2> QED
    BY <2>1, <2>2, BeatUntouched, LoopUntouched
<1> QED
  BY <1>1, <1>2, <1>3, <1>4, <1>5 DEF WorkerNext

LEMMA WorkerBegins ==
  ASSUME WorkerInit
  PROVE  BeatInv /\ LoopInv
<1>f. /\ FirstBeat \in [at : {"sleep", "probe"}, wait : Nat, next : 0..ProbeInterval, reported : BOOLEAN]
      /\ FirstBeat.at = "sleep" /\ FirstBeat.wait = 0 /\ FirstBeat.next = 0 /\ FirstBeat.reported = FALSE
      /\ NotProbed \in [available : BOOLEAN, age : 0..Old]
  BY BeatNumbers DEF FirstBeat, NotProbed
<1>0. /\ beat = FirstBeat /\ probed = NotProbed /\ beatRow = [seen |-> Late, available |-> FALSE, age |-> Old]
      /\ misses = 0 /\ skipped = FALSE /\ loop = Polling /\ up = TRUE /\ downFor = 0
  BY DEF WorkerInit
<1>1. BeatTyped
  <2>1. up \in BOOLEAN /\ skipped \in BOOLEAN
    BY <1>0
  <2>2. misses \in 0..MaxMisses /\ downFor \in 0..Late /\ Late \in 0..Late /\ Old \in 0..Old
    BY <1>0, BeatNumbers
  <2> QED
    BY <1>f, <1>0, <2>1, <2>2 DEF BeatTyped
<1>2. TimersSet
  BY <1>f, <1>0, BeatNumbers DEF TimersSet
<1>3. RowTimely /\ FlagTimely
  BY <1>f, <1>0 DEF RowTimely, FlagTimely
<1>4. DownCounted
  BY <1>0, BeatNumbers DEF DownCounted
<1>5. StoreTyped
  <2>1. PICK m : m = [version |-> "ours", sha |-> [p \in Platforms |-> 1]]
    OBVIOUS
  <2>2. PICK f : f = [p \in Platforms |-> [sha |-> 1, machine |-> p]]
    OBVIOUS
  <2>3. m \in Manifests
    BY <2>1 DEF Manifests
  <2>4. f \in [Platforms -> Files]
    BY <2>2 DEF Files
  <2>5. store = [up |-> TRUE, releases |-> 1, manifest |-> m, file |-> f]
    BY <2>1, <2>2 DEF WorkerInit
  <2> QED
    BY <2>3, <2>4, <2>5 DEF StoreTyped
<1>6. LoopTyped
  <2>1. NoManifest \in Manifests
    BY DEF NoManifest, Manifests
  <2> QED
    BY <1>0, <2>1 DEF LoopTyped, Polling
<1>7. WrittenVerified
  <2>1. loop.at = "poll" /\ loop.written = {}
    BY <1>0 DEF Polling
  <2> QED
    BY <2>1 DEF WrittenVerified
<1> QED
  BY <1>1, <1>2, <1>3, <1>4, <1>5, <1>6, <1>7 DEF BeatInv, LoopInv

LEMMA WorkerInvMeans ==
  ASSUME BeatInv, LoopInv
  PROVE  WorkerToldTruly
<1>0. BeatTyped /\ TimersSet /\ RowTimely /\ FlagTimely /\ DownCounted /\ LoopTyped /\ WrittenVerified
  BY DEF BeatInv, LoopInv
<1>1. WorkerTypeOK
  BY <1>0 DEF WorkerTypeOK, BeatTyped, LoopTyped
<1>2. LiveIsAvailable
  <2> SUFFICES ASSUME up, beat.reported, misses <= 2 PROVE beatRow.seen <= WindowSeconds
    BY DEF LiveIsAvailable, Available
  <2>1. SleepTime(misses) \in Nat /\ SleepTime(misses) <= HeartbeatInterval + HeartbeatInterval + HeartbeatInterval
    BY BeatNumbers DEF SleepTime
  <2>2. beatRow.seen + beat.wait <= SleepTime(misses) \/ beatRow.seen + beat.wait <= SleepTime(misses) + ProbeTimeout
    BY <1>0 DEF RowTimely
  <2> QED
    BY <1>0, <2>1, <2>2, BeatFacts, BeatNumbers, WindowAssumption
<1>3. DeadIsNoticed
  BY <1>0, BeatFacts, BeatNumbers DEF DeadIsNoticed, Available, DownCounted
<1>4. StoreFlagIsRecent
  <2> SUFFICES ASSUME up, beat.reported, ~skipped
               PROVE  /\ beatRow.available = probed.available
                      /\ beatRow.age <= ProbeInterval + HeartbeatInterval + ProbeTimeout
    BY DEF StoreFlagIsRecent
  <2>1. /\ beatRow.available = probed.available /\ beatRow.age = probed.age
        /\ beat.at = "sleep" /\ beat.next > 0 => probed.age + beat.next <= ProbeInterval
        /\ beat.at = "sleep" /\ beat.next = 0 => probed.age + beat.wait <= ProbeInterval + HeartbeatInterval
        /\ beat.at = "probe" => probed.age + beat.wait <= ProbeInterval + HeartbeatInterval + ProbeTimeout
    BY <1>0 DEF FlagTimely
  <2>2. CASE beat.at = "sleep" /\ beat.next > 0
    BY <1>0, <2>1, <2>2, BeatFacts, BeatNumbers
  <2>3. CASE beat.at = "sleep" /\ beat.next = 0
    BY <1>0, <2>1, <2>3, BeatFacts, BeatNumbers
  <2>4. CASE beat.at = "probe"
    BY <1>0, <2>1, <2>4, BeatFacts, BeatNumbers
  <2>5. beat.next > 0 \/ beat.next = 0
    BY <1>0, BeatFacts
  <2> QED
    BY <1>0, <2>2, <2>3, <2>4, <2>5, BeatFacts
<1>5. BinariesVerified
  <2> SUFFICES ASSUME loop.at = "playbook"
               PROVE  {w.platform : w \in loop.written} = Wanted(loop.kind, loop.manifest)
    BY <1>0 DEF BinariesVerified, WrittenVerified
  <2>1. Missing = {} /\ \A w \in loop.written : w.platform \in Wanted(loop.kind, loop.manifest)
    BY <1>0 DEF WrittenVerified
  <2>2. \A x \in Wanted(loop.kind, loop.manifest) : x \in {w.platform : w \in loop.written}
    BY <2>1 DEF Missing
  <2>3. \A x \in {w.platform : w \in loop.written} : x \in Wanted(loop.kind, loop.manifest)
    BY <2>1
  <2> QED
    BY <2>2, <2>3
<1> QED
  BY <1>1, <1>2, <1>3, <1>4, <1>5 DEF WorkerToldTruly

(* However the probes, writes and restarts fall, the controller's picture   *)
(* of the worker is true within the window and what a playbook gets was     *)
(* verified (report_availability, availability_dto, resolve).               *)
THEOREM WorkerAlwaysToldTruly == WorkerSpec => []WorkerToldTruly
<1>1. WorkerInit => BeatInv /\ LoopInv
  BY WorkerBegins
<1>2. (BeatInv /\ LoopInv) /\ [WorkerNext]_workerVars => (BeatInv /\ LoopInv)'
  BY WorkerKept
<1>3. BeatInv /\ LoopInv => WorkerToldTruly
  BY WorkerInvMeans
<1> QED
  BY <1>1, <1>2, <1>3, PTL DEF WorkerSpec

(***************************************************************************)
(* The workflows of a Windows target                                       *)
(*                                                                         *)
(* Rows, the agent, the helper of an update and the handlers of reports    *)
(* move independently, and a worker's recovery may change a row under all  *)
(* of them.  The invariant says, for an apply, who may still have a say in *)
(* it (ApplySound, HelperSound): once the agent took it, started it or     *)
(* reported it, the row never becomes claimable again, and a refusal still *)
(* to be written is one of a job nobody took.  A success is passed on from *)
(* the host to the row only (SuccessSound).  While one fault is tolerated  *)
(* the one helper at work knows the service's binary (InstallSound).  An   *)
(* answer is awaited by the one that reported (LiveSound), so that an      *)
(* executing row is held by someone (HandsSound), in the status it was     *)
(* claimed with (ClaimSound).                                              *)
(***************************************************************************)

Working == {"download", "stage", "stop", "switch", "start", "verify", "rollback", "restore"}
HelperPlaces == Working \cup {"none", "report", "wait", "done"}
WorkRec == [op : Operation \cup {"none"}, mode : Mode \cup {"none"}, src : 0..MaxWorkflows]
AgentRec == [up : BOOLEAN, pc : {"idle", "run", "running", "report", "wait"},
             job : 0..MaxWorkflows, ok : BOOLEAN, bin : {"old", "new"}]
PostRec == [job : WorkId, to : {"succeeded", "failed", "reconcile_required"}, pc : {"update", "events"}, live : BOOLEAN]
HelperRec == [pc : HelperPlaces, previous : {"old", "new"}, ok : BOOLEAN]

TableTyped ==
  /\ work \in [WorkId -> WorkRec]
  /\ state \in [WorkId -> {"none", "queued", "checking", "applying", "succeeded", "failed", "reconcile_required"}]
  /\ good \subseteq WorkId /\ recovered \subseteq WorkId
HostTyped ==
  /\ updater \in [WorkId -> HelperRec]
  /\ service \in {"old", "new"} /\ runs \in [WorkId -> Nat]
AgentTyped ==
  /\ agent \in AgentRec /\ posts \subseteq PostRec
  /\ results \subseteq WorkId \X BOOLEAN /\ IsFiniteSet(results) /\ Cardinality(results) <= MaxResults
BudgetTyped == budget \in [{"recoveries", "retries", "faults"} -> Nat]
AgentSound ==
  /\ ~agent.up => agent = Ended
  /\ agent.pc = "idle" <=> agent.job = 0
  /\ agent.pc = "running" => ~IsUpdate(agent.job)

OneExecutes == \A i, j \in WorkId : state[i] \in Executing /\ state[j] \in Executing => i = j

\* A row that is not there yet leaves no trace.
NoTrace(j) ==
  state[j] = "none" =>
    /\ work[j] = Free /\ runs[j] = 0 /\ updater[j] = NoUpdater /\ agent.job # j
    /\ j \notin good /\ j \notin recovered /\ \A p \in posts : p.job # j

\* The reports of j that are not refusals, and the refusals still to be written.
OwnPosts(j) == {p \in posts : p.job = j /\ p.to # "failed"}
Refusals(j) == {p \in posts : p.job = j /\ p.to = "failed" /\ p.pc = "update"}
Handed(j) == runs[j] # 0 \/ agent.job = j \/ OwnPosts(j) # {}
\* An apply that was handed to the agent is never claimable again.
ApplySound(j) ==
  work[j].mode = "apply" =>
    /\ runs[j] <= 1
    /\ Handed(j) => state[j] \in {"applying", "succeeded", "reconcile_required"}
    /\ Refusals(j) # {} => ~Handed(j) /\ state[j] \in {"applying", "reconcile_required"}
    /\ agent.job = j /\ agent.pc \in {"run", "running"} =>
         OwnPosts(j) = {} /\ (j \notin recovered => state[j] = "applying")
    /\ agent.job = j /\ (agent.pc = "run" \/ IsUpdate(j)) => runs[j] = 0
\* A helper at work has its row to itself until a recovery takes it.
HelperSound(j) ==
  /\ updater[j].pc # "none" => runs[j] # 0 /\ IsUpdate(j)
  /\ updater[j].pc \in Working => OwnPosts(j) = {} /\ (j \notin recovered => state[j] = "applying")

\* What is said of a success is true of the host.
SuccessSound ==
  /\ \A j \in WorkId : state[j] = "succeeded" \/ updater[j].ok \/ <<j, TRUE>> \in results => j \in good
  /\ \A p \in posts : p.to = "succeeded" => p.job \in good
  /\ agent.pc \in {"report", "wait"} /\ agent.ok => agent.job \in good

\* While one fault is tolerated: an installed update stays, and the helper
\* knows the binary the service would go back to.
Tolerated == recovered = {} /\ budget.faults <= 1
GoodUpdate == \E j \in good : IsUpdate(j)
AtHelper(S) == \E j \in WorkId : updater[j].pc \in S
HelperAt(j) ==
  LET u == updater[j] IN
  /\ u.pc \in {"download", "stage", "stop", "switch"} => u.previous = service
  /\ u.pc \in {"stop", "switch", "start", "verify", "rollback", "restore"} => u.previous = "old" /\ ~GoodUpdate
  /\ u.pc = "restore" => ~agent.up
  /\ u.pc \in {"switch", "start"} => ~agent.up \/ budget.faults = 1
  /\ u.pc \in {"start", "verify"} => service = "new"
  /\ u.pc = "verify" => IF agent.up THEN agent.bin = "new" ELSE budget.faults = 1
  /\ u.pc \in {"rollback", "restore"} => budget.faults = 1
InstallSound ==
  Tolerated =>
    /\ GoodUpdate => service = "new"
    /\ agent.up /\ ~AtHelper({"start", "verify", "rollback"}) => agent.bin = service
    /\ \A j \in WorkId : HelperAt(j)

\* The reporter of a post that is still answered waits for it.
LiveSound ==
  /\ \A p \in posts : p.live => (agent.job = p.job /\ agent.pc = "wait") \/ updater[p.job].pc = "wait"
  /\ \A p, q \in posts : p.live /\ q.live /\ p.job = q.job => p = q

\* Who holds a row that executes.
Held(j) ==
  \/ agent.job = j /\ agent.pc \in {"run", "running", "report"}
  \/ updater[j].pc \in Working \cup {"report"}
  \/ \E p \in posts : p.job = j /\ p.pc = "update"
HandsSound == budget.faults = 0 /\ recovered = {} => \A j \in WorkId : state[j] \in Executing => Held(j)

\* A row executes in the status of its claim until its job is queued again.
ClaimSound ==
  /\ \A j \in WorkId : state[j] \in Executing => state[j] = ClaimedStatus(j)
  /\ budget.retries = 0 => \A j \in WorkId :
       agent.job = j \/ updater[j].pc # "none" => state[j] \in Executing \cup Final

WindowsInv ==
  /\ TableTyped /\ HostTyped /\ AgentTyped /\ BudgetTyped /\ AgentSound /\ OneExecutes
  /\ (\A j \in WorkId : NoTrace(j) /\ ApplySound(j) /\ HelperSound(j))
  /\ SuccessSound /\ InstallSound /\ LiveSound /\ HandsSound /\ ClaimSound

LEMMA WindowsParts ==
  ASSUME WindowsInv
  PROVE  /\ TableTyped /\ HostTyped /\ AgentTyped /\ BudgetTyped /\ AgentSound /\ OneExecutes
         /\ (\A j \in WorkId : NoTrace(j)) /\ (\A j \in WorkId : ApplySound(j)) /\ (\A j \in WorkId : HelperSound(j))
         /\ SuccessSound /\ InstallSound /\ LiveSound /\ HandsSound /\ ClaimSound
BY DEF WindowsInv

LEMMA JobNumbers == 0 \in 0..MaxWorkflows /\ \A j \in WorkId : j \in 0..MaxWorkflows /\ j # 0
BY WindowsAssumption DEF WorkId

LEMMA InsertKeeps ==
  ASSUME WindowsInv, NEW j \in WorkId, NEW spec \in WorkRec, Insert(j, spec)
  PROVE  WindowsInv'
<1> USE WindowsParts, JobNumbers
<1>a. state[j] = "none"
  BY DEF Insert, WorkId
<1>b. /\ work[j] = Free /\ runs[j] = 0 /\ updater[j] = NoUpdater /\ agent.job # j
      /\ j \notin good /\ j \notin recovered /\ \A p \in posts : p.job # j
  BY <1>a DEF NoTrace
<1>c. updater[j].pc = "none"
  BY <1>b DEF NoUpdater
<1>d. \A i \in WorkId \ {j} : work'[i] = work[i] /\ state'[i] = state[i]
  BY DEF Insert, TableTyped
<1>e. work'[j] = spec /\ state'[j] = "queued" /\ UNCHANGED <<agent, results, posts, updater, service, runs, good, recovered, budget>>
  BY DEF Insert, TableTyped, host
<1>1. TableTyped'
  BY <1>a, <1>b, <1>c, <1>d, <1>e DEF TableTyped, WorkRec, Insert, table, host, WorkId, HostTyped
<1>2. HostTyped'
  BY <1>a, <1>b, <1>c, <1>d, <1>e DEF HostTyped, HelperRec, HelperPlaces, Working, Insert,
     table, host, WorkId, TableTyped
<1>3. AgentTyped'
  BY <1>a, <1>b, <1>c, <1>d, <1>e DEF AgentTyped, AgentRec, PostRec, Insert, table, host,
     WorkId, TableTyped, HostTyped
<1>4. BudgetTyped'
  BY <1>a, <1>b, <1>c, <1>d, <1>e DEF BudgetTyped, Insert, table, host, WorkId, TableTyped,
     HostTyped
<1>5. AgentSound'
  BY <1>a, <1>b, <1>c, <1>d, <1>e DEF AgentSound, Ended, IsUpdate, Insert, table, host, WorkId,
     TableTyped, HostTyped
<1>6. OneExecutes'
  BY <1>a, <1>b, <1>c, <1>d, <1>e DEF OneExecutes, Executing, Insert, table, host, WorkId,
     TableTyped, HostTyped
<1>7. ASSUME NEW k \in WorkId PROVE NoTrace(k)'
  BY <1>7, <1>a, <1>b, <1>c, <1>d, <1>e DEF NoTrace, Insert, table, host, WorkId, TableTyped,
     HostTyped
<1>8. ASSUME NEW k \in WorkId PROVE ApplySound(k)'
  BY <1>8, <1>a, <1>b, <1>c, <1>d, <1>e DEF ApplySound, Handed, OwnPosts, Refusals, IsUpdate,
     Insert, table, host, WorkId, TableTyped, HostTyped
<1>9. ASSUME NEW k \in WorkId PROVE HelperSound(k)'
  BY <1>9, <1>a, <1>b, <1>c, <1>d, <1>e DEF HelperSound, OwnPosts, IsUpdate, Working, Insert,
     table, host, WorkId, TableTyped, HostTyped
<1>10. SuccessSound'
  BY <1>a, <1>b, <1>c, <1>d, <1>e DEF SuccessSound, Insert, table, host, WorkId, TableTyped,
     HostTyped
<1>11. InstallSound'
  BY <1>a, <1>b, <1>c, <1>d, <1>e DEF InstallSound, HelperAt, Tolerated, GoodUpdate, AtHelper,
     IsUpdate, Insert, table, host, WorkId, TableTyped, HostTyped
<1>12. LiveSound'
  BY <1>a, <1>b, <1>c, <1>d, <1>e DEF LiveSound, Insert, table, host, WorkId, TableTyped, HostTyped
<1>13. HandsSound'
  BY <1>a, <1>b, <1>c, <1>d, <1>e DEF HandsSound, Held, Executing, Working, Insert, table, host,
     WorkId, TableTyped, HostTyped
<1>14. ClaimSound'
  BY <1>a, <1>b, <1>c, <1>d, <1>e DEF ClaimSound, ClaimedStatus, Executing, Final, Insert,
     table, host, WorkId, TableTyped, HostTyped
<1> QED BY <1>1, <1>2, <1>3, <1>4, <1>5, <1>6, <1>7, <1>8, <1>9, <1>10, <1>11, <1>12, <1>13,
   <1>14 DEF WindowsInv

LEMMA RetryKeeps ==
  ASSUME WindowsInv, NEW j \in WorkId, RetryWindowsJob(j)
  PROVE  WindowsInv'
<1> USE WindowsParts, JobNumbers
<1>1. TableTyped'
  BY DEF TableTyped, WorkRec, RetryWindowsJob, CanRetry, Spend, host, WorkId, HostTyped
<1>2. HostTyped'
  BY DEF HostTyped, HelperRec, HelperPlaces, Working, RetryWindowsJob, CanRetry, Spend, host,
     WorkId, TableTyped
<1>3. AgentTyped'
  BY DEF AgentTyped, AgentRec, PostRec, RetryWindowsJob, CanRetry, Spend, host, WorkId,
     TableTyped, HostTyped
<1>4. BudgetTyped'
  BY DEF BudgetTyped, RetryWindowsJob, CanRetry, Spend, host, WorkId, TableTyped, HostTyped
<1>5. AgentSound'
  BY DEF AgentSound, Ended, IsUpdate, RetryWindowsJob, CanRetry, Spend, host, WorkId,
     TableTyped, HostTyped
<1>6. OneExecutes'
  BY DEF OneExecutes, Executing, RetryWindowsJob, CanRetry, Spend, host, WorkId, TableTyped,
     HostTyped
<1>7. ASSUME NEW k \in WorkId PROVE NoTrace(k)'
  BY <1>7 DEF NoTrace, RetryWindowsJob, CanRetry, Spend, host, WorkId, TableTyped, HostTyped
<1>8. ASSUME NEW k \in WorkId PROVE ApplySound(k)'
  BY <1>8 DEF ApplySound, Handed, OwnPosts, Refusals, IsUpdate, RetryWindowsJob, CanRetry,
     Spend, host, WorkId, TableTyped, HostTyped
<1>9. ASSUME NEW k \in WorkId PROVE HelperSound(k)'
  BY <1>9 DEF HelperSound, OwnPosts, IsUpdate, Working, RetryWindowsJob, CanRetry, Spend, host,
     WorkId, TableTyped, HostTyped
<1>10. SuccessSound'
  BY DEF SuccessSound, RetryWindowsJob, CanRetry, Spend, host, WorkId, TableTyped, HostTyped
<1>11. InstallSound'
  BY DEF InstallSound, HelperAt, Tolerated, GoodUpdate, AtHelper, IsUpdate, RetryWindowsJob,
     CanRetry, Spend, host, WorkId, TableTyped, HostTyped
<1>12. LiveSound'
  BY DEF LiveSound, RetryWindowsJob, CanRetry, Spend, host, WorkId, TableTyped, HostTyped
<1>13. HandsSound'
  BY DEF HandsSound, Held, Executing, Working, RetryWindowsJob, CanRetry, Spend, host, WorkId,
     TableTyped, HostTyped
<1>14. ClaimSound'
  BY DEF ClaimSound, ClaimedStatus, Executing, Final, RetryWindowsJob, CanRetry, Spend, host,
     WorkId, TableTyped, HostTyped, BudgetTyped
<1> QED BY <1>1, <1>2, <1>3, <1>4, <1>5, <1>6, <1>7, <1>8, <1>9, <1>10, <1>11, <1>12, <1>13,
   <1>14 DEF WindowsInv

LEMMA RecoverKeeps ==
  ASSUME WindowsInv, RecoverInterruptedJobs
  PROVE  WindowsInv'
<1> USE WindowsParts, JobNumbers
<1>1. TableTyped'
  BY DEF TableTyped, WorkRec, RecoverInterruptedJobs, InState, Spend, host, Executing, HostTyped
<1>2. HostTyped'
  BY DEF HostTyped, HelperRec, HelperPlaces, Working, RecoverInterruptedJobs, InState, Spend,
     host, Executing, TableTyped
<1>3. AgentTyped'
  BY DEF AgentTyped, AgentRec, PostRec, RecoverInterruptedJobs, InState, Spend, host, Executing,
     TableTyped, HostTyped
<1>4. BudgetTyped'
  BY DEF BudgetTyped, RecoverInterruptedJobs, InState, Spend, host, Executing, TableTyped, HostTyped
<1>5. AgentSound'
  BY DEF AgentSound, Ended, IsUpdate, RecoverInterruptedJobs, InState, Spend, host, Executing,
     TableTyped, HostTyped
<1>6. OneExecutes'
  BY DEF OneExecutes, Executing, RecoverInterruptedJobs, InState, Spend, host, TableTyped, HostTyped
<1>7. ASSUME NEW k \in WorkId PROVE NoTrace(k)'
  BY <1>7 DEF NoTrace, RecoverInterruptedJobs, InState, Spend, host, Executing, TableTyped,
     HostTyped
<1>8. ASSUME NEW k \in WorkId PROVE ApplySound(k)'
  BY <1>8 DEF ApplySound, Handed, OwnPosts, Refusals, IsUpdate, RecoverInterruptedJobs, InState,
     Spend, host, Executing, TableTyped, HostTyped
<1>9. ASSUME NEW k \in WorkId PROVE HelperSound(k)'
  BY <1>9 DEF HelperSound, OwnPosts, IsUpdate, Working, RecoverInterruptedJobs, InState, Spend,
     host, Executing, TableTyped, HostTyped
<1>10. SuccessSound'
  BY DEF SuccessSound, RecoverInterruptedJobs, InState, Spend, host, Executing, TableTyped,
     HostTyped
<1>11. InstallSound'
  BY DEF InstallSound, HelperAt, Tolerated, GoodUpdate, AtHelper, IsUpdate,
     RecoverInterruptedJobs, InState, Spend, host, Executing, TableTyped, HostTyped
<1>12. LiveSound'
  BY DEF LiveSound, RecoverInterruptedJobs, InState, Spend, host, Executing, TableTyped, HostTyped
<1>13. HandsSound'
  BY DEF HandsSound, Held, Executing, Working, RecoverInterruptedJobs, InState, Spend, host,
     TableTyped, HostTyped
<1>14. ClaimSound'
  BY DEF ClaimSound, ClaimedStatus, Executing, Final, RecoverInterruptedJobs, InState, Spend,
     host, TableTyped, HostTyped, BudgetTyped
<1> QED BY <1>1, <1>2, <1>3, <1>4, <1>5, <1>6, <1>7, <1>8, <1>9, <1>10, <1>11, <1>12, <1>13,
   <1>14 DEF WindowsInv

LEMMA ClaimNextKeeps ==
  ASSUME WindowsInv, NEW j \in WorkId, ClaimNextWindowsJob(j)
  PROVE  WindowsInv'
<1> USE WindowsParts, JobNumbers
<1>a. state[j] = "queued" /\ (\A i \in WorkId : state[i] \notin Executing) /\ agent.up /\ agent.pc = "idle" /\ agent.job = 0
  BY DEF ClaimNextWindowsJob, host, Claim, ClaimableWindowsJob, ClaimedStatus, InState,
     Executing, AgentSound
<1>b. state' = [state EXCEPT ![j] = ClaimedStatus(j)] /\ ClaimedStatus(j) \in {"checking", "applying"}
  BY DEF ClaimNextWindowsJob, host, Claim, ClaimableWindowsJob, ClaimedStatus, InState, Executing
<1>c. work[j].mode = "apply" => runs[j] = 0 /\ OwnPosts(j) = {} /\ Refusals(j) = {} /\ updater[j].pc = "none"
  BY <1>a DEF ApplySound, Handed, HelperSound, IsUpdate, WorkId, TableTyped, HostTyped
<1>d. j # 0
  BY DEF WorkId
<1>1. TableTyped'
  BY <1>a, <1>b, <1>c, <1>d DEF TableTyped, WorkRec, ClaimNextWindowsJob, host, Claim,
     ClaimableWindowsJob, ClaimedStatus, InState, Executing, HostTyped
<1>2. HostTyped'
  BY <1>a, <1>b, <1>c, <1>d DEF HostTyped, HelperRec, HelperPlaces, Working,
     ClaimNextWindowsJob, host, Claim, ClaimableWindowsJob, ClaimedStatus, InState, Executing,
     TableTyped
<1>3. AgentTyped'
  <2>1. agent' \in AgentRec
    BY JobNumbers DEF ClaimNextWindowsJob, AgentTyped, AgentRec
  <2> QED BY <2>1 DEF ClaimNextWindowsJob, Claim, AgentTyped
<1>4. BudgetTyped'
  BY <1>a, <1>b, <1>c, <1>d DEF BudgetTyped, ClaimNextWindowsJob, host, Claim,
     ClaimableWindowsJob, ClaimedStatus, InState, Executing, TableTyped, HostTyped
<1>5. AgentSound'
  BY <1>a, <1>b, <1>c, <1>d DEF AgentSound, Ended, IsUpdate, ClaimNextWindowsJob, host, Claim,
     ClaimableWindowsJob, ClaimedStatus, InState, Executing, TableTyped, HostTyped, AgentTyped,
     AgentRec
<1>6. OneExecutes'
  BY <1>a, <1>b, <1>c, <1>d DEF OneExecutes, Executing, ClaimNextWindowsJob, host, Claim,
     ClaimableWindowsJob, ClaimedStatus, InState, TableTyped, HostTyped
<1>7. ASSUME NEW k \in WorkId PROVE NoTrace(k)'
  BY <1>7, <1>a, <1>b, <1>c, <1>d DEF NoTrace, ClaimNextWindowsJob, host, Claim,
     ClaimableWindowsJob, ClaimedStatus, InState, Executing, TableTyped, HostTyped, AgentTyped,
     AgentRec
<1>8. ASSUME NEW k \in WorkId PROVE ApplySound(k)'
  BY <1>8, <1>a, <1>b, <1>c, <1>d DEF ApplySound, Handed, OwnPosts, Refusals, IsUpdate,
     ClaimNextWindowsJob, host, Claim, ClaimableWindowsJob, ClaimedStatus, InState, Executing,
     TableTyped, HostTyped, AgentTyped, AgentRec
<1>9. ASSUME NEW k \in WorkId PROVE HelperSound(k)'
  BY <1>9, <1>a, <1>b, <1>c, <1>d DEF HelperSound, OwnPosts, IsUpdate, Working,
     ClaimNextWindowsJob, host, Claim, ClaimableWindowsJob, ClaimedStatus, InState, Executing,
     TableTyped, HostTyped, AgentTyped, AgentRec
<1>10. SuccessSound'
  BY <1>a, <1>b, <1>c, <1>d DEF SuccessSound, ClaimNextWindowsJob, host, Claim,
     ClaimableWindowsJob, ClaimedStatus, InState, Executing, TableTyped, HostTyped, AgentTyped,
     AgentRec
<1>11. InstallSound'
  BY <1>a, <1>b, <1>c, <1>d DEF InstallSound, HelperAt, Tolerated, GoodUpdate, AtHelper,
     IsUpdate, ClaimNextWindowsJob, host, Claim, ClaimableWindowsJob, ClaimedStatus, InState,
     Executing, TableTyped, HostTyped, AgentTyped, AgentRec
<1>12. LiveSound'
  BY <1>a, <1>b, <1>c, <1>d DEF LiveSound, ClaimNextWindowsJob, host, Claim,
     ClaimableWindowsJob, ClaimedStatus, InState, Executing, TableTyped, HostTyped, AgentTyped,
     AgentRec
<1>13. HandsSound'
  BY <1>a, <1>b, <1>c, <1>d DEF HandsSound, Held, Executing, Working, ClaimNextWindowsJob, host,
     Claim, ClaimableWindowsJob, ClaimedStatus, InState, TableTyped, HostTyped, AgentTyped,
     AgentRec
<1>14. ClaimSound'
  BY <1>a, <1>b, <1>c, <1>d DEF ClaimSound, ClaimedStatus, Executing, Final,
     ClaimNextWindowsJob, host, Claim, ClaimableWindowsJob, InState, TableTyped, HostTyped,
     AgentTyped, AgentRec
<1> QED BY <1>1, <1>2, <1>3, <1>4, <1>5, <1>6, <1>7, <1>8, <1>9, <1>10, <1>11, <1>12, <1>13,
   <1>14 DEF WindowsInv

LEMMA ClaimLostKeeps ==
  ASSUME WindowsInv, NEW j \in WorkId, ClaimAnswerLost(j)
  PROVE  WindowsInv'
<1> USE WindowsParts, JobNumbers
<1>a. state[j] = "queued" /\ (\A i \in WorkId : state[i] \notin Executing) /\ agent.up /\ agent.pc = "idle" /\ agent.job = 0
  BY DEF ClaimAnswerLost, Fault, host, Claim, ClaimableWindowsJob, ClaimedStatus, InState,
     Executing, AgentSound
<1>b. state' = [state EXCEPT ![j] = ClaimedStatus(j)] /\ ClaimedStatus(j) \in {"checking", "applying"}
  BY DEF ClaimAnswerLost, Fault, host, Claim, ClaimableWindowsJob, ClaimedStatus, InState, Executing
<1>c. work[j].mode = "apply" => runs[j] = 0 /\ OwnPosts(j) = {} /\ Refusals(j) = {} /\ updater[j].pc = "none"
  BY <1>a DEF ApplySound, Handed, HelperSound, IsUpdate, WorkId, TableTyped, HostTyped
<1>d. j # 0
  BY DEF WorkId
<1>1. TableTyped'
  BY <1>a, <1>b, <1>c, <1>d DEF TableTyped, WorkRec, ClaimAnswerLost, Fault, Spend, BudgetTyped,
     host, Claim, ClaimableWindowsJob, ClaimedStatus, InState, Executing, HostTyped
<1>2. HostTyped'
  BY <1>a, <1>b, <1>c, <1>d DEF HostTyped, HelperRec, HelperPlaces, Working, ClaimAnswerLost,
     Fault, Spend, BudgetTyped, host, Claim, ClaimableWindowsJob, ClaimedStatus, InState,
     Executing, TableTyped
<1>3. AgentTyped'
  BY <1>a, <1>b, <1>c, <1>d DEF AgentTyped, AgentRec, PostRec, ClaimAnswerLost, Fault, Spend,
     BudgetTyped, host, Claim, ClaimableWindowsJob, ClaimedStatus, InState, Executing, TableTyped,
     HostTyped
<1>4. BudgetTyped'
  BY <1>a, <1>b, <1>c, <1>d DEF BudgetTyped, ClaimAnswerLost, Fault, Spend, host, Claim,
     ClaimableWindowsJob, ClaimedStatus, InState, Executing, TableTyped, HostTyped
<1>5. AgentSound'
  BY <1>a, <1>b, <1>c, <1>d DEF AgentSound, Ended, IsUpdate, ClaimAnswerLost, Fault, Spend,
     BudgetTyped, host, Claim, ClaimableWindowsJob, ClaimedStatus, InState, Executing, TableTyped,
     HostTyped
<1>6. OneExecutes'
  BY <1>a, <1>b, <1>c, <1>d DEF OneExecutes, Executing, ClaimAnswerLost, Fault, Spend,
     BudgetTyped, host, Claim, ClaimableWindowsJob, ClaimedStatus, InState, TableTyped, HostTyped
<1>7. ASSUME NEW k \in WorkId PROVE NoTrace(k)'
  BY <1>7, <1>a, <1>b, <1>c, <1>d DEF NoTrace, ClaimAnswerLost, Fault, Spend, BudgetTyped, host,
     Claim, ClaimableWindowsJob, ClaimedStatus, InState, Executing, TableTyped, HostTyped
<1>8. ASSUME NEW k \in WorkId PROVE ApplySound(k)'
  BY <1>8, <1>a, <1>b, <1>c, <1>d DEF ApplySound, Handed, OwnPosts, Refusals, IsUpdate,
     ClaimAnswerLost, Fault, Spend, BudgetTyped, host, Claim, ClaimableWindowsJob, ClaimedStatus,
     InState, Executing, TableTyped, HostTyped
<1>9. ASSUME NEW k \in WorkId PROVE HelperSound(k)'
  BY <1>9, <1>a, <1>b, <1>c, <1>d DEF HelperSound, OwnPosts, IsUpdate, Working, ClaimAnswerLost,
     Fault, Spend, BudgetTyped, host, Claim, ClaimableWindowsJob, ClaimedStatus, InState,
     Executing, TableTyped, HostTyped
<1>10. SuccessSound'
  BY <1>a, <1>b, <1>c, <1>d DEF SuccessSound, ClaimAnswerLost, Fault, Spend, BudgetTyped, host,
     Claim, ClaimableWindowsJob, ClaimedStatus, InState, Executing, TableTyped, HostTyped
<1>11. InstallSound'
  BY <1>a, <1>b, <1>c, <1>d DEF InstallSound, HelperAt, Tolerated, GoodUpdate, AtHelper,
     IsUpdate, ClaimAnswerLost, Fault, Spend, BudgetTyped, host, Claim, ClaimableWindowsJob,
     ClaimedStatus, InState, Executing, TableTyped, HostTyped
<1>12. LiveSound'
  BY <1>a, <1>b, <1>c, <1>d DEF LiveSound, ClaimAnswerLost, Fault, Spend, BudgetTyped, host,
     Claim, ClaimableWindowsJob, ClaimedStatus, InState, Executing, TableTyped, HostTyped
<1>13. HandsSound'
  BY <1>a, <1>b, <1>c, <1>d DEF HandsSound, Held, Executing, Working, ClaimAnswerLost, Fault,
     Spend, BudgetTyped, host, Claim, ClaimableWindowsJob, ClaimedStatus, InState, TableTyped,
     HostTyped
<1>14. ClaimSound'
  BY <1>a, <1>b, <1>c, <1>d DEF ClaimSound, ClaimedStatus, Executing, Final, ClaimAnswerLost,
     Fault, Spend, BudgetTyped, host, Claim, ClaimableWindowsJob, InState, TableTyped, HostTyped
<1> QED BY <1>1, <1>2, <1>3, <1>4, <1>5, <1>6, <1>7, <1>8, <1>9, <1>10, <1>11, <1>12, <1>13,
   <1>14 DEF WindowsInv

LEMMA RefuseKeeps ==
  ASSUME WindowsInv, NEW j \in WorkId, RefuseCommand(j)
  PROVE  WindowsInv'
<1> USE WindowsParts, JobNumbers
<1>a. state[j] = "queued" /\ (\A i \in WorkId : state[i] \notin Executing) /\ agent.up /\ agent.pc = "idle" /\ agent.job = 0
  BY DEF RefuseCommand, host, Claim, ClaimableWindowsJob, ClaimedStatus, InState, Executing,
     AgentSound
<1>b. state' = [state EXCEPT ![j] = ClaimedStatus(j)] /\ ClaimedStatus(j) \in {"checking", "applying"}
  BY DEF RefuseCommand, host, Claim, ClaimableWindowsJob, ClaimedStatus, InState, Executing
<1>c. work[j].mode = "apply" => runs[j] = 0 /\ OwnPosts(j) = {} /\ Refusals(j) = {} /\ updater[j].pc = "none"
  BY <1>a DEF ApplySound, Handed, HelperSound, IsUpdate, WorkId, TableTyped, HostTyped
<1>d. j # 0
  BY DEF WorkId

<1>q. PICK q : q = [job |-> j, to |-> "failed", pc |-> "update", live |-> FALSE]
  OBVIOUS
<1>e. q.job = j /\ q.to = "failed" /\ q.pc = "update" /\ q.live = FALSE /\ q \in PostRec
  BY <1>q DEF PostRec
<1>f. posts' = posts \cup {q} /\ UNCHANGED <<work, agent, results, updater, service, runs, good, recovered, budget>>
  BY <1>q DEF RefuseCommand, host
<1>1. TableTyped'
  BY <1>a, <1>b, <1>c, <1>d, <1>e, <1>f DEF TableTyped, WorkRec, RefuseCommand, host, Claim,
     ClaimableWindowsJob, ClaimedStatus, InState, Executing, HostTyped
<1>2. HostTyped'
  BY <1>a, <1>b, <1>c, <1>d, <1>e, <1>f DEF HostTyped, HelperRec, HelperPlaces, Working,
     RefuseCommand, host, Claim, ClaimableWindowsJob, ClaimedStatus, InState, Executing, TableTyped
<1>3. AgentTyped'
  BY <1>e, <1>f DEF AgentTyped
<1>4. BudgetTyped'
  BY <1>a, <1>b, <1>c, <1>d, <1>e, <1>f DEF BudgetTyped, RefuseCommand, host, Claim,
     ClaimableWindowsJob, ClaimedStatus, InState, Executing, TableTyped, HostTyped
<1>5. AgentSound'
  BY <1>a, <1>b, <1>c, <1>d, <1>e, <1>f DEF AgentSound, Ended, IsUpdate, RefuseCommand, host,
     Claim, ClaimableWindowsJob, ClaimedStatus, InState, Executing, TableTyped, HostTyped
<1>6. OneExecutes'
  BY <1>a, <1>b, <1>c, <1>d, <1>e, <1>f DEF OneExecutes, Executing, RefuseCommand, host, Claim,
     ClaimableWindowsJob, ClaimedStatus, InState, TableTyped, HostTyped
<1>7. ASSUME NEW k \in WorkId PROVE NoTrace(k)'
  BY <1>7, <1>a, <1>b, <1>c, <1>d, <1>e, <1>f DEF NoTrace, RefuseCommand, host, Claim,
     ClaimableWindowsJob, ClaimedStatus, InState, Executing, TableTyped, HostTyped
<1>8. ASSUME NEW k \in WorkId PROVE ApplySound(k)'
  BY <1>8, <1>a, <1>b, <1>c, <1>d, <1>e, <1>f DEF ApplySound, Handed, OwnPosts, Refusals,
     IsUpdate, RefuseCommand, host, Claim, ClaimableWindowsJob, ClaimedStatus, InState, Executing,
     TableTyped, HostTyped
<1>9. ASSUME NEW k \in WorkId PROVE HelperSound(k)'
  BY <1>9, <1>a, <1>b, <1>c, <1>d, <1>e, <1>f DEF HelperSound, OwnPosts, IsUpdate, Working,
     RefuseCommand, host, Claim, ClaimableWindowsJob, ClaimedStatus, InState, Executing,
     TableTyped, HostTyped
<1>10. SuccessSound'
  BY <1>a, <1>b, <1>c, <1>d, <1>e, <1>f DEF SuccessSound, RefuseCommand, host, Claim,
     ClaimableWindowsJob, ClaimedStatus, InState, Executing, TableTyped, HostTyped
<1>11. InstallSound'
  BY <1>a, <1>b, <1>c, <1>d, <1>e, <1>f DEF InstallSound, HelperAt, Tolerated, GoodUpdate,
     AtHelper, IsUpdate, RefuseCommand, host, Claim, ClaimableWindowsJob, ClaimedStatus, InState,
     Executing, TableTyped, HostTyped
<1>12. LiveSound'
  BY <1>a, <1>b, <1>c, <1>d, <1>e, <1>f DEF LiveSound, RefuseCommand, host, Claim,
     ClaimableWindowsJob, ClaimedStatus, InState, Executing, TableTyped, HostTyped
<1>13. HandsSound'
  BY <1>a, <1>b, <1>c, <1>d, <1>e, <1>f DEF HandsSound, Held, Executing, Working, RefuseCommand,
     host, Claim, ClaimableWindowsJob, ClaimedStatus, InState, TableTyped, HostTyped
<1>14. ClaimSound'
  BY <1>a, <1>b, <1>c, <1>d, <1>e, <1>f DEF ClaimSound, ClaimedStatus, Executing, Final,
     RefuseCommand, host, Claim, ClaimableWindowsJob, InState, TableTyped, HostTyped
<1> QED BY <1>1, <1>2, <1>3, <1>4, <1>5, <1>6, <1>7, <1>8, <1>9, <1>10, <1>11, <1>12, <1>13,
   <1>14 DEF WindowsInv

LEMMA Remembered ==
  ASSUME AgentTyped, NEW j \in WorkId, NEW success \in BOOLEAN, Remember(j, success)
  PROVE  /\ results' \subseteq WorkId \X BOOLEAN /\ IsFiniteSet(results') /\ Cardinality(results') <= MaxResults
         /\ \A r \in results' : r \in results \/ r = <<j, success>>
<1> DEFINE R == IF Cardinality(results) >= MaxResults THEN {} ELSE results
<1>0. MaxResults \in Nat \ {0} /\ results \subseteq WorkId \X BOOLEAN /\ IsFiniteSet(results)
  BY WindowsAssumption DEF AgentTyped
<1>1. IsFiniteSet(R) /\ Cardinality(R) \in Nat /\ Cardinality(R) + 1 <= MaxResults
  BY <1>0, FS_EmptySet, FS_CardinalityType
<1>2. results' = R \cup {<<j, success>>}
  BY DEF Remember
<1>3. IsFiniteSet(results') /\ (Cardinality(results') = Cardinality(R) \/ Cardinality(results') = Cardinality(R) + 1)
  <2> HIDE DEF R
  <2> QED BY <1>1, <1>2, FS_AddElement
<1> QED BY <1>0, <1>1, <1>2, <1>3

LEMMA SpawnKeeps ==
  ASSUME WindowsInv, SpawnAgentUpdate
  PROVE  WindowsInv'
<1> USE WindowsParts, JobNumbers
<1>a. agent.up /\ agent.pc = "run" /\ agent.job \in WorkId
  <2>1. agent.up /\ agent.pc = "run"
    BY DEF SpawnAgentUpdate
  <2>2. agent.job \in 0..MaxWorkflows /\ agent.job # 0
    BY <2>1 DEF AgentSound, AgentTyped, AgentRec
  <2> QED BY <2>1, <2>2 DEF WorkId
<1>j. PICK j : j = agent.job
  OBVIOUS
<1>b. j \in WorkId /\ agent.job = j /\ j # 0
  BY <1>a, <1>j, JobNumbers

<1>c. IsUpdate(j) /\ runs[j] = 0 /\ OwnPosts(j) = {} /\ work[j].mode = "apply"
  BY <1>a, <1>b DEF SpawnAgentUpdate, ApplySound, IsUpdate
<1>u. updater[j].pc = "none"
  BY <1>b, <1>c DEF HelperSound
<1>d. state[j] \in {"applying", "succeeded", "reconcile_required"} /\ (j \notin recovered => state[j] = "applying")
  BY <1>a, <1>b, <1>c DEF ApplySound, Handed
<1>e. agent' \in AgentRec /\ agent'.up /\ agent'.pc = "idle" /\ agent'.job = 0 /\ agent'.bin = agent.bin
  BY <1>a, JobNumbers DEF SpawnAgentUpdate, AgentTyped, AgentRec
<1>f. /\ updater' \in [WorkId -> HelperRec] /\ (\A k \in WorkId \ {j} : updater'[k] = updater[k])
      /\ updater'[j].pc = "download" /\ updater'[j].previous = agent.bin /\ ~updater'[j].ok
  BY <1>b DEF SpawnAgentUpdate, HostTyped, HelperRec, HelperPlaces, Working, AgentTyped, AgentRec
<1>g. runs' \in [WorkId -> Nat] /\ (\A k \in WorkId \ {j} : runs'[k] = runs[k]) /\ runs'[j] = 1
  BY <1>b, <1>c DEF SpawnAgentUpdate, HostTyped
<1>h. UNCHANGED <<work, state, results, posts, service, good, recovered, budget>>
  BY DEF SpawnAgentUpdate, table
<1>i. recovered = {} => \A k \in WorkId : updater[k].pc \notin Working
  BY <1>b, <1>u, <1>d DEF HelperSound, OneExecutes, Executing, Working
<1>1. TableTyped'
  BY <1>i, <1>u, <1>a, <1>b, <1>c, <1>d, <1>e, <1>f, <1>g, <1>h DEF TableTyped, WorkRec,
     IsUpdate, HostTyped
<1>2. HostTyped'
  BY <1>i, <1>u, <1>a, <1>b, <1>c, <1>d, <1>e, <1>f, <1>g, <1>h DEF HostTyped, HelperRec,
     HelperPlaces, Working, IsUpdate, TableTyped
<1>3. AgentTyped'
  BY <1>i, <1>u, <1>a, <1>b, <1>c, <1>d, <1>e, <1>f, <1>g, <1>h DEF AgentTyped, AgentRec,
     PostRec, IsUpdate, TableTyped, HostTyped
<1>4. BudgetTyped'
  BY <1>i, <1>u, <1>a, <1>b, <1>c, <1>d, <1>e, <1>f, <1>g, <1>h DEF BudgetTyped, IsUpdate,
     TableTyped, HostTyped
<1>5. AgentSound'
  BY <1>i, <1>u, <1>a, <1>b, <1>c, <1>d, <1>e, <1>f, <1>g, <1>h DEF AgentSound, Ended, IsUpdate,
     TableTyped, HostTyped
<1>6. OneExecutes'
  BY <1>i, <1>u, <1>a, <1>b, <1>c, <1>d, <1>e, <1>f, <1>g, <1>h DEF OneExecutes, Executing,
     IsUpdate, TableTyped, HostTyped
<1>7. ASSUME NEW k \in WorkId PROVE NoTrace(k)'
  BY <1>7, <1>i, <1>u, <1>a, <1>b, <1>c, <1>d, <1>e, <1>f, <1>g, <1>h DEF NoTrace, IsUpdate,
     TableTyped, HostTyped
<1>8. ASSUME NEW k \in WorkId PROVE ApplySound(k)'
  BY <1>8, <1>i, <1>u, <1>a, <1>b, <1>c, <1>d, <1>e, <1>f, <1>g, <1>h DEF ApplySound, Handed,
     OwnPosts, Refusals, IsUpdate, TableTyped, HostTyped
<1>9. ASSUME NEW k \in WorkId PROVE HelperSound(k)'
  BY <1>9, <1>i, <1>u, <1>a, <1>b, <1>c, <1>d, <1>e, <1>f, <1>g, <1>h DEF HelperSound, OwnPosts,
     IsUpdate, Working, TableTyped, HostTyped
<1>10. SuccessSound'
  BY <1>i, <1>u, <1>a, <1>b, <1>c, <1>d, <1>e, <1>f, <1>g, <1>h DEF SuccessSound, IsUpdate,
     TableTyped, HostTyped
<1>11. InstallSound'
  BY <1>i, <1>u, <1>a, <1>b, <1>c, <1>d, <1>e, <1>f, <1>g, <1>h DEF InstallSound, HelperAt,
     Tolerated, GoodUpdate, AtHelper, IsUpdate, TableTyped, HostTyped, Working
<1>12. LiveSound'
  BY <1>i, <1>u, <1>a, <1>b, <1>c, <1>d, <1>e, <1>f, <1>g, <1>h DEF LiveSound, IsUpdate,
     TableTyped, HostTyped, AgentTyped, PostRec
<1>13. HandsSound'
  BY <1>i, <1>u, <1>a, <1>b, <1>c, <1>d, <1>e, <1>f, <1>g, <1>h DEF HandsSound, Held, Executing,
     Working, IsUpdate, TableTyped, HostTyped
<1>14. ClaimSound'
  BY <1>i, <1>u, <1>a, <1>b, <1>c, <1>d, <1>e, <1>f, <1>g, <1>h DEF ClaimSound, ClaimedStatus,
     Executing, Final, IsUpdate, TableTyped, HostTyped
<1> QED BY <1>1, <1>2, <1>3, <1>4, <1>5, <1>6, <1>7, <1>8, <1>9, <1>10, <1>11, <1>12, <1>13,
   <1>14 DEF WindowsInv

LEMMA SpawnFailsKeeps ==
  ASSUME WindowsInv, UpdateSpawnFails
  PROVE  WindowsInv'
<1> USE WindowsParts, JobNumbers
<1>a. agent.up /\ agent.pc = "run" /\ agent.job \in WorkId
  <2>1. agent.up /\ agent.pc = "run"
    BY DEF UpdateSpawnFails
  <2>2. agent.job \in 0..MaxWorkflows /\ agent.job # 0
    BY <2>1 DEF AgentSound, AgentTyped, AgentRec
  <2> QED BY <2>1, <2>2 DEF WorkId
<1>j. PICK j : j = agent.job
  OBVIOUS
<1>b. j \in WorkId /\ agent.job = j /\ j # 0
  BY <1>a, <1>j, JobNumbers

<1>c. IsUpdate(j) /\ runs[j] = 0 /\ OwnPosts(j) = {} /\ work[j].mode = "apply"
  BY <1>a, <1>b DEF UpdateSpawnFails, ApplySound, IsUpdate
<1>d. /\ results' \subseteq WorkId \X BOOLEAN /\ IsFiniteSet(results') /\ Cardinality(results') <= MaxResults
      /\ \A r \in results' : r \in results \/ r = <<j, FALSE>>
  BY <1>b, Remembered DEF UpdateSpawnFails
<1>e. agent' = [agent EXCEPT !.pc = "report", !.ok = FALSE]
  BY DEF UpdateSpawnFails
<1>1. TableTyped'
  BY <1>a, <1>b, <1>c, <1>d, <1>e DEF TableTyped, WorkRec, UpdateSpawnFails, Fault, Spend,
     BudgetTyped, table, host, IsUpdate, HostTyped
<1>2. HostTyped'
  BY <1>a, <1>b, <1>c, <1>d, <1>e DEF HostTyped, HelperRec, HelperPlaces, Working,
     UpdateSpawnFails, Fault, Spend, BudgetTyped, table, host, IsUpdate, TableTyped
<1>3. AgentTyped'
  BY <1>a, <1>b, <1>c, <1>d, <1>e DEF AgentTyped, AgentRec, PostRec, UpdateSpawnFails, Fault,
     Spend, BudgetTyped, table, host, IsUpdate, TableTyped, HostTyped
<1>4. BudgetTyped'
  BY <1>a, <1>b, <1>c, <1>d, <1>e DEF BudgetTyped, UpdateSpawnFails, Fault, Spend, table, host,
     IsUpdate, TableTyped, HostTyped
<1>5. AgentSound'
  BY <1>a, <1>b, <1>c, <1>d, <1>e DEF AgentSound, Ended, IsUpdate, UpdateSpawnFails, Fault,
     Spend, BudgetTyped, table, host, TableTyped, HostTyped, AgentTyped, AgentRec
<1>6. OneExecutes'
  BY <1>a, <1>b, <1>c, <1>d, <1>e DEF OneExecutes, Executing, UpdateSpawnFails, Fault, Spend,
     BudgetTyped, table, host, IsUpdate, TableTyped, HostTyped
<1>7. ASSUME NEW k \in WorkId PROVE NoTrace(k)'
  BY <1>7, <1>a, <1>b, <1>c, <1>d, <1>e DEF NoTrace, UpdateSpawnFails, Fault, Spend,
     BudgetTyped, table, host, IsUpdate, TableTyped, HostTyped, AgentTyped, AgentRec
<1>8. ASSUME NEW k \in WorkId PROVE ApplySound(k)'
  BY <1>8, <1>a, <1>b, <1>c, <1>d, <1>e DEF ApplySound, Handed, OwnPosts, Refusals, IsUpdate,
     UpdateSpawnFails, Fault, Spend, BudgetTyped, table, host, TableTyped, HostTyped, AgentTyped,
     AgentRec
<1>9. ASSUME NEW k \in WorkId PROVE HelperSound(k)'
  BY <1>9, <1>a, <1>b, <1>c, <1>d, <1>e DEF HelperSound, OwnPosts, IsUpdate, Working,
     UpdateSpawnFails, Fault, Spend, BudgetTyped, table, host, TableTyped, HostTyped, AgentTyped,
     AgentRec
<1>10. SuccessSound'
  BY <1>a, <1>b, <1>c, <1>d, <1>e DEF SuccessSound, UpdateSpawnFails, Fault, Spend, BudgetTyped,
     table, host, IsUpdate, TableTyped, HostTyped, AgentTyped, AgentRec
<1>11. InstallSound'
  BY <1>a, <1>b, <1>c, <1>d, <1>e DEF InstallSound, HelperAt, Tolerated, GoodUpdate, AtHelper,
     IsUpdate, UpdateSpawnFails, Fault, Spend, BudgetTyped, table, host, TableTyped, HostTyped,
     AgentTyped, AgentRec
<1>12. LiveSound'
  BY <1>a, <1>b, <1>c, <1>d, <1>e DEF LiveSound, UpdateSpawnFails, Fault, Spend, BudgetTyped,
     table, host, IsUpdate, TableTyped, HostTyped, AgentTyped, AgentRec
<1>13. HandsSound'
  BY <1>a, <1>b, <1>c, <1>d, <1>e DEF HandsSound, Held, Executing, Working, UpdateSpawnFails,
     Fault, Spend, BudgetTyped, table, host, IsUpdate, TableTyped, HostTyped, AgentTyped, AgentRec
<1>14. ClaimSound'
  BY <1>a, <1>b, <1>c, <1>d, <1>e DEF ClaimSound, ClaimedStatus, Executing, Final,
     UpdateSpawnFails, Fault, Spend, BudgetTyped, table, host, IsUpdate, TableTyped, HostTyped,
     AgentTyped, AgentRec
<1> QED BY <1>1, <1>2, <1>3, <1>4, <1>5, <1>6, <1>7, <1>8, <1>9, <1>10, <1>11, <1>12, <1>13,
   <1>14 DEF WindowsInv

LEMMA ExecuteKeeps ==
  ASSUME WindowsInv, ExecuteWorkflowCommand
  PROVE  WindowsInv'
<1> USE WindowsParts, JobNumbers
<1>a. agent.up /\ agent.pc = "run" /\ agent.job \in WorkId
  <2>1. agent.up /\ agent.pc = "run"
    BY DEF ExecuteWorkflowCommand
  <2>2. agent.job \in 0..MaxWorkflows /\ agent.job # 0
    BY <2>1 DEF AgentSound, AgentTyped, AgentRec
  <2> QED BY <2>1, <2>2 DEF WorkId
<1>j. PICK j : j = agent.job
  OBVIOUS
<1>b. j \in WorkId /\ agent.job = j /\ j # 0
  BY <1>a, <1>j, JobNumbers

<1>c. ~IsUpdate(j) /\ (work[j].mode = "apply" => runs[j] = 0 /\ OwnPosts(j) = {})
  BY <1>a, <1>b DEF ExecuteWorkflowCommand, ApplySound
<1>d. PICK to, success, n :
        /\ agent' = [agent EXCEPT !.pc = to, !.ok = success] /\ success \in BOOLEAN
        /\ runs' = [runs EXCEPT ![j] = n]
        /\ \/ to = "report" /\ (success => <<j, TRUE>> \in results) /\ n = runs[j]
           \/ to = "running" /\ success = agent.ok /\ n = runs[j] + 1
  <2>0. runs = [runs EXCEPT ![j] = runs[j]]
    BY <1>b DEF HostTyped
  <2>1. CASE \A success \in BOOLEAN : <<j, success>> \notin results
    <3>1. agent' = [agent EXCEPT !.pc = "running", !.ok = agent.ok] /\ agent.ok \in BOOLEAN
      BY <1>b, <2>1 DEF ExecuteWorkflowCommand, AgentTyped, AgentRec
    <3>2. runs' = [runs EXCEPT ![j] = runs[j] + 1]
      BY <1>b, <2>1 DEF ExecuteWorkflowCommand
    <3> QED BY <3>1, <3>2
  <2>2. CASE \E success \in BOOLEAN : <<j, success>> \in results
    <3>1. PICK told \in BOOLEAN : <<j, told>> \in results /\ \E x \in Collected(j, told) : agent' = [agent EXCEPT !.pc = "report", !.ok = x]
      BY <1>b, <2>2 DEF ExecuteWorkflowCommand
    <3>3. PICK success \in {told, FALSE} : agent' = [agent EXCEPT !.pc = "report", !.ok = success]
      BY <3>1 DEF Collected
    <3>4. success \in BOOLEAN /\ (success => <<j, TRUE>> \in results)
      BY <3>1, <3>3
    <3>2. UNCHANGED runs
      BY <1>b, <2>2 DEF ExecuteWorkflowCommand
    <3> QED BY <2>0, <3>2, <3>3, <3>4
  <2> QED BY <2>1, <2>2
<1>e. /\ agent' \in AgentRec /\ agent'.up /\ agent'.pc = to /\ agent'.job = j /\ agent'.bin = agent.bin /\ agent'.ok = success
      /\ to \in {"report", "running"} /\ (to = "report" /\ success => <<j, TRUE>> \in results)
  BY <1>a, <1>b, <1>d DEF AgentTyped, AgentRec
<1>f. /\ runs' \in [WorkId -> Nat] /\ (\A k \in WorkId \ {j} : runs'[k] = runs[k])
      /\ runs'[j] = (IF to = "report" THEN runs[j] ELSE runs[j] + 1)
  BY <1>b, <1>d DEF HostTyped
<1>g. UNCHANGED <<work, state, results, posts, updater, service, good, recovered, budget>>
  BY DEF ExecuteWorkflowCommand, table
<1>1. TableTyped'
  BY <1>a, <1>b, <1>c, <1>e, <1>f, <1>g DEF TableTyped, WorkRec, IsUpdate, HostTyped
<1>2. HostTyped'
  BY <1>a, <1>b, <1>c, <1>e, <1>f, <1>g DEF HostTyped, HelperRec, HelperPlaces, Working,
     IsUpdate, TableTyped
<1>3. AgentTyped'
  BY <1>a, <1>b, <1>c, <1>e, <1>f, <1>g DEF AgentTyped, AgentRec, PostRec, IsUpdate, TableTyped,
     HostTyped
<1>4. BudgetTyped'
  BY <1>a, <1>b, <1>c, <1>e, <1>f, <1>g DEF BudgetTyped, IsUpdate, TableTyped, HostTyped
<1>5. AgentSound'
  BY <1>a, <1>b, <1>c, <1>e, <1>f, <1>g DEF AgentSound, Ended, IsUpdate, TableTyped, HostTyped
<1>6. OneExecutes'
  BY <1>a, <1>b, <1>c, <1>e, <1>f, <1>g DEF OneExecutes, Executing, IsUpdate, TableTyped, HostTyped
<1>7. ASSUME NEW k \in WorkId PROVE NoTrace(k)'
  BY <1>7, <1>a, <1>b, <1>c, <1>e, <1>f, <1>g DEF NoTrace, IsUpdate, TableTyped, HostTyped
<1>8. ASSUME NEW k \in WorkId PROVE ApplySound(k)'
  BY <1>8, <1>a, <1>b, <1>c, <1>e, <1>f, <1>g DEF ApplySound, Handed, OwnPosts, Refusals,
     IsUpdate, TableTyped, HostTyped
<1>9. ASSUME NEW k \in WorkId PROVE HelperSound(k)'
  BY <1>9, <1>a, <1>b, <1>c, <1>e, <1>f, <1>g DEF HelperSound, OwnPosts, IsUpdate, Working,
     TableTyped, HostTyped
<1>10. SuccessSound'
  BY <1>a, <1>b, <1>c, <1>e, <1>f, <1>g DEF SuccessSound, IsUpdate, TableTyped, HostTyped
<1>11. InstallSound'
  BY <1>a, <1>b, <1>c, <1>e, <1>f, <1>g DEF InstallSound, HelperAt, Tolerated, GoodUpdate,
     AtHelper, IsUpdate, TableTyped, HostTyped
<1>12. LiveSound'
  BY <1>a, <1>b, <1>c, <1>e, <1>f, <1>g DEF LiveSound, IsUpdate, TableTyped, HostTyped
<1>13. HandsSound'
  BY <1>a, <1>b, <1>c, <1>e, <1>f, <1>g DEF HandsSound, Held, Executing, Working, IsUpdate,
     TableTyped, HostTyped
<1>14. ClaimSound'
  BY <1>a, <1>b, <1>c, <1>e, <1>f, <1>g DEF ClaimSound, ClaimedStatus, Executing, Final,
     IsUpdate, TableTyped, HostTyped
<1> QED BY <1>1, <1>2, <1>3, <1>4, <1>5, <1>6, <1>7, <1>8, <1>9, <1>10, <1>11, <1>12, <1>13,
   <1>14 DEF WindowsInv

LEMMA CommandEndsKeeps ==
  ASSUME WindowsInv, CommandEnds
  PROVE  WindowsInv'
<1> USE WindowsParts, JobNumbers
<1>a. agent.up /\ agent.pc = "running" /\ agent.job \in WorkId
  <2>1. agent.up /\ agent.pc = "running"
    BY DEF CommandEnds
  <2>2. agent.job \in 0..MaxWorkflows /\ agent.job # 0
    BY <2>1 DEF AgentSound, AgentTyped, AgentRec
  <2> QED BY <2>1, <2>2 DEF WorkId
<1>j. PICK j : j = agent.job
  OBVIOUS
<1>b. j \in WorkId /\ agent.job = j /\ j # 0
  BY <1>a, <1>j, JobNumbers

<1>c. ~IsUpdate(j) /\ (work[j].mode = "apply" => OwnPosts(j) = {})
  BY <1>a, <1>b DEF AgentSound, ApplySound
<1>d. PICK success \in BOOLEAN, told \in BOOLEAN :
        /\ agent' = [agent EXCEPT !.pc = "report", !.ok = told] /\ Remember(j, success)
        /\ good' = IF success THEN good \cup {j} ELSE good
        /\ told => success
  <2>1. PICK success \in BOOLEAN :
          /\ \E x \in Collected(j, success) : agent' = [agent EXCEPT !.pc = "report", !.ok = x]
          /\ Remember(j, success) /\ good' = IF success THEN good \cup {j} ELSE good
    BY <1>b DEF CommandEnds, CommandOutcomes
  <2>2. PICK told \in {success, FALSE} : agent' = [agent EXCEPT !.pc = "report", !.ok = told]
    BY <2>1 DEF Collected
  <2>3. CASE told = success
    BY <2>1, <2>2, <2>3
  <2>4. CASE told = FALSE
    BY <2>1, <2>2, <2>4
  <2> QED BY <2>2, <2>3, <2>4
<1>e. /\ results' \subseteq WorkId \X BOOLEAN /\ IsFiniteSet(results') /\ Cardinality(results') <= MaxResults
      /\ \A r \in results' : r \in results \/ r = <<j, success>>
  BY <1>b, <1>d, Remembered
<1>1. TableTyped'
  BY <1>a, <1>b, <1>c, <1>d, <1>e DEF TableTyped, WorkRec, CommandEnds, table, IsUpdate, HostTyped
<1>2. HostTyped'
  BY <1>a, <1>b, <1>c, <1>d, <1>e DEF HostTyped, HelperRec, HelperPlaces, Working, CommandEnds,
     table, IsUpdate, TableTyped
<1>3. AgentTyped'
  BY <1>a, <1>b, <1>c, <1>d, <1>e DEF AgentTyped, AgentRec, PostRec, CommandEnds, table,
     IsUpdate, TableTyped, HostTyped
<1>4. BudgetTyped'
  BY <1>a, <1>b, <1>c, <1>d, <1>e DEF BudgetTyped, CommandEnds, table, IsUpdate, TableTyped,
     HostTyped
<1>5. AgentSound'
  BY <1>a, <1>b, <1>c, <1>d, <1>e DEF AgentSound, Ended, IsUpdate, CommandEnds, table,
     TableTyped, HostTyped, AgentTyped, AgentRec
<1>6. OneExecutes'
  BY <1>a, <1>b, <1>c, <1>d, <1>e DEF OneExecutes, Executing, CommandEnds, table, IsUpdate,
     TableTyped, HostTyped
<1>7. ASSUME NEW k \in WorkId PROVE NoTrace(k)'
  BY <1>7, <1>a, <1>b, <1>c, <1>d, <1>e DEF NoTrace, CommandEnds, table, IsUpdate, TableTyped,
     HostTyped, AgentTyped, AgentRec
<1>8. ASSUME NEW k \in WorkId PROVE ApplySound(k)'
  BY <1>8, <1>a, <1>b, <1>c, <1>d, <1>e DEF ApplySound, Handed, OwnPosts, Refusals, IsUpdate,
     CommandEnds, table, TableTyped, HostTyped, AgentTyped, AgentRec
<1>9. ASSUME NEW k \in WorkId PROVE HelperSound(k)'
  BY <1>9, <1>a, <1>b, <1>c, <1>d, <1>e DEF HelperSound, OwnPosts, IsUpdate, Working,
     CommandEnds, table, TableTyped, HostTyped, AgentTyped, AgentRec
<1>10. SuccessSound'
  BY <1>a, <1>b, <1>c, <1>d, <1>e DEF SuccessSound, CommandEnds, table, IsUpdate, TableTyped,
     HostTyped, AgentTyped, AgentRec
<1>11. InstallSound'
  BY <1>a, <1>b, <1>c, <1>d, <1>e DEF InstallSound, HelperAt, Tolerated, GoodUpdate, AtHelper,
     IsUpdate, CommandEnds, table, TableTyped, HostTyped, AgentTyped, AgentRec
<1>12. LiveSound'
  BY <1>a, <1>b, <1>c, <1>d, <1>e DEF LiveSound, CommandEnds, table, IsUpdate, TableTyped,
     HostTyped, AgentTyped, AgentRec
<1>13. HandsSound'
  BY <1>a, <1>b, <1>c, <1>d, <1>e DEF HandsSound, Held, Executing, Working, CommandEnds, table,
     IsUpdate, TableTyped, HostTyped, AgentTyped, AgentRec
<1>14. ClaimSound'
  BY <1>a, <1>b, <1>c, <1>d, <1>e DEF ClaimSound, ClaimedStatus, Executing, Final, CommandEnds,
     table, IsUpdate, TableTyped, HostTyped, AgentTyped, AgentRec
<1> QED BY <1>1, <1>2, <1>3, <1>4, <1>5, <1>6, <1>7, <1>8, <1>9, <1>10, <1>11, <1>12, <1>13,
   <1>14 DEF WindowsInv

\* What the agent's process leaves when it ends: nobody waits for the answers
\* to its reports.
PostsLeft ==
  /\ posts' \subseteq PostRec
  /\ \A q \in posts' : \E p \in posts :
       q.job = p.job /\ q.to = p.to /\ q.pc = p.pc /\ (q.live => p = q /\ p.job # agent.job)
  /\ \A p \in posts : \E q \in posts' : q.job = p.job /\ q.to = p.to /\ q.pc = p.pc

LEMMA PostsStay ==
  ASSUME AgentTyped, UNCHANGED posts, agent.job = 0
  PROVE  PostsLeft
BY JobNumbers DEF PostsLeft, AgentTyped, PostRec

LEMMA ProcessGone ==
  ASSUME AgentTyped, ProcessEnds
  PROVE  /\ agent' \in AgentRec /\ ~agent'.up /\ agent'.pc = "idle" /\ agent'.job = 0 /\ agent' = Ended
         /\ results' = {} /\ IsFiniteSet(results') /\ Cardinality(results') <= MaxResults
         /\ PostsLeft
<1>1. agent' = Ended /\ results' = {}
  BY DEF ProcessEnds
<1>2. agent' \in AgentRec /\ ~agent'.up /\ agent'.pc = "idle" /\ agent'.job = 0
  BY <1>1, JobNumbers DEF Ended, AgentRec
<1>3. IsFiniteSet(results') /\ Cardinality(results') <= MaxResults
  BY <1>1, FS_EmptySet, WindowsAssumption
<1>4. posts \subseteq PostRec /\ posts' = {[p EXCEPT !.live = (p.live /\ p.job # agent.job)] : p \in posts}
  BY DEF ProcessEnds, AgentTyped
<1> DEFINE Cut(p) == [p EXCEPT !.live = (p.live /\ p.job # agent.job)]
<1>5. ASSUME NEW p \in PostRec
      PROVE /\ Cut(p) \in PostRec /\ Cut(p).job = p.job /\ Cut(p).to = p.to /\ Cut(p).pc = p.pc
            /\ (Cut(p).live => p = Cut(p) /\ p.job # agent.job)
  BY DEF PostRec
<1>7. \A q \in posts' : \E p \in posts : q = Cut(p)
  BY <1>4
<1>8. \A p \in posts : Cut(p) \in posts'
  BY <1>4
<1>6. PostsLeft
  <2> HIDE DEF Cut
  <2>1. posts' \subseteq PostRec
    BY <1>4, <1>5, <1>7
  <2>2. ASSUME NEW q \in posts'
        PROVE \E p \in posts : q.job = p.job /\ q.to = p.to /\ q.pc = p.pc /\ (q.live => p = q /\ p.job # agent.job)
    <3>1. PICK p \in posts : q = Cut(p)
      BY <1>7
    <3> QED BY <1>4, <1>5, <3>1
  <2>3. ASSUME NEW p \in posts
        PROVE \E q \in posts' : q.job = p.job /\ q.to = p.to /\ q.pc = p.pc
    BY <1>4, <1>5, <1>8
  <2> QED BY <2>1, <2>2, <2>3 DEF PostsLeft
<1> QED BY <1>1, <1>2, <1>3, <1>6

LEMMA CrashKeeps ==
  ASSUME WindowsInv, AgentCrashes
  PROVE  WindowsInv'
<1> USE WindowsParts, JobNumbers
<1>a. agent.up /\ ProcessEnds /\ UNCHANGED <<work, state, updater, runs, service, good, recovered>>
  BY DEF AgentCrashes, table, host
<1>b. /\ agent' \in AgentRec /\ ~agent'.up /\ agent'.pc = "idle" /\ agent'.job = 0 /\ agent' = Ended
      /\ results' = {} /\ IsFiniteSet(results') /\ Cardinality(results') <= MaxResults
      /\ PostsLeft
  BY <1>a, ProcessGone
<1>c. budget' \in [{"recoveries", "retries", "faults"} -> Nat] /\ budget'.faults = budget.faults + 1 /\ budget'.retries = budget.retries
      /\ budget.faults \in Nat
  BY DEF AgentCrashes, Fault, Spend, BudgetTyped
<1>1. TableTyped'
  BY <1>a, <1>b, <1>c DEF TableTyped, WorkRec, IsUpdate, PostsLeft, HostTyped
<1>2. HostTyped'
  BY <1>a, <1>b, <1>c DEF HostTyped, HelperRec, HelperPlaces, Working, IsUpdate, PostsLeft,
     TableTyped
<1>3. AgentTyped'
  BY <1>a, <1>b, <1>c DEF AgentTyped, AgentRec, PostRec, IsUpdate, PostsLeft, TableTyped, HostTyped
<1>4. BudgetTyped'
  BY <1>a, <1>b, <1>c DEF BudgetTyped, IsUpdate, PostsLeft, TableTyped, HostTyped
<1>5. AgentSound'
  BY <1>a, <1>b, <1>c DEF AgentSound, Ended, IsUpdate, PostsLeft, TableTyped, HostTyped
<1>6. OneExecutes'
  BY <1>a, <1>b, <1>c DEF OneExecutes, Executing, IsUpdate, PostsLeft, TableTyped, HostTyped
<1>7. ASSUME NEW k \in WorkId PROVE NoTrace(k)'
  BY <1>7, <1>a, <1>b, <1>c DEF NoTrace, IsUpdate, PostsLeft, TableTyped, HostTyped
<1>8. ASSUME NEW k \in WorkId PROVE ApplySound(k)'
  BY <1>8, <1>a, <1>b, <1>c DEF ApplySound, Handed, OwnPosts, Refusals, IsUpdate, PostsLeft,
     TableTyped, HostTyped
<1>9. ASSUME NEW k \in WorkId PROVE HelperSound(k)'
  BY <1>9, <1>a, <1>b, <1>c DEF HelperSound, OwnPosts, IsUpdate, Working, PostsLeft, TableTyped,
     HostTyped
<1>10. SuccessSound'
  <2>1. \A p \in posts' : p.to = "succeeded" => p.job \in good'
    BY <1>a, <1>b DEF SuccessSound, PostsLeft
  <2> QED BY <1>a, <1>b, <2>1 DEF SuccessSound
<1>11. InstallSound'
  BY <1>a, <1>b, <1>c DEF InstallSound, HelperAt, Tolerated, GoodUpdate, AtHelper, IsUpdate,
     PostsLeft, TableTyped, HostTyped
<1>12. LiveSound'
  BY <1>a, <1>b, <1>c DEF LiveSound, IsUpdate, PostsLeft, TableTyped, HostTyped, AgentTyped, PostRec
<1>13. HandsSound'
  BY <1>a, <1>b, <1>c DEF HandsSound, Held, Executing, Working, IsUpdate, PostsLeft, TableTyped,
     HostTyped
<1>14. ClaimSound'
  BY <1>a, <1>b, <1>c DEF ClaimSound, ClaimedStatus, Executing, Final, IsUpdate, PostsLeft,
     TableTyped, HostTyped
<1> QED BY <1>1, <1>2, <1>3, <1>4, <1>5, <1>6, <1>7, <1>8, <1>9, <1>10, <1>11, <1>12, <1>13,
   <1>14 DEF WindowsInv

LEMMA HelperKeeps ==
  ASSUME WindowsInv, NEW j \in WorkId, updater[j].pc \in Working,
         NEW to \in Working \cup {"report"},
         updater' \in [WorkId -> HelperRec], \A k \in WorkId \ {j} : updater'[k] = updater[k],
         updater'[j].pc = to, updater'[j].ok => j \in good',
         good' = good \/ good' = good \cup {j}, service' \in {"old", "new"},
         UNCHANGED <<work, state, runs, recovered>>,
         BudgetTyped', budget'.retries = budget.retries, budget'.faults = 0 => budget.faults = 0,
         agent' \in AgentRec, ~agent'.up => agent' = Ended,
         results' \subseteq results, IsFiniteSet(results'), Cardinality(results') <= MaxResults,
         \/ agent'.job = agent.job /\ agent'.pc = agent.pc /\ agent'.ok = agent.ok /\ posts' = posts
         \/ agent'.job = 0 /\ agent'.pc = "idle" /\ PostsLeft,
         InstallSound' 
  PROVE  WindowsInv'
<1> USE WindowsParts, JobNumbers
<1>a. /\ IsUpdate(j) /\ runs[j] # 0 /\ work[j].mode = "apply" /\ OwnPosts(j) = {} /\ agent.job # j
      /\ updater[j].pc # "none" /\ updater[j].pc # "wait"
  BY DEF HelperSound, ApplySound, IsUpdate, Working
<1>b. state[j] \in {"applying", "succeeded", "reconcile_required"} /\ (j \notin recovered => state[j] = "applying")
  BY <1>a DEF HelperSound, ApplySound, Handed
<1>c. recovered = {} => \A k \in WorkId \ {j} : state[k] \notin Executing
  BY <1>b DEF OneExecutes, Executing
<1>d. to # "none" /\ to # "wait" /\ to # "done"
  BY DEF Working
<1>e. \A p \in posts : p.job \in WorkId
  BY DEF AgentTyped, PostRec
<1>1. TableTyped'
  BY <1>a, <1>b, <1>c, <1>d, <1>e DEF TableTyped, WorkRec, IsUpdate, PostsLeft, HostTyped
<1>2. HostTyped'
  BY <1>a, <1>b, <1>c, <1>d, <1>e DEF HostTyped, HelperRec, HelperPlaces, Working, IsUpdate,
     PostsLeft, TableTyped
<1>3. AgentTyped'
  BY <1>a, <1>b, <1>c, <1>d, <1>e DEF AgentTyped, AgentRec, PostRec, IsUpdate, PostsLeft,
     TableTyped, HostTyped
<1>4. BudgetTyped'
  OBVIOUS
<1>5. AgentSound'
  BY <1>a, <1>b, <1>c, <1>d, <1>e DEF AgentSound, Ended, IsUpdate, PostsLeft, TableTyped, HostTyped
<1>6. OneExecutes'
  BY <1>a, <1>b, <1>c, <1>d, <1>e DEF OneExecutes, Executing, IsUpdate, PostsLeft, TableTyped,
     HostTyped
<1>7. ASSUME NEW k \in WorkId PROVE NoTrace(k)'
  BY <1>7, <1>a, <1>b, <1>c, <1>d, <1>e DEF NoTrace, IsUpdate, PostsLeft, TableTyped, HostTyped
<1>8. ASSUME NEW k \in WorkId PROVE ApplySound(k)'
  BY <1>8, <1>a, <1>b, <1>c, <1>d, <1>e DEF ApplySound, Handed, OwnPosts, Refusals, IsUpdate,
     PostsLeft, TableTyped, HostTyped
<1>9. ASSUME NEW k \in WorkId PROVE HelperSound(k)'
  BY <1>9, <1>a, <1>b, <1>c, <1>d, <1>e DEF HelperSound, OwnPosts, IsUpdate, Working, PostsLeft,
     TableTyped, HostTyped
<1>10. SuccessSound'
  <2>1. \A p \in posts' : p.to = "succeeded" => p.job \in good'
    BY DEF SuccessSound, PostsLeft
  <2> QED BY <2>1, <1>a DEF SuccessSound
<1>11. InstallSound'
  OBVIOUS
<1>12. LiveSound'
  BY <1>a, <1>b, <1>c, <1>d, <1>e DEF LiveSound, IsUpdate, PostsLeft, TableTyped, HostTyped
<1>13. HandsSound'
  BY <1>a, <1>b, <1>c, <1>d, <1>e DEF HandsSound, Held, Executing, Working, IsUpdate, PostsLeft,
     TableTyped, HostTyped
<1>14. ClaimSound'
  BY <1>a, <1>b, <1>c, <1>d, <1>e DEF ClaimSound, ClaimedStatus, Executing, Final, IsUpdate,
     PostsLeft, TableTyped, HostTyped
<1> QED BY <1>1, <1>2, <1>3, <1>4, <1>5, <1>6, <1>7, <1>8, <1>9, <1>10, <1>11, <1>12, <1>13,
   <1>14 DEF WindowsInv

LEMMA HelperMoved ==
  ASSUME HostTyped, NEW j \in WorkId, NEW to \in HelperPlaces, Helper(j, to)
  PROVE  /\ updater' \in [WorkId -> HelperRec] /\ (\A k \in WorkId \ {j} : updater'[k] = updater[k])
         /\ updater'[j].pc = to /\ updater'[j].previous = updater[j].previous /\ updater'[j].ok = updater[j].ok
BY DEF HostTyped, Helper, HelperRec

LEMMA HelperReports ==
  ASSUME HostTyped, NEW j \in WorkId, NEW success \in BOOLEAN, HelperEnds(j, success)
  PROVE  /\ updater' \in [WorkId -> HelperRec] /\ (\A k \in WorkId \ {j} : updater'[k] = updater[k])
         /\ updater'[j].pc = "report" /\ updater'[j].previous = updater[j].previous /\ updater'[j].ok = success
         /\ good' = IF success THEN good \cup {j} ELSE good
BY DEF HostTyped, HelperEnds, HelperRec, HelperPlaces

LEMMA FaultCounts ==
  ASSUME BudgetTyped, Fault
  PROVE  BudgetTyped' /\ budget'.retries = budget.retries /\ budget'.faults = budget.faults + 1 /\ budget.faults \in Nat
BY DEF BudgetTyped, Fault, Spend

LEMMA NoFaultCounts ==
  ASSUME BudgetTyped, UNCHANGED budget
  PROVE  BudgetTyped' /\ budget'.retries = budget.retries /\ budget'.faults = budget.faults /\ budget.faults \in Nat
BY DEF BudgetTyped

LEMMA OneHelper ==
  ASSUME WindowsInv, NEW j \in WorkId, updater[j].pc \in Working
  PROVE  /\ IsUpdate(j)
         /\ recovered = {} => \A k \in WorkId \ {j} : updater[k].pc \notin Working
<1>1. IsUpdate(j) /\ updater[j].pc # "none"
  BY WindowsParts DEF HelperSound, Working
<1>2. ASSUME recovered = {}, NEW k \in WorkId \ {j}, updater[k].pc \in Working
      PROVE FALSE
  <2>1. state[j] = "applying" /\ state[k] = "applying"
    BY <1>2, WindowsParts DEF HelperSound
  <2> QED BY <1>2, <2>1, WindowsParts DEF OneExecutes, Executing
<1> QED BY <1>1, <1>2

\* Only the helper that works has to be looked at.
LEMMA InstallStep ==
  ASSUME WindowsInv, NEW j \in WorkId, updater[j].pc \in Working, UNCHANGED recovered,
         \A k \in WorkId \ {j} : updater'[k] = updater[k],
         budget'.faults \in Nat, budget.faults \in Nat, budget.faults <= budget'.faults,
         Tolerated /\ Tolerated' =>
           /\ GoodUpdate' => service' = "new"
           /\ agent'.up /\ updater'[j].pc \notin {"start", "verify", "rollback"} => agent'.bin = service'
           /\ HelperAt(j)'
  PROVE  InstallSound'
<1> SUFFICES ASSUME Tolerated' PROVE InstallSound'
  BY DEF InstallSound
<1>1. Tolerated
  BY DEF Tolerated
<1>2. \A k \in WorkId \ {j} : updater'[k].pc \notin Working
  BY <1>1, OneHelper DEF Tolerated
<1>3. ASSUME NEW k \in WorkId PROVE HelperAt(k)'
  <2>1. CASE k = j
    BY <1>1, <2>1
  <2>2. CASE k # j
    BY <1>2, <2>2 DEF HelperAt, Working
  <2> QED BY <2>1, <2>2
<1>4. agent'.up /\ ~AtHelper({"start", "verify", "rollback"})' => agent'.bin = service'
  BY <1>1 DEF AtHelper
<1> QED BY <1>1, <1>3, <1>4 DEF InstallSound

LEMMA InstallNow ==
  ASSUME WindowsInv, NEW j \in WorkId, updater[j].pc \in Working, Tolerated
  PROVE  /\ HelperAt(j) /\ (GoodUpdate => service = "new") /\ IsUpdate(j) /\ (j \in good => GoodUpdate)
         /\ agent.up /\ updater[j].pc \notin {"start", "verify", "rollback"} => agent.bin = service
<1>1. IsUpdate(j) /\ \A k \in WorkId \ {j} : updater[k].pc \notin Working
  BY OneHelper DEF Tolerated
<1>2. InstallSound
  BY WindowsParts
<1>3. HelperAt(j) /\ (GoodUpdate => service = "new")
  BY <1>2 DEF InstallSound
<1>4. updater[j].pc \notin {"start", "verify", "rollback"} => ~AtHelper({"start", "verify", "rollback"})
  BY <1>1 DEF AtHelper, Working
<1>5. agent.up /\ updater[j].pc \notin {"start", "verify", "rollback"} => agent.bin = service
  BY <1>2, <1>4 DEF InstallSound
<1> QED BY <1>1, <1>3, <1>5 DEF GoodUpdate

\* A step of the helper of j to another place, that ends no process.
HelperGoes(j, to) ==
  /\ updater' \in [WorkId -> HelperRec] /\ (\A k \in WorkId \ {j} : updater'[k] = updater[k])
  /\ updater'[j].pc = to /\ updater'[j].previous = updater[j].previous /\ (updater'[j].ok => j \in good')
  /\ good' = good \/ good' = good \cup {j}
  /\ UNCHANGED <<work, state, runs, recovered>>
  /\ BudgetTyped' /\ budget'.retries = budget.retries /\ budget.faults <= budget'.faults

\* A step may be a fault or not.
BudgetKept == Fault \/ UNCHANGED budget

LEMMA BudgetCounts ==
  ASSUME BudgetTyped, BudgetKept
  PROVE  BudgetTyped' /\ budget'.retries = budget.retries /\ budget.faults <= budget'.faults
BY FaultCounts, NoFaultCounts DEF BudgetKept

LEMMA HelperMovesOn ==
  ASSUME WindowsInv, NEW j \in WorkId, NEW to \in Working, Helper(j, to),
         UNCHANGED <<work, state, runs, recovered, good>>, BudgetKept
  PROVE  HelperGoes(j, to)
<1>1. to \in HelperPlaces
  BY DEF HelperPlaces
<1>2. BudgetTyped' /\ budget'.retries = budget.retries /\ budget.faults <= budget'.faults
  BY WindowsParts, BudgetCounts
<1>3. /\ updater' \in [WorkId -> HelperRec] /\ (\A k \in WorkId \ {j} : updater'[k] = updater[k])
      /\ updater'[j].pc = to /\ updater'[j].previous = updater[j].previous /\ updater'[j].ok = updater[j].ok
  BY <1>1, WindowsParts, HelperMoved
<1>4. updater[j].ok => j \in good
  BY WindowsParts DEF SuccessSound
<1> QED BY <1>2, <1>3, <1>4 DEF HelperGoes

LEMMA HelperGoesToReport ==
  ASSUME WindowsInv, NEW j \in WorkId, NEW success \in BOOLEAN, HelperEnds(j, success),
         UNCHANGED <<work, state, runs, recovered>>, BudgetKept
  PROVE  HelperGoes(j, "report") /\ good' = IF success THEN good \cup {j} ELSE good
<1>1. BudgetTyped' /\ budget'.retries = budget.retries /\ budget.faults <= budget'.faults
  BY WindowsParts, BudgetCounts
<1>2. /\ updater' \in [WorkId -> HelperRec] /\ (\A k \in WorkId \ {j} : updater'[k] = updater[k])
      /\ updater'[j].pc = "report" /\ updater'[j].previous = updater[j].previous /\ updater'[j].ok = success
      /\ good' = IF success THEN good \cup {j} ELSE good
  BY WindowsParts, HelperReports
<1> QED BY <1>1, <1>2 DEF HelperGoes

LEMMA HelperGoesKeeps ==
  ASSUME WindowsInv, NEW j \in WorkId, updater[j].pc \in Working,
         NEW to \in Working \cup {"report"}, HelperGoes(j, to), service' \in {"old", "new"},
         agent' \in AgentRec, ~agent'.up => agent' = Ended,
         results' \subseteq results, IsFiniteSet(results'), Cardinality(results') <= MaxResults,
         \/ agent'.job = agent.job /\ agent'.pc = agent.pc /\ agent'.ok = agent.ok /\ posts' = posts
         \/ agent'.job = 0 /\ agent'.pc = "idle" /\ PostsLeft,
         Tolerated /\ Tolerated' =>
           /\ GoodUpdate' => service' = "new"
           /\ agent'.up /\ updater'[j].pc \notin {"start", "verify", "rollback"} => agent'.bin = service'
           /\ HelperAt(j)'
  PROVE  WindowsInv'
<1>1. budget.faults \in Nat /\ budget'.faults \in Nat
  BY WindowsParts DEF BudgetTyped, HelperGoes
<1>2. InstallSound'
  BY <1>1, InstallStep DEF HelperGoes
<1>3. budget'.faults = 0 => budget.faults = 0
  BY <1>1 DEF HelperGoes
<1> QED BY <1>2, <1>3, HelperKeeps DEF HelperGoes

LEMMA AgentStays ==
  ASSUME WindowsInv, UNCHANGED <<agent, results>>
  PROVE  /\ agent' \in AgentRec /\ (~agent'.up => agent' = Ended) /\ results' \subseteq results
         /\ IsFiniteSet(results') /\ Cardinality(results') <= MaxResults
         /\ agent'.job = agent.job /\ agent'.pc = agent.pc /\ agent'.ok = agent.ok
BY WindowsParts DEF AgentTyped, AgentSound

LEMMA DownloadArtifactKeeps ==
  ASSUME WindowsInv, NEW j \in WorkId, DownloadArtifact(j)
  PROVE  WindowsInv'
<1> USE WindowsParts
<1>1. updater[j].pc = "download" /\ UNCHANGED <<work, state, agent, results, posts, service, runs, recovered, budget>>
  BY DEF DownloadArtifact, table
<1>2. PICK to \in {"stage", "report"} : HelperGoes(j, to) /\ UNCHANGED good
  <2>1. CASE Helper(j, "stage") /\ UNCHANGED good
    BY <1>1, <2>1, HelperMovesOn DEF BudgetKept, Working
  <2>2. CASE HelperEnds(j, FALSE)
    BY <1>1, <2>2, HelperGoesToReport DEF BudgetKept
  <2> QED BY <2>1, <2>2 DEF DownloadArtifact
<1>3. updater[j].pc \in Working /\ to \in Working \cup {"report"} /\ service' \in {"old", "new"}
  BY <1>1, <1>2 DEF Working, HostTyped
<1>4. ASSUME Tolerated
      PROVE  /\ GoodUpdate' => service' = "new"
             /\ agent'.up => agent'.bin = service'
             /\ HelperAt(j)'
  BY <1>1, <1>2, <1>3, <1>4, InstallNow DEF HelperGoes, GoodUpdate, IsUpdate, HelperAt
<1> QED BY <1>1, <1>2, <1>3, <1>4, HelperGoesKeeps, AgentStays

LEMMA StageKeeps ==
  ASSUME WindowsInv, NEW j \in WorkId, UpdateAgentBinary(j)
  PROVE  WindowsInv'
<1> USE WindowsParts
<1>1. updater[j].pc = "stage" /\ UNCHANGED <<work, state, agent, results, posts, service, runs, recovered, budget>>
  BY DEF UpdateAgentBinary, table
<1>2. PICK to \in {"stop", "report"} :
        /\ HelperGoes(j, to)
        /\ IF updater[j].previous = "new" THEN to = "report" ELSE UNCHANGED good
  <2>1. CASE updater[j].previous = "new" /\ HelperEnds(j, TRUE)
    BY <1>1, <2>1, HelperGoesToReport DEF BudgetKept
  <2>2. CASE updater[j].previous # "new" /\ Helper(j, "stop") /\ UNCHANGED good
    BY <1>1, <2>2, HelperMovesOn DEF BudgetKept, Working
  <2>3. CASE updater[j].previous # "new" /\ HelperEnds(j, FALSE)
    BY <1>1, <2>3, HelperGoesToReport DEF BudgetKept
  <2> QED BY <2>1, <2>2, <2>3 DEF UpdateAgentBinary
<1>3. updater[j].pc \in Working /\ to \in Working \cup {"report"} /\ service' \in {"old", "new"} /\ updater[j].previous \in {"old", "new"}
  BY <1>1, <1>2 DEF Working, HostTyped, HelperRec
<1>4. ASSUME Tolerated
      PROVE  /\ GoodUpdate' => service' = "new"
             /\ agent'.up => agent'.bin = service'
             /\ HelperAt(j)'
  <2>1. updater[j].previous = service
    BY <1>1, <1>3, <1>4, InstallNow DEF HelperAt
  <2> QED BY <1>1, <1>2, <1>3, <1>4, <2>1, InstallNow DEF HelperGoes, GoodUpdate, IsUpdate, HelperAt
<1> QED BY <1>1, <1>2, <1>3, <1>4, HelperGoesKeeps, AgentStays

LEMMA AgentGone ==
  ASSUME WindowsInv, ProcessEnds
  PROVE  /\ agent' \in AgentRec /\ agent' = Ended /\ ~agent'.up /\ results' \subseteq results
         /\ IsFiniteSet(results') /\ Cardinality(results') <= MaxResults
         /\ agent'.job = 0 /\ agent'.pc = "idle" /\ PostsLeft
BY WindowsParts, ProcessGone

LEMMA AgentBack ==
  ASSUME WindowsInv, ~agent.up, NEW bin \in {"old", "new"}, agent' = Started(bin), UNCHANGED <<results, posts>>
  PROVE  /\ agent' \in AgentRec /\ agent'.up /\ agent'.bin = bin /\ results' \subseteq results
         /\ IsFiniteSet(results') /\ Cardinality(results') <= MaxResults
         /\ agent'.job = 0 /\ agent'.pc = "idle" /\ PostsLeft
<1>1. agent = Ended /\ AgentTyped
  BY WindowsParts DEF AgentSound
<1>2. PostsLeft
  BY <1>1, PostsStay DEF Ended
<1> QED BY <1>1, <1>2, JobNumbers DEF Started, Ended, AgentRec, AgentTyped

LEMMA StartsKeeps ==
  ASSUME WindowsInv, ServiceStarts
  PROVE  WindowsInv'
<1> USE WindowsParts, JobNumbers
<1>a. /\ agent' \in AgentRec /\ agent'.up /\ agent'.pc = "idle" /\ agent'.job = 0 /\ agent'.bin = service /\ agent.job = 0
      /\ agent.pc = "idle"
  <2>1. agent = Ended /\ agent' = Started(service) /\ service \in {"old", "new"}
    BY DEF ServiceStarts, HostTyped, AgentSound
  <2> QED BY <2>1, JobNumbers DEF Started, Ended, AgentRec
<1>b. UNCHANGED <<work, state, results, posts, updater, runs, service, good, recovered>>
  BY DEF ServiceStarts, table, host
<1>c. /\ BudgetTyped' /\ budget'.retries = budget.retries /\ budget.faults <= budget'.faults
      /\ budget.faults \in Nat /\ budget'.faults \in Nat /\ \A k \in WorkId : k # 0
  <2>1. BudgetKept
    BY DEF ServiceStarts, BudgetKept
  <2>2. BudgetTyped' /\ budget'.retries = budget.retries /\ budget.faults <= budget'.faults
    BY <2>1, BudgetCounts
  <2> QED BY <2>2, JobNumbers DEF BudgetTyped
<1>1. TableTyped'
  BY <1>a, <1>b, <1>c DEF TableTyped, WorkRec, IsUpdate, HostTyped
<1>2. HostTyped'
  BY <1>a, <1>b, <1>c DEF HostTyped, HelperRec, HelperPlaces, Working, IsUpdate, TableTyped
<1>3. AgentTyped'
  BY <1>a, <1>b, <1>c DEF AgentTyped, AgentRec, PostRec, IsUpdate, TableTyped, HostTyped
<1>4. BudgetTyped'
  BY <1>a, <1>b, <1>c DEF BudgetTyped, IsUpdate, TableTyped, HostTyped
<1>5. AgentSound'
  BY <1>a, <1>b, <1>c DEF AgentSound, Ended, IsUpdate, TableTyped, HostTyped
<1>6. OneExecutes'
  BY <1>a, <1>b, <1>c DEF OneExecutes, Executing, IsUpdate, TableTyped, HostTyped
<1>7. ASSUME NEW k \in WorkId PROVE NoTrace(k)'
  BY <1>7, <1>a, <1>b, <1>c DEF NoTrace, IsUpdate, TableTyped, HostTyped
<1>8. ASSUME NEW k \in WorkId PROVE ApplySound(k)'
  BY <1>8, <1>a, <1>b, <1>c DEF ApplySound, Handed, OwnPosts, Refusals, IsUpdate, TableTyped,
     HostTyped
<1>9. ASSUME NEW k \in WorkId PROVE HelperSound(k)'
  BY <1>9, <1>a, <1>b, <1>c DEF HelperSound, OwnPosts, IsUpdate, Working, TableTyped, HostTyped
<1>10. SuccessSound'
  BY <1>a, <1>b, <1>c DEF SuccessSound, IsUpdate, TableTyped, HostTyped
<1>11. InstallSound'
  <2> SUFFICES ASSUME Tolerated' PROVE InstallSound'
    BY DEF InstallSound
  <2>1. Tolerated /\ (GoodUpdate' <=> GoodUpdate) /\ service' = service
    BY <1>b, <1>c DEF Tolerated, GoodUpdate, IsUpdate
  <2>2. GoodUpdate' => service' = "new"
    BY <2>1 DEF InstallSound
  <2>3. ASSUME NEW k \in WorkId PROVE HelperAt(k)'
    <3>1. HelperAt(k)
      BY <2>1 DEF InstallSound
    <3>2. CASE BetweenUpdates
      BY <1>b, <3>2 DEF BetweenUpdates, HelperAt
    <3>3. CASE ~BetweenUpdates
      <4>1. budget'.faults = budget.faults + 1 /\ budget'.faults <= 1
        BY <3>3, FaultCounts DEF ServiceStarts, Tolerated
      <4>2. budget.faults = 0 /\ budget'.faults = 1
        BY <1>c, <4>1
      <4>3. ~agent.up
        BY DEF ServiceStarts
      <4> QED BY <1>a, <1>b, <2>1, <3>1, <4>2, <4>3 DEF HelperAt
    <3> QED BY <3>2, <3>3
  <2> QED BY <1>a, <1>b, <2>1, <2>2, <2>3 DEF InstallSound
<1>12. LiveSound'
  BY <1>a, <1>b, <1>c DEF LiveSound, IsUpdate, TableTyped, HostTyped
<1>13. HandsSound'
  BY <1>a, <1>b, <1>c DEF HandsSound, Held, Executing, Working, IsUpdate, TableTyped, HostTyped
<1>14. ClaimSound'
  BY <1>a, <1>b, <1>c DEF ClaimSound, ClaimedStatus, Executing, Final, IsUpdate, TableTyped,
     HostTyped
<1> QED BY <1>1, <1>2, <1>3, <1>4, <1>5, <1>6, <1>7, <1>8, <1>9, <1>10, <1>11, <1>12, <1>13,
   <1>14 DEF WindowsInv

LEMMA StopKeeps ==
  ASSUME WindowsInv, NEW j \in WorkId, StopService(j)
  PROVE  WindowsInv'
<1> USE WindowsParts
<1>1. updater[j].pc = "stop" /\ UNCHANGED <<work, state, service, runs, recovered>>
  BY DEF StopService, table
<1>2. updater[j].pc \in Working /\ service' \in {"old", "new"}
  BY <1>1 DEF Working, HostTyped
<1>3. ASSUME Tolerated
      PROVE  updater[j].previous = "old" /\ service = "old" /\ ~GoodUpdate
  BY <1>1, <1>2, <1>3, InstallNow DEF HelperAt
<1>4. CASE agent.up /\ ProcessEnds /\ Helper(j, "switch") /\ UNCHANGED <<good, budget>>
  <2>1. HelperGoes(j, "switch") /\ "switch" \in Working
    BY <1>1, <1>4, HelperMovesOn DEF BudgetKept, Working
  <2>2. ~GoodUpdate => ~GoodUpdate'
    BY <1>1, <1>4 DEF GoodUpdate, IsUpdate
  <2>3. Tolerated => HelperAt(j)' /\ ~GoodUpdate'
    BY <1>1, <1>3, <1>4, <2>1, <2>2, AgentGone DEF HelperGoes, HelperAt
  <2> QED BY <1>2, <1>4, <2>1, <2>3, HelperGoesKeeps, AgentGone
<1>5. CASE agent.up /\ ProcessEnds /\ HelperEnds(j, FALSE) /\ Fault
  <2>1. HelperGoes(j, "report") /\ UNCHANGED good
    BY <1>1, <1>5, HelperGoesToReport DEF BudgetKept
  <2>2. ~GoodUpdate => ~GoodUpdate'
    BY <1>1, <2>1 DEF GoodUpdate, IsUpdate
  <2>3. HelperAt(j)'
    BY <2>1 DEF HelperGoes, HelperAt
  <2> QED BY <1>2, <1>3, <1>5, <2>1, <2>2, <2>3, HelperGoesKeeps, AgentGone
<1>6. CASE HelperEnds(j, FALSE) /\ BudgetKept /\ UNCHANGED <<agent, results, posts>>
  <2>1. HelperGoes(j, "report") /\ UNCHANGED good
    BY <1>1, <1>6, HelperGoesToReport
  <2>2. ~GoodUpdate => ~GoodUpdate'
    BY <1>1, <2>1 DEF GoodUpdate, IsUpdate
  <2>3. HelperAt(j)'
    BY <2>1 DEF HelperGoes, HelperAt
  <2>4. Tolerated /\ agent'.up => agent'.bin = service'
    BY <1>1, <1>2, <1>6, InstallNow
  <2> QED BY <1>2, <1>3, <1>6, <2>1, <2>2, <2>3, <2>4, HelperGoesKeeps, AgentStays
<1> QED BY <1>4, <1>5, <1>6 DEF StopService, BudgetKept

LEMMA SwitchKeeps ==
  ASSUME WindowsInv, NEW j \in WorkId, SwitchService(j)
  PROVE  WindowsInv'
<1> USE WindowsParts
<1>1. updater[j].pc = "switch" /\ UNCHANGED <<work, state, agent, results, posts, runs, good, recovered>>
  BY DEF SwitchService, table
<1>2. updater[j].pc \in Working
  BY <1>1 DEF Working
<1>3. ASSUME Tolerated
      PROVE  updater[j].previous = "old" /\ ~GoodUpdate /\ (~agent.up \/ budget.faults = 1)
  BY <1>1, <1>2, <1>3, InstallNow DEF HelperAt
<1>4. ~GoodUpdate => ~GoodUpdate'
  BY <1>1 DEF GoodUpdate, IsUpdate
<1>5. CASE service' = "new" /\ Helper(j, "start") /\ UNCHANGED budget
  <2>1. HelperGoes(j, "start") /\ "start" \in Working
    BY <1>1, <1>5, HelperMovesOn DEF BudgetKept, Working
  <2>2. Tolerated => HelperAt(j)' /\ updater'[j].pc = "start"
    BY <1>1, <1>3, <1>4, <1>5, <2>1 DEF HelperGoes, HelperAt
  <2> QED BY <1>1, <1>2, <1>5, <2>1, <2>2, HelperGoesKeeps, AgentStays
<1>6. CASE Helper(j, "restore") /\ Fault /\ UNCHANGED service
  <2>1. HelperGoes(j, "restore") /\ "restore" \in Working
    BY <1>1, <1>6, HelperMovesOn DEF BudgetKept, Working
  <2>2. Tolerated' => budget'.faults = 1 /\ budget.faults = 0
    BY <1>6, FaultCounts DEF Tolerated
  <2>3. Tolerated /\ Tolerated' => HelperAt(j)' /\ ~agent'.up /\ ~GoodUpdate'
    BY <1>1, <1>3, <1>4, <2>1, <2>2 DEF HelperGoes, HelperAt
  <2> QED BY <1>1, <1>2, <1>6, <2>1, <2>3, HelperGoesKeeps, AgentStays DEF HostTyped
<1> QED BY <1>5, <1>6 DEF SwitchService

LEMMA StartKeeps ==
  ASSUME WindowsInv, NEW j \in WorkId, StartService(j)
  PROVE  WindowsInv'
<1> USE WindowsParts
<1>1. updater[j].pc = "start" /\ UNCHANGED <<work, state, results, posts, service, runs, good, recovered>>
  BY DEF StartService, table
<1>2. updater[j].pc \in Working /\ service \in {"old", "new"} /\ service' \in {"old", "new"}
  BY <1>1 DEF Working, HostTyped
<1>3. ASSUME Tolerated
      PROVE  updater[j].previous = "old" /\ ~GoodUpdate /\ (~agent.up \/ budget.faults = 1) /\ service = "new"
  BY <1>1, <1>2, <1>3, InstallNow DEF HelperAt
<1>4. ~GoodUpdate => ~GoodUpdate'
  BY <1>1 DEF GoodUpdate, IsUpdate
<1>5. CASE ~agent.up /\ agent' = Started(service) /\ Helper(j, "verify") /\ UNCHANGED budget
  <2>1. HelperGoes(j, "verify") /\ "verify" \in Working
    BY <1>1, <1>5, HelperMovesOn DEF BudgetKept, Working
  <2>2. PICK bin \in {"old", "new"} : bin = service
    BY <1>2
  <2>3. agent'.up /\ agent'.bin = service
    BY <1>1, <1>5, <2>2, AgentBack
  <2>4. Tolerated => HelperAt(j)' /\ ~GoodUpdate' /\ agent'.bin = service'
    BY <1>1, <1>3, <1>4, <1>5, <2>1, <2>3 DEF HelperGoes, HelperAt
  <2> QED BY <1>1, <1>2, <1>5, <2>1, <2>2, <2>4, HelperGoesKeeps, AgentBack
<1>6. CASE agent.up /\ Helper(j, "rollback") /\ UNCHANGED <<agent, budget>>
  <2>1. HelperGoes(j, "rollback") /\ "rollback" \in Working
    BY <1>1, <1>6, HelperMovesOn DEF BudgetKept, Working
  <2>2. Tolerated => HelperAt(j)' /\ ~GoodUpdate' /\ updater'[j].pc = "rollback"
    BY <1>1, <1>3, <1>4, <1>6, <2>1 DEF HelperGoes, HelperAt
  <2> QED BY <1>1, <1>2, <1>6, <2>1, <2>2, HelperGoesKeeps, AgentStays
<1>7. CASE ~agent.up /\ Helper(j, "rollback") /\ Fault /\ UNCHANGED agent
  <2>1. HelperGoes(j, "rollback") /\ "rollback" \in Working
    BY <1>1, <1>7, HelperMovesOn DEF BudgetKept, Working
  <2>2. Tolerated' => budget'.faults = 1
    BY <1>7, FaultCounts DEF Tolerated
  <2>3. Tolerated /\ Tolerated' => HelperAt(j)' /\ ~agent'.up /\ ~GoodUpdate'
    BY <1>1, <1>3, <1>4, <1>7, <2>1, <2>2 DEF HelperGoes, HelperAt
  <2> QED BY <1>1, <1>2, <1>7, <2>1, <2>3, HelperGoesKeeps, AgentStays
<1> QED BY <1>5, <1>6, <1>7 DEF StartService

LEMMA VerifyKeeps ==
  ASSUME WindowsInv, NEW j \in WorkId, WaitForAgentVersion(j)
  PROVE  WindowsInv'
<1> USE WindowsParts
<1>1. updater[j].pc = "verify" /\ UNCHANGED <<work, state, agent, results, posts, service, runs, recovered>>
  BY DEF WaitForAgentVersion, table
<1>2. updater[j].pc \in Working /\ service' \in {"old", "new"}
  BY <1>1 DEF Working, HostTyped
<1>3. ASSUME Tolerated
      PROVE  /\ updater[j].previous = "old" /\ ~GoodUpdate /\ service = "new"
             /\ IF agent.up THEN agent.bin = "new" ELSE budget.faults = 1
  BY <1>1, <1>2, <1>3, InstallNow DEF HelperAt
<1>4. CASE agent.up /\ agent.bin = "new" /\ HelperEnds(j, TRUE) /\ UNCHANGED budget
  <2>1. HelperGoes(j, "report")
    BY <1>1, <1>4, HelperGoesToReport DEF BudgetKept
  <2>2. Tolerated => HelperAt(j)' /\ service' = "new" /\ agent'.bin = "new"
    BY <1>1, <1>3, <1>4, <2>1 DEF HelperGoes, HelperAt
  <2> QED BY <1>1, <1>2, <2>1, <2>2, HelperGoesKeeps, AgentStays
<1>5. CASE Helper(j, "rollback") /\ UNCHANGED good /\ (IF agent.up /\ agent.bin = "new" THEN Fault ELSE UNCHANGED budget)
  <2>1. HelperGoes(j, "rollback") /\ "rollback" \in Working
    BY <1>1, <1>5, HelperMovesOn DEF BudgetKept, Working
  <2>2. Tolerated /\ Tolerated' => budget'.faults = 1
    <3>1. CASE agent.up /\ agent.bin = "new"
      BY <1>5, <3>1, FaultCounts DEF Tolerated
    <3>2. CASE ~(agent.up /\ agent.bin = "new")
      BY <1>3, <1>5, <3>2
    <3> QED BY <3>1, <3>2
  <2>3. ~GoodUpdate => ~GoodUpdate'
    BY <1>1, <1>5 DEF GoodUpdate, IsUpdate
  <2>4. Tolerated /\ Tolerated' => HelperAt(j)' /\ ~GoodUpdate'
    BY <1>1, <1>3, <2>1, <2>2, <2>3 DEF HelperGoes, HelperAt
  <2>5. updater'[j].pc = "rollback"
    BY <2>1 DEF HelperGoes
  <2> QED BY <1>1, <1>2, <2>1, <2>4, <2>5, HelperGoesKeeps, AgentStays
<1> QED BY <1>4, <1>5 DEF WaitForAgentVersion

LEMMA RollbackKeeps ==
  ASSUME WindowsInv, NEW j \in WorkId, StopForRollback(j)
  PROVE  WindowsInv'
<1> USE WindowsParts
<1>1. updater[j].pc = "rollback" /\ UNCHANGED <<work, state, service, runs, good, recovered>> /\ Helper(j, "restore") /\ BudgetKept
  BY DEF StopForRollback, table, BudgetKept
<1>2. updater[j].pc \in Working /\ service' \in {"old", "new"}
  BY <1>1 DEF Working, HostTyped
<1>3. ASSUME Tolerated
      PROVE  updater[j].previous = "old" /\ ~GoodUpdate /\ budget.faults = 1
  BY <1>1, <1>2, <1>3, InstallNow DEF HelperAt
<1>4. ~GoodUpdate => ~GoodUpdate'
  BY <1>1 DEF GoodUpdate, IsUpdate
<1>5. HelperGoes(j, "restore") /\ "restore" \in Working
  BY <1>1, HelperMovesOn DEF Working
<1>6. CASE agent.up /\ ProcessEnds /\ UNCHANGED budget
  <2>1. Tolerated => HelperAt(j)' /\ ~agent'.up /\ ~GoodUpdate'
    BY <1>1, <1>3, <1>4, <1>5, <1>6, AgentGone DEF HelperGoes, HelperAt
  <2> QED BY <1>1, <1>2, <1>5, <1>6, <2>1, HelperGoesKeeps, AgentGone
<1>7. CASE UNCHANGED <<agent, results, posts>> /\ (IF agent.up THEN Fault ELSE UNCHANGED budget)
  <2>1. Tolerated /\ Tolerated' => ~agent.up
    BY <1>3, <1>7, FaultCounts DEF Tolerated
  <2>2. Tolerated /\ Tolerated' => HelperAt(j)' /\ ~agent'.up /\ ~GoodUpdate'
    BY <1>1, <1>3, <1>4, <1>5, <1>7, <2>1 DEF HelperGoes, HelperAt
  <2> QED BY <1>1, <1>2, <1>5, <1>7, <2>2, HelperGoesKeeps, AgentStays
<1> QED BY <1>6, <1>7 DEF StopForRollback

LEMMA RestoreKeeps ==
  ASSUME WindowsInv, NEW j \in WorkId, RestoreService(j)
  PROVE  WindowsInv'
<1> USE WindowsParts
<1>1. /\ updater[j].pc = "restore" /\ UNCHANGED <<work, state, results, posts, runs, recovered>>
      /\ HelperEnds(j, FALSE) /\ BudgetKept
  BY DEF RestoreService, table, BudgetKept
<1>2. updater[j].pc \in Working /\ service \in {"old", "new"} /\ updater[j].previous \in {"old", "new"}
  BY <1>1 DEF Working, HostTyped, HelperRec
<1>3. ASSUME Tolerated
      PROVE  updater[j].previous = "old" /\ ~GoodUpdate /\ ~agent.up /\ budget.faults = 1
  BY <1>1, <1>2, <1>3, InstallNow DEF HelperAt
<1>4. HelperGoes(j, "report") /\ UNCHANGED good
  BY <1>1, HelperGoesToReport
<1>5. ~GoodUpdate => ~GoodUpdate'
  BY <1>1, <1>4 DEF GoodUpdate, IsUpdate
<1>6. HelperAt(j)'
  BY <1>4 DEF HelperGoes, HelperAt
<1>7. CASE service' = updater[j].previous /\ agent.up /\ UNCHANGED <<agent, budget>>
  BY <1>1, <1>2, <1>3, <1>4, <1>6, <1>7, HelperGoesKeeps, AgentStays
<1>8. CASE service' = updater[j].previous /\ ~agent.up /\ agent' = Started(service') /\ UNCHANGED budget
  <2>1. PICK bin \in {"old", "new"} : bin = service'
    BY <1>2, <1>8
  <2>2. agent'.bin = service'
    BY <1>1, <1>8, <2>1, AgentBack
  <2> QED BY <1>1, <1>2, <1>3, <1>4, <1>5, <1>6, <1>8, <2>1, <2>2, HelperGoesKeeps, AgentBack
<1>9. CASE Fault /\ UNCHANGED <<service, agent>>
  <2>1. Tolerated => ~Tolerated'
    BY <1>3, <1>9, FaultCounts DEF Tolerated
  <2> QED BY <1>1, <1>2, <1>4, <1>9, <2>1, HelperGoesKeeps, AgentStays
<1> QED BY <1>7, <1>8, <1>9 DEF RestoreService

\* Nobody waits for the answers to the reports of a helper that is gone.
LEMMA HelperPosts ==
  ASSUME AgentTyped, NEW j \in WorkId,
         posts' = {[p EXCEPT !.live = (p.live /\ p.job # j)] : p \in posts}
  PROVE  /\ posts' \subseteq PostRec
         /\ \A q \in posts' : \E p \in posts :
              q.job = p.job /\ q.to = p.to /\ q.pc = p.pc /\ (q.live => p = q /\ p.job # j)
         /\ \A p \in posts : \E q \in posts' : q.job = p.job /\ q.to = p.to /\ q.pc = p.pc
<1> DEFINE Cut(p) == [p EXCEPT !.live = (p.live /\ p.job # j)]
<1>1. ASSUME NEW p \in PostRec
      PROVE /\ Cut(p) \in PostRec /\ Cut(p).job = p.job /\ Cut(p).to = p.to /\ Cut(p).pc = p.pc
            /\ (Cut(p).live => p = Cut(p) /\ p.job # j)
  BY DEF PostRec
<1>2. posts \subseteq PostRec /\ (\A q \in posts' : \E p \in posts : q = Cut(p)) /\ \A p \in posts : Cut(p) \in posts'
  BY DEF AgentTyped
<1> HIDE DEF Cut
<1>3. ASSUME NEW q \in posts'
      PROVE  q \in PostRec /\ \E p \in posts : q.job = p.job /\ q.to = p.to /\ q.pc = p.pc /\ (q.live => p = q /\ p.job # j)
  <2>1. PICK p \in posts : q = Cut(p)
    BY <1>2
  <2> QED BY <1>1, <1>2, <2>1
<1>4. ASSUME NEW p \in posts
      PROVE  \E q \in posts' : q.job = p.job /\ q.to = p.to /\ q.pc = p.pc
  BY <1>1, <1>2
<1> QED BY <1>3, <1>4

LEMMA HelperLostKeeps ==
  ASSUME WindowsInv, NEW j \in WorkId, HelperLost(j)
  PROVE  WindowsInv'
<1> USE WindowsParts, JobNumbers
<1>a. /\ updater[j].pc \notin {"none", "done"} /\ Fault
      /\ UNCHANGED <<work, state, agent, results, service, runs, good, recovered>>
  BY DEF HelperLost, table
<1>b. /\ updater' \in [WorkId -> HelperRec] /\ (\A k \in WorkId \ {j} : updater'[k] = updater[k])
      /\ updater'[j].pc = "done" /\ updater'[j].previous = updater[j].previous /\ updater'[j].ok = updater[j].ok
  BY HelperMoved DEF HelperLost, HelperPlaces
<1>c. /\ BudgetTyped' /\ budget'.retries = budget.retries /\ budget'.faults = budget.faults + 1 /\ budget.faults \in Nat
  BY <1>a, FaultCounts
<1>d. /\ posts' \subseteq PostRec
      /\ \A q \in posts' : \E p \in posts :
           q.job = p.job /\ q.to = p.to /\ q.pc = p.pc /\ (q.live => p = q /\ p.job # j)
      /\ \A p \in posts : \E q \in posts' : q.job = p.job /\ q.to = p.to /\ q.pc = p.pc
  BY HelperPosts DEF HelperLost
<1>e. state[j] # "none"
  BY <1>a DEF NoTrace, NoUpdater
<1>1. TableTyped' /\ HostTyped' /\ AgentTyped' /\ BudgetTyped'
  BY <1>a, <1>b, <1>c, <1>d DEF TableTyped, HostTyped, AgentTyped
<1>2. AgentSound' /\ OneExecutes'
  BY <1>a DEF AgentSound, IsUpdate, OneExecutes
<1>3. ASSUME NEW k \in WorkId PROVE NoTrace(k)'
  BY <1>3, <1>a, <1>b, <1>d, <1>e DEF NoTrace
<1>4. ASSUME NEW k \in WorkId PROVE (OwnPosts(k)' = {} <=> OwnPosts(k) = {}) /\ (Refusals(k)' = {} <=> Refusals(k) = {})
  BY <1>d DEF OwnPosts, Refusals
<1>5. ASSUME NEW k \in WorkId PROVE ApplySound(k)'
  BY <1>5, <1>a, <1>4 DEF ApplySound, Handed, IsUpdate
<1>6. ASSUME NEW k \in WorkId PROVE HelperSound(k)'
  BY <1>6, <1>a, <1>b, <1>4 DEF HelperSound, IsUpdate, Working
<1>7. SuccessSound'
  <2>1. \A q \in posts' : q.to = "succeeded" => q.job \in good'
    BY <1>a, <1>d DEF SuccessSound
  <2> QED BY <1>a, <1>b, <2>1 DEF SuccessSound
<1>8. InstallSound'
  <2> SUFFICES ASSUME Tolerated' PROVE InstallSound'
    BY DEF InstallSound
  <2>1. Tolerated /\ budget.faults = 0 /\ (GoodUpdate' <=> GoodUpdate) /\ budget'.faults = 1
    BY <1>a, <1>c DEF Tolerated, GoodUpdate, IsUpdate
  <2>2. \A k \in WorkId : HelperAt(k)
    BY <2>1 DEF InstallSound
  <2>3. ASSUME NEW k \in WorkId PROVE HelperAt(k)'
    <3>1. CASE k = j
      BY <1>b, <3>1 DEF HelperAt
    <3>2. CASE k # j
      BY <1>a, <1>b, <2>1, <2>2, <3>2 DEF HelperAt
    <3> QED BY <3>1, <3>2
  <2>4. agent.up => agent.bin = service
    <3>1. CASE AtHelper({"start", "verify", "rollback"})
      <4>1. PICK k \in WorkId : updater[k].pc \in {"start", "verify", "rollback"}
        BY <3>1 DEF AtHelper
      <4> QED BY <2>1, <2>2, <4>1 DEF HelperAt
    <3>2. CASE ~AtHelper({"start", "verify", "rollback"})
      BY <2>1, <3>2 DEF InstallSound
    <3> QED BY <3>1, <3>2
  <2> QED BY <1>a, <2>1, <2>3, <2>4 DEF InstallSound
<1>9. LiveSound'
  <2>1. ASSUME NEW q \in posts', q.live
        PROVE  q \in posts /\ q.job # j /\ q.job \in WorkId
    BY <1>d, <2>1 DEF PostRec
  <2> QED BY <1>a, <1>b, <2>1 DEF LiveSound
<1>10. HandsSound'
  BY <1>c DEF HandsSound
<1>11. ClaimSound'
  BY <1>a, <1>b, <1>c DEF ClaimSound, ClaimedStatus
<1> QED BY <1>1, <1>2, <1>3, <1>5, <1>6, <1>7, <1>8, <1>9, <1>10, <1>11 DEF WindowsInv

\* The reporter of j, the agent or its helper, goes on to place.
AgentReporter(j, place) ==
  /\ agent.up /\ agent.job = j /\ agent.pc \in {"report", "wait"} /\ updater[j].pc = "none" /\ updater' = updater
  /\ agent' \in AgentRec /\ agent'.up /\ agent'.bin = agent.bin /\ agent'.ok = agent.ok
  /\ agent'.pc = place /\ agent'.job = (IF place = "idle" THEN 0 ELSE j)
HelperReporter(j, place) ==
  /\ agent' = agent /\ agent.job # j /\ updater[j].pc \in {"report", "wait"}
  /\ updater' \in [WorkId -> HelperRec] /\ (\A k \in WorkId \ {j} : updater'[k] = updater[k])
  /\ updater'[j].pc = (IF place = "idle" THEN "done" ELSE place)
  /\ updater'[j].previous = updater[j].previous /\ updater'[j].ok = updater[j].ok
ReporterGoes(j, place) == AgentReporter(j, place) \/ HelperReporter(j, place)

LEMMA ReporterMoves ==
  ASSUME WindowsInv, NEW j \in WorkId, NEW place \in {"idle", "report", "wait"}, Reporter(j, place),
         (agent.job = j /\ agent.pc \in {"report", "wait"}) \/ updater[j].pc \in {"report", "wait"}
  PROVE  ReporterGoes(j, place)
<1> USE WindowsParts, JobNumbers
<1>1. agent.job = j => agent.up
  BY DEF AgentSound, Ended
<1>2. updater[j].pc # "none" => agent.job # j
  BY DEF HelperSound, ApplySound, IsUpdate
<1>3. CASE agent.job = j /\ agent.pc \in {"report", "wait"}
  <2>1. agent' = [agent EXCEPT !.pc = place, !.job = IF place = "idle" THEN 0 ELSE j] /\ UNCHANGED updater /\ agent.up
    BY <1>1, <1>3 DEF Reporter
  <2>2. agent' \in AgentRec /\ agent'.up /\ agent'.bin = agent.bin /\ agent'.ok = agent.ok /\ agent'.pc = place
        /\ agent'.job = (IF place = "idle" THEN 0 ELSE j)
    BY <2>1 DEF AgentTyped, AgentRec
  <2> QED BY <1>2, <1>3, <2>1, <2>2 DEF ReporterGoes, AgentReporter
<1>4. CASE ~(agent.job = j /\ agent.pc \in {"report", "wait"})
  <2>1. updater' = [updater EXCEPT ![j].pc = IF place = "idle" THEN "done" ELSE place] /\ UNCHANGED agent
    BY <1>4 DEF Reporter
  <2>2. /\ updater' \in [WorkId -> HelperRec] /\ (\A k \in WorkId \ {j} : updater'[k] = updater[k])
        /\ updater'[j].pc = (IF place = "idle" THEN "done" ELSE place)
        /\ updater'[j].previous = updater[j].previous /\ updater'[j].ok = updater[j].ok
    BY <2>1 DEF HostTyped, HelperRec, HelperPlaces
  <2>3. agent.job # j /\ updater[j].pc \in {"report", "wait"}
    BY <1>2, <1>4
  <2> QED BY <2>1, <2>2, <2>3 DEF ReporterGoes, HelperReporter
<1> QED BY <1>3, <1>4

LEMMA ReporterHanded ==
  ASSUME WindowsInv, NEW j \in WorkId, NEW place, ReporterGoes(j, place)
  PROVE  /\ work[j].mode = "apply" => /\ Handed(j) /\ Refusals(j) = {}
                                      /\ state[j] \in {"applying", "succeeded", "reconcile_required"}
         /\ state[j] # "none"
         /\ agent.job = j \/ updater[j].pc # "none"
<1> USE WindowsParts
<1>1. agent.job = j \/ updater[j].pc # "none"
  BY DEF ReporterGoes, AgentReporter, HelperReporter
<1>2. agent.job = j \/ runs[j] # 0
  BY <1>1 DEF HelperSound
<1>3. Handed(j)
  BY <1>2 DEF Handed
<1>4. state[j] # "none"
  BY <1>2 DEF NoTrace
<1> QED BY <1>1, <1>3, <1>4 DEF ApplySound

LEMMA ReportFinalKeeps ==
  ASSUME WindowsInv, NEW j \in WorkId, ReporterGoes(j, "idle"), state[j] \in Final,
         UNCHANGED <<work, state, results, posts, service, runs, good, recovered, budget>>,
         \A p \in posts : p.job = j => ~p.live
  PROVE  WindowsInv'
<1> USE WindowsParts, JobNumbers
<1>b. /\ work[j].mode = "apply" => /\ Handed(j) /\ Refusals(j) = {}
                                   /\ state[j] \in {"applying", "succeeded", "reconcile_required"}
      /\ state[j] # "none" /\ (agent.job = j \/ updater[j].pc # "none")
  BY ReporterHanded
<1>1. TableTyped'
  BY <1>b DEF TableTyped, WorkRec, ReporterGoes, AgentReporter, HelperReporter, HostTyped
<1>2. HostTyped'
  BY <1>b DEF HostTyped, HelperRec, HelperPlaces, Working, ReporterGoes, AgentReporter,
     HelperReporter, TableTyped
<1>3. AgentTyped'
  BY <1>b DEF AgentTyped, AgentRec, PostRec, ReporterGoes, AgentReporter, HelperReporter,
     TableTyped, HostTyped
<1>4. BudgetTyped'
  BY <1>b DEF BudgetTyped, ReporterGoes, AgentReporter, HelperReporter, TableTyped, HostTyped
<1>5. AgentSound'
  BY <1>b DEF AgentSound, Ended, IsUpdate, ReporterGoes, AgentReporter, HelperReporter,
     TableTyped, HostTyped
<1>6. OneExecutes'
  BY <1>b DEF OneExecutes, Executing, ReporterGoes, AgentReporter, HelperReporter, TableTyped,
     HostTyped
<1>7. ASSUME NEW k \in WorkId PROVE NoTrace(k)'
  BY <1>7, <1>b DEF NoTrace, ReporterGoes, AgentReporter, HelperReporter, TableTyped, HostTyped
<1>8. ASSUME NEW k \in WorkId PROVE ApplySound(k)'
  BY <1>8, <1>b DEF ApplySound, Handed, OwnPosts, Refusals, IsUpdate, ReporterGoes,
     AgentReporter, HelperReporter, TableTyped, HostTyped
<1>9. ASSUME NEW k \in WorkId PROVE HelperSound(k)'
  BY <1>9, <1>b DEF HelperSound, OwnPosts, IsUpdate, Working, ReporterGoes, AgentReporter,
     HelperReporter, TableTyped, HostTyped
<1>10. SuccessSound'
  BY <1>b DEF SuccessSound, ReporterGoes, AgentReporter, HelperReporter, TableTyped, HostTyped
<1>11. InstallSound'
  BY <1>b DEF InstallSound, HelperAt, Tolerated, GoodUpdate, AtHelper, IsUpdate, ReporterGoes,
     AgentReporter, HelperReporter, TableTyped, HostTyped
<1>12. LiveSound'
  BY <1>b DEF LiveSound, ReporterGoes, AgentReporter, HelperReporter, TableTyped, HostTyped,
     AgentTyped, PostRec
<1>13. HandsSound'
  BY <1>b DEF HandsSound, Held, Executing, Working, ReporterGoes, AgentReporter, HelperReporter,
     TableTyped, HostTyped, AgentTyped, PostRec, Final
<1>14. ClaimSound'
  BY <1>b DEF ClaimSound, ClaimedStatus, Executing, Final, ReporterGoes, AgentReporter,
     HelperReporter, TableTyped, HostTyped
<1> QED BY <1>1, <1>2, <1>3, <1>4, <1>5, <1>6, <1>7, <1>8, <1>9, <1>10, <1>11, <1>12, <1>13,
   <1>14 DEF WindowsInv

LEMMA ReportPostedKeeps ==
  ASSUME WindowsInv, NEW j \in WorkId, ReporterGoes(j, "wait"),
         NEW q \in PostRec, q.job = j, q.pc = "update", q.live, posts' = posts \cup {q},
         q.to = "succeeded" => j \in good, q.to = "failed" => work[j].mode # "apply",
         UNCHANGED <<work, state, results, service, runs, good, recovered, budget>>,
         \A p \in posts : p.job = j => ~p.live
  PROVE  WindowsInv'
<1> USE WindowsParts, JobNumbers
<1>b. /\ work[j].mode = "apply" => /\ Handed(j) /\ Refusals(j) = {}
                                   /\ state[j] \in {"applying", "succeeded", "reconcile_required"}
      /\ state[j] # "none" /\ (agent.job = j \/ updater[j].pc # "none")
  BY ReporterHanded
<1>1. TableTyped'
  BY <1>b DEF TableTyped, WorkRec, ReporterGoes, AgentReporter, HelperReporter, HostTyped
<1>2. HostTyped'
  BY <1>b DEF HostTyped, HelperRec, HelperPlaces, Working, ReporterGoes, AgentReporter,
     HelperReporter, TableTyped
<1>3. AgentTyped'
  BY <1>b DEF AgentTyped, AgentRec, PostRec, ReporterGoes, AgentReporter, HelperReporter,
     TableTyped, HostTyped
<1>4. BudgetTyped'
  BY <1>b DEF BudgetTyped, ReporterGoes, AgentReporter, HelperReporter, TableTyped, HostTyped
<1>5. AgentSound'
  BY <1>b DEF AgentSound, Ended, IsUpdate, ReporterGoes, AgentReporter, HelperReporter,
     TableTyped, HostTyped
<1>6. OneExecutes'
  BY <1>b DEF OneExecutes, Executing, ReporterGoes, AgentReporter, HelperReporter, TableTyped,
     HostTyped
<1>7. ASSUME NEW k \in WorkId PROVE NoTrace(k)'
  BY <1>7, <1>b DEF NoTrace, ReporterGoes, AgentReporter, HelperReporter, TableTyped, HostTyped
<1>8. ASSUME NEW k \in WorkId PROVE ApplySound(k)'
  BY <1>8, <1>b DEF ApplySound, Handed, OwnPosts, Refusals, IsUpdate, ReporterGoes,
     AgentReporter, HelperReporter, TableTyped, HostTyped
<1>9. ASSUME NEW k \in WorkId PROVE HelperSound(k)'
  BY <1>9, <1>b DEF HelperSound, OwnPosts, IsUpdate, Working, ReporterGoes, AgentReporter,
     HelperReporter, TableTyped, HostTyped
<1>10. SuccessSound'
  BY <1>b DEF SuccessSound, ReporterGoes, AgentReporter, HelperReporter, TableTyped, HostTyped
<1>11. InstallSound'
  BY <1>b DEF InstallSound, HelperAt, Tolerated, GoodUpdate, AtHelper, IsUpdate, ReporterGoes,
     AgentReporter, HelperReporter, TableTyped, HostTyped
<1>12. LiveSound'
  BY <1>b DEF LiveSound, ReporterGoes, AgentReporter, HelperReporter, TableTyped, HostTyped,
     AgentTyped, PostRec
<1>13. HandsSound'
  BY <1>b DEF HandsSound, Held, Executing, Working, ReporterGoes, AgentReporter, HelperReporter,
     TableTyped, HostTyped, AgentTyped, PostRec
<1>14. ClaimSound'
  BY <1>b DEF ClaimSound, ClaimedStatus, Executing, Final, ReporterGoes, AgentReporter,
     HelperReporter, TableTyped, HostTyped
<1> QED BY <1>1, <1>2, <1>3, <1>4, <1>5, <1>6, <1>7, <1>8, <1>9, <1>10, <1>11, <1>12, <1>13,
   <1>14 DEF WindowsInv

LEMMA Outcome ==
  ASSUME WindowsInv, NEW j \in WorkId, Reporting(j), NEW to \in Outcomes(j)
  PROVE  /\ to \in {"succeeded", "failed", "reconcile_required"}
         /\ (to = "succeeded" => j \in good) /\ (to = "failed" => work[j].mode # "apply")
         /\ (to = "reconcile_required" => work[j].mode = "apply")
<1> USE WindowsParts
<1>1. PICK usable \in BOOLEAN : to = ReportedStatus(j, Reported(j) /\ usable)
  BY DEF Outcomes, Usable
<1>2. Reported(j) => j \in good
  <2>1. CASE agent.up /\ agent.job = j /\ agent.pc \in {"report", "wait"}
    BY <2>1 DEF Reported, SuccessSound
  <2>2. CASE ~(agent.up /\ agent.job = j /\ agent.pc \in {"report", "wait"})
    BY <2>2 DEF Reported, SuccessSound
  <2> QED BY <2>1, <2>2
<1>3. CASE Reported(j) /\ usable
  BY <1>1, <1>2, <1>3 DEF ReportedStatus
<1>4. CASE ~(Reported(j) /\ usable)
  BY <1>1, <1>4 DEF ReportedStatus
<1> QED BY <1>3, <1>4

LEMMA NothingMoves ==
  ASSUME WindowsInv, UNCHANGED windowsVars
  PROVE  WindowsInv'
<1> USE WindowsParts DEF windowsVars, table, host
<1>1. TableTyped' /\ HostTyped' /\ AgentTyped' /\ BudgetTyped' /\ AgentSound' /\ OneExecutes'
  BY DEF TableTyped, HostTyped, AgentTyped, BudgetTyped, AgentSound, OneExecutes, IsUpdate
<1>2. ASSUME NEW k \in WorkId PROVE NoTrace(k)' /\ ApplySound(k)' /\ HelperSound(k)'
  BY <1>2 DEF NoTrace, ApplySound, HelperSound, Handed, OwnPosts, Refusals, IsUpdate
<1>3. SuccessSound' /\ InstallSound' /\ LiveSound'
  BY DEF SuccessSound, InstallSound, LiveSound, Tolerated, GoodUpdate, AtHelper, HelperAt, IsUpdate
<1>4. HandsSound' /\ ClaimSound'
  BY DEF HandsSound, ClaimSound, Held, ClaimedStatus
<1> QED BY <1>1, <1>2, <1>3, <1>4 DEF WindowsInv

LEMMA ReportKeeps ==
  ASSUME WindowsInv, NEW j \in WorkId, ReportWindowsWorkflow(j)
  PROVE  WindowsInv'
<1> USE WindowsParts
<1>1. Reporting(j) /\ UNCHANGED <<work, state, results, service, runs, good, recovered, budget>>
  BY DEF ReportWindowsWorkflow, table
<1>2. (agent.job = j /\ agent.pc = "report") \/ updater[j].pc = "report"
  BY <1>1 DEF Reporting
<1>3. updater[j].pc # "none" => agent.job # j
  BY DEF HelperSound, ApplySound, IsUpdate
<1>4. \A p \in posts : p.job = j => ~p.live
  BY <1>2, <1>3 DEF LiveSound
<1>5. CASE state[j] \in Final /\ Reporter(j, "idle") /\ UNCHANGED posts
  <2>1. ReporterGoes(j, "idle")
    BY <1>2, <1>5, ReporterMoves
  <2> QED BY <1>1, <1>4, <1>5, <2>1, ReportFinalKeeps
<1>6. ASSUME NEW to \in Outcomes(j), Reporter(j, "wait"),
             posts' = posts \cup {[job |-> j, to |-> to, pc |-> "update", live |-> TRUE]}
      PROVE  WindowsInv'
  <2>1. ReporterGoes(j, "wait")
    BY <1>2, <1>6, ReporterMoves
  <2>2. /\ to \in {"succeeded", "failed", "reconcile_required"}
        /\ (to = "succeeded" => j \in good) /\ (to = "failed" => work[j].mode # "apply")
    BY <1>1, Outcome
  <2>3. PICK q : q = [job |-> j, to |-> to, pc |-> "update", live |-> TRUE]
    OBVIOUS
  <2>4. q \in PostRec /\ q.job = j /\ q.to = to /\ q.pc = "update" /\ q.live
    BY <2>2, <2>3 DEF PostRec
  <2>5. posts' = posts \cup {q}
    BY <1>6, <2>3
  <2> QED BY <1>1, <1>4, <2>1, <2>2, <2>4, <2>5, ReportPostedKeeps
<1>7. CASE UNCHANGED <<agent, updater, posts>>
  BY <1>1, <1>7, NothingMoves DEF windowsVars, table, host
<1> QED BY <1>5, <1>6, <1>7 DEF ReportWindowsWorkflow, LoadJob

LEMMA EndLiveKeeps ==
  ASSUME WindowsInv, NEW j \in WorkId, NEW p \in posts, p.live, p.job = j,
         NEW place \in {"idle", "report"}, place = "idle" => p.pc = "events", ReporterGoes(j, place),
         posts' = posts \ {p},
         UNCHANGED <<work, state, results, service, runs, good, recovered>>, BudgetTyped',
         budget'.retries = budget.retries, budget.faults <= budget'.faults,
         budget'.faults = budget.faults \/ budget'.faults = budget.faults + 1
  PROVE  WindowsInv'
<1> USE WindowsParts, JobNumbers
<1>b. /\ work[j].mode = "apply" => /\ Handed(j) /\ Refusals(j) = {}
                                   /\ state[j] \in {"applying", "succeeded", "reconcile_required"}
      /\ state[j] # "none" /\ (agent.job = j \/ updater[j].pc # "none")
  BY ReporterHanded

<1>c. budget.faults \in Nat /\ budget'.faults \in Nat
  BY DEF BudgetTyped
<1>d. (agent.job = j /\ agent.pc = "wait") \/ updater[j].pc = "wait"
  BY DEF LiveSound
<1>1. TableTyped'
  BY <1>b, <1>c, <1>d DEF TableTyped, WorkRec, ReporterGoes, AgentReporter, HelperReporter,
     HostTyped
<1>2. HostTyped'
  BY <1>b, <1>c, <1>d DEF HostTyped, HelperRec, HelperPlaces, Working, ReporterGoes,
     AgentReporter, HelperReporter, TableTyped
<1>3. AgentTyped'
  BY <1>b, <1>c, <1>d DEF AgentTyped, AgentRec, PostRec, ReporterGoes, AgentReporter,
     HelperReporter, TableTyped, HostTyped
<1>4. BudgetTyped'
  OBVIOUS
<1>5. AgentSound'
  BY <1>b, <1>c, <1>d DEF AgentSound, Ended, IsUpdate, ReporterGoes, AgentReporter,
     HelperReporter, TableTyped, HostTyped
<1>6. OneExecutes'
  BY <1>b, <1>c, <1>d DEF OneExecutes, Executing, ReporterGoes, AgentReporter, HelperReporter,
     TableTyped, HostTyped
<1>7. ASSUME NEW k \in WorkId PROVE NoTrace(k)'
  BY <1>7, <1>b, <1>c, <1>d DEF NoTrace, ReporterGoes, AgentReporter, HelperReporter,
     TableTyped, HostTyped
<1>8. ASSUME NEW k \in WorkId PROVE ApplySound(k)'
  BY <1>8, <1>b, <1>c, <1>d DEF ApplySound, Handed, OwnPosts, Refusals, IsUpdate, ReporterGoes,
     AgentReporter, HelperReporter, TableTyped, HostTyped
<1>9. ASSUME NEW k \in WorkId PROVE HelperSound(k)'
  BY <1>9, <1>b, <1>c, <1>d DEF HelperSound, OwnPosts, IsUpdate, Working, ReporterGoes,
     AgentReporter, HelperReporter, TableTyped, HostTyped
<1>10. SuccessSound'
  BY <1>b, <1>c, <1>d DEF SuccessSound, ReporterGoes, AgentReporter, HelperReporter, TableTyped,
     HostTyped
<1>11. InstallSound'
  BY <1>b, <1>c, <1>d DEF InstallSound, HelperAt, Tolerated, GoodUpdate, AtHelper, IsUpdate,
     ReporterGoes, AgentReporter, HelperReporter, TableTyped, HostTyped
<1>12. LiveSound'
  BY <1>b, <1>c, <1>d DEF LiveSound, ReporterGoes, AgentReporter, HelperReporter, TableTyped,
     HostTyped, AgentTyped, PostRec
<1>13. HandsSound'
  BY <1>b, <1>c, <1>d DEF HandsSound, Held, Executing, Working, ReporterGoes, AgentReporter,
     HelperReporter, TableTyped, HostTyped, AgentTyped, PostRec
<1>14. ClaimSound'
  BY <1>b, <1>c, <1>d DEF ClaimSound, ClaimedStatus, Executing, Final, ReporterGoes,
     AgentReporter, HelperReporter, TableTyped, HostTyped
<1> QED BY <1>1, <1>2, <1>3, <1>4, <1>5, <1>6, <1>7, <1>8, <1>9, <1>10, <1>11, <1>12, <1>13,
   <1>14 DEF WindowsInv

LEMMA EndUnheardKeeps ==
  ASSUME WindowsInv, NEW p \in posts, ~p.live, posts' = posts \ {p},
         UNCHANGED <<work, state, agent, results, updater, service, runs, good, recovered>>, BudgetTyped', budget'.retries = budget.retries, budget.faults <= budget'.faults,
         p.pc = "events" \/ budget'.faults = budget.faults + 1,
         budget'.faults = budget.faults \/ budget'.faults = budget.faults + 1
  PROVE  WindowsInv'
<1> USE WindowsParts, JobNumbers
<1>c. budget.faults \in Nat /\ budget'.faults \in Nat
  BY DEF BudgetTyped
<1>1. TableTyped'
  BY <1>c DEF TableTyped, WorkRec, IsUpdate, HostTyped
<1>2. HostTyped'
  BY <1>c DEF HostTyped, HelperRec, HelperPlaces, Working, IsUpdate, TableTyped
<1>3. AgentTyped'
  BY <1>c DEF AgentTyped, AgentRec, PostRec, IsUpdate, TableTyped, HostTyped
<1>4. BudgetTyped'
  OBVIOUS
<1>5. AgentSound'
  BY <1>c DEF AgentSound, Ended, IsUpdate, TableTyped, HostTyped
<1>6. OneExecutes'
  BY <1>c DEF OneExecutes, Executing, IsUpdate, TableTyped, HostTyped
<1>7. ASSUME NEW k \in WorkId PROVE NoTrace(k)'
  BY <1>7, <1>c DEF NoTrace, IsUpdate, TableTyped, HostTyped
<1>8. ASSUME NEW k \in WorkId PROVE ApplySound(k)'
  BY <1>8, <1>c DEF ApplySound, Handed, OwnPosts, Refusals, IsUpdate, TableTyped, HostTyped
<1>9. ASSUME NEW k \in WorkId PROVE HelperSound(k)'
  BY <1>9, <1>c DEF HelperSound, OwnPosts, IsUpdate, Working, TableTyped, HostTyped
<1>10. SuccessSound'
  BY <1>c DEF SuccessSound, IsUpdate, TableTyped, HostTyped
<1>11. InstallSound'
  BY <1>c DEF InstallSound, HelperAt, Tolerated, GoodUpdate, AtHelper, IsUpdate, TableTyped,
     HostTyped
<1>12. LiveSound'
  BY <1>c DEF LiveSound, IsUpdate, TableTyped, HostTyped, AgentTyped, PostRec
<1>13. HandsSound'
  BY <1>c DEF HandsSound, Held, Executing, Working, IsUpdate, TableTyped, HostTyped, AgentTyped,
     PostRec
<1>14. ClaimSound'
  BY <1>c DEF ClaimSound, ClaimedStatus, Executing, Final, IsUpdate, TableTyped, HostTyped
<1> QED BY <1>1, <1>2, <1>3, <1>4, <1>5, <1>6, <1>7, <1>8, <1>9, <1>10, <1>11, <1>12, <1>13,
   <1>14 DEF WindowsInv

LEMMA AnswerLostKeeps ==
  ASSUME WindowsInv, NEW j \in WorkId, NEW p \in posts, p.live, p.job = j, ReporterGoes(j, "report"),
         NEW q \in PostRec, q.job = p.job, q.to = p.to, q.pc = p.pc, ~q.live,
         posts' = (posts \ {p}) \cup {q},
         UNCHANGED <<work, state, results, service, runs, good, recovered>>, BudgetTyped', budget'.retries = budget.retries, budget.faults <= budget'.faults,
         budget'.faults = budget.faults + 1
  PROVE  WindowsInv'
<1> USE WindowsParts, JobNumbers
<1>b. /\ work[j].mode = "apply" => /\ Handed(j) /\ Refusals(j) = {}
                                   /\ state[j] \in {"applying", "succeeded", "reconcile_required"}
      /\ state[j] # "none" /\ (agent.job = j \/ updater[j].pc # "none")
  BY ReporterHanded

<1>c. budget.faults \in Nat /\ budget'.faults \in Nat
  BY DEF BudgetTyped

<1>d. (agent.job = j /\ agent.pc = "wait") \/ updater[j].pc = "wait"
  BY DEF LiveSound
<1>1. TableTyped'
  BY <1>b, <1>c, <1>d DEF TableTyped, WorkRec, ReporterGoes, AgentReporter, HelperReporter,
     HostTyped
<1>2. HostTyped'
  BY <1>b, <1>c, <1>d DEF HostTyped, HelperRec, HelperPlaces, Working, ReporterGoes,
     AgentReporter, HelperReporter, TableTyped
<1>3. AgentTyped'
  BY <1>b, <1>c, <1>d DEF AgentTyped, AgentRec, PostRec, ReporterGoes, AgentReporter,
     HelperReporter, TableTyped, HostTyped
<1>4. BudgetTyped'
  OBVIOUS
<1>5. AgentSound'
  BY <1>b, <1>c, <1>d DEF AgentSound, Ended, IsUpdate, ReporterGoes, AgentReporter,
     HelperReporter, TableTyped, HostTyped
<1>6. OneExecutes'
  BY <1>b, <1>c, <1>d DEF OneExecutes, Executing, ReporterGoes, AgentReporter, HelperReporter,
     TableTyped, HostTyped
<1>7. ASSUME NEW k \in WorkId PROVE NoTrace(k)'
  BY <1>7, <1>b, <1>c, <1>d DEF NoTrace, ReporterGoes, AgentReporter, HelperReporter,
     TableTyped, HostTyped
<1>8. ASSUME NEW k \in WorkId PROVE ApplySound(k)'
  BY <1>8, <1>b, <1>c, <1>d DEF ApplySound, Handed, OwnPosts, Refusals, IsUpdate, ReporterGoes,
     AgentReporter, HelperReporter, TableTyped, HostTyped
<1>9. ASSUME NEW k \in WorkId PROVE HelperSound(k)'
  BY <1>9, <1>b, <1>c, <1>d DEF HelperSound, OwnPosts, IsUpdate, Working, ReporterGoes,
     AgentReporter, HelperReporter, TableTyped, HostTyped
<1>10. SuccessSound'
  BY <1>b, <1>c, <1>d DEF SuccessSound, ReporterGoes, AgentReporter, HelperReporter, TableTyped,
     HostTyped
<1>11. InstallSound'
  BY <1>b, <1>c, <1>d DEF InstallSound, HelperAt, Tolerated, GoodUpdate, AtHelper, IsUpdate,
     ReporterGoes, AgentReporter, HelperReporter, TableTyped, HostTyped
<1>12. LiveSound'
  BY <1>b, <1>c, <1>d DEF LiveSound, ReporterGoes, AgentReporter, HelperReporter, TableTyped,
     HostTyped, AgentTyped, PostRec
<1>13. HandsSound'
  BY <1>b, <1>c, <1>d DEF HandsSound, Held, Executing, Working, ReporterGoes, AgentReporter,
     HelperReporter, TableTyped, HostTyped, AgentTyped, PostRec
<1>14. ClaimSound'
  BY <1>b, <1>c, <1>d DEF ClaimSound, ClaimedStatus, Executing, Final, ReporterGoes,
     AgentReporter, HelperReporter, TableTyped, HostTyped
<1> QED BY <1>1, <1>2, <1>3, <1>4, <1>5, <1>6, <1>7, <1>8, <1>9, <1>10, <1>11, <1>12, <1>13,
   <1>14 DEF WindowsInv

LEMMA UpdateKeeps ==
  ASSUME WindowsInv, NEW j \in WorkId, NEW p \in posts, p.job = j, p.pc = "update",
         state' = [state EXCEPT ![j] = p.to],
         NEW q \in PostRec, q.job = p.job, q.to = p.to, q.pc = "events", q.live <=> p.live, p.live => q = [p EXCEPT !.pc = "events"],
         posts' = (posts \ {p}) \cup {q},
         UNCHANGED <<work, agent, results, updater, service, runs, good, recovered, budget>>
  PROVE  WindowsInv'
<1> USE WindowsParts, JobNumbers
<1>b. /\ p.to \in {"succeeded", "failed", "reconcile_required"} /\ state[j] # "none"
      /\ (p.to = "succeeded" => j \in good)
  BY DEF AgentTyped, PostRec, NoTrace, SuccessSound
<1>c. \A k \in WorkId \ {j} : state'[k] = state[k]
  BY DEF TableTyped
<1>d. state'[j] = p.to
  BY DEF TableTyped
<1>e. p.to # "failed" => OwnPosts(j) # {}
  BY DEF OwnPosts
<1>f. p.to = "failed" => Refusals(j) # {}
  BY DEF Refusals
<1>1. TableTyped'
  BY <1>b, <1>c, <1>d, <1>e, <1>f DEF TableTyped, WorkRec, IsUpdate, HostTyped, AgentTyped
<1>2. HostTyped'
  BY <1>b, <1>c, <1>d, <1>e, <1>f DEF HostTyped, HelperRec, HelperPlaces, Working, IsUpdate,
     TableTyped
<1>3. AgentTyped'
  BY <1>b, <1>c, <1>d, <1>e, <1>f DEF AgentTyped, AgentRec, PostRec, IsUpdate, TableTyped, HostTyped
<1>4. BudgetTyped'
  BY <1>b, <1>c, <1>d, <1>e, <1>f DEF BudgetTyped, IsUpdate, TableTyped, HostTyped
<1>5. AgentSound'
  BY <1>b, <1>c, <1>d, <1>e, <1>f DEF AgentSound, Ended, IsUpdate, TableTyped, HostTyped
<1>6. OneExecutes'
  BY <1>b, <1>c, <1>d, <1>e, <1>f DEF OneExecutes, Executing, IsUpdate, TableTyped, HostTyped
<1>7. ASSUME NEW k \in WorkId PROVE NoTrace(k)'
  BY <1>7, <1>b, <1>c, <1>d, <1>e, <1>f DEF NoTrace, IsUpdate, TableTyped, HostTyped
<1>8. ASSUME NEW k \in WorkId PROVE ApplySound(k)'
  <2> SUFFICES ASSUME work[k].mode = "apply" PROVE ApplySound(k)'
    BY DEF ApplySound
  <2>1. (OwnPosts(k)' # {} <=> OwnPosts(k) # {}) /\ (Handed(k)' <=> Handed(k)) /\ (IsUpdate(k)' <=> IsUpdate(k))
    BY <1>b DEF OwnPosts, Handed, IsUpdate
  <2>2. CASE k # j
    <3>1. Refusals(k)' # {} => Refusals(k) # {}
      BY <2>2 DEF Refusals
    <3> QED BY <1>c, <2>1, <2>2, <3>1 DEF ApplySound
  <2>3. CASE k = j
    <3>1. Refusals(j)' = {}
      <4>1. SUFFICES ASSUME NEW r \in posts, r.job = j, r.to = "failed", r.pc = "update", r # p PROVE FALSE
        BY DEF Refusals
      <4>2. ~Handed(j)
        BY <2>3, <4>1 DEF ApplySound, Refusals
      <4>3. agent.job # j /\ updater[j].pc = "none" /\ p.to = "failed"
        BY <4>2, <1>e DEF Handed, HelperSound
      <4>4. ~r.live /\ ~p.live
        BY <4>1, <4>3 DEF LiveSound
      <4>5. r = p
        BY <4>1, <4>3, <4>4 DEF AgentTyped, PostRec
      <4> QED BY <4>1, <4>5
    <3>2. Handed(j) => p.to # "failed"
      BY <2>3, <1>f DEF ApplySound
    <3>3. p.to # "failed" => Handed(j)
      BY <1>e DEF Handed
    <3>4. agent.job = j /\ agent.pc \in {"run", "running"} => FALSE
      BY <2>3, <1>e, <1>f DEF ApplySound, Handed
    <3> QED BY <1>b, <1>d, <2>1, <2>3, <3>1, <3>2, <3>3, <3>4 DEF ApplySound
  <2> QED BY <2>2, <2>3
<1>9. ASSUME NEW k \in WorkId PROVE HelperSound(k)'
  <2>1. (OwnPosts(k)' # {} <=> OwnPosts(k) # {}) /\ (IsUpdate(k)' <=> IsUpdate(k))
    BY <1>b DEF OwnPosts, IsUpdate
  <2>2. CASE k # j
    BY <1>c, <2>1, <2>2 DEF HelperSound
  <2>3. CASE k = j
    <3>1. updater[j].pc # "none" => Handed(j) /\ work[j].mode = "apply"
      BY DEF HelperSound, Handed, IsUpdate
    <3>2. updater[j].pc # "none" => p.to # "failed"
      BY <1>f, <3>1 DEF ApplySound
    <3>3. updater[j].pc \notin Working
      BY <1>e, <3>2 DEF HelperSound, Working
    <3> QED BY <2>1, <2>3, <3>3 DEF HelperSound
  <2> QED BY <2>2, <2>3
<1>10. SuccessSound'
  BY <1>b, <1>c, <1>d, <1>e, <1>f DEF SuccessSound, IsUpdate, TableTyped, HostTyped
<1>11. InstallSound'
  BY <1>b, <1>c, <1>d, <1>e, <1>f DEF InstallSound, HelperAt, Tolerated, GoodUpdate, AtHelper,
     IsUpdate, TableTyped, HostTyped
<1>12. LiveSound'
  BY <1>b, <1>c, <1>d, <1>e, <1>f DEF LiveSound, IsUpdate, TableTyped, HostTyped, AgentTyped,
     PostRec
<1>13. HandsSound'
  BY <1>b, <1>c, <1>d, <1>e, <1>f DEF HandsSound, Held, Executing, Working, IsUpdate,
     TableTyped, HostTyped, AgentTyped, PostRec
<1>14. ClaimSound'
  BY <1>b, <1>c, <1>d, <1>e, <1>f DEF ClaimSound, ClaimedStatus, Executing, Final, IsUpdate,
     TableTyped, HostTyped
<1> QED BY <1>1, <1>2, <1>3, <1>4, <1>5, <1>6, <1>7, <1>8, <1>9, <1>10, <1>11, <1>12, <1>13,
   <1>14 DEF WindowsInv

LEMMA PersistUpdateKeeps ==
  ASSUME WindowsInv, NEW p \in posts, PersistUpdate(p)
  PROVE  WindowsInv'
<1>1. p \in PostRec
  BY WindowsParts DEF AgentTyped
<1>2. PICK j \in WorkId : j = p.job
  BY <1>1 DEF PostRec
<1>3. PICK q : q = [p EXCEPT !.pc = "events"]
  OBVIOUS
<1>4. q \in PostRec /\ q.job = p.job /\ q.to = p.to /\ q.pc = "events" /\ (q.live <=> p.live)
  BY <1>1, <1>3 DEF PostRec
<1>5. /\ p.pc = "update" /\ state' = [state EXCEPT ![j] = p.to] /\ posts' = (posts \ {p}) \cup {q}
      /\ UNCHANGED <<work, agent, results, updater, service, runs, good, recovered, budget>>
  BY <1>2, <1>3 DEF PersistUpdate, host
<1> QED BY <1>2, <1>3, <1>4, <1>5, UpdateKeeps

LEMMA Waits ==
  ASSUME WindowsInv, NEW p \in posts, p.live
  PROVE  p.job \in WorkId /\ ((agent.job = p.job /\ agent.pc \in {"report", "wait"}) \/ updater[p.job].pc \in {"report", "wait"})
BY WindowsParts DEF LiveSound, AgentTyped, PostRec

LEMMA PersistEventsKeeps ==
  ASSUME WindowsInv, NEW p \in posts, PersistEvents(p)
  PROVE  WindowsInv'
<1>1. /\ p.pc = "events" /\ posts' = posts \ {p}
      /\ UNCHANGED <<work, state, results, service, runs, good, recovered, budget>>
  BY DEF PersistEvents, table
<1>2. BudgetTyped' /\ budget'.retries = budget.retries /\ budget'.faults = budget.faults /\ budget.faults <= budget'.faults
  BY <1>1, WindowsParts, NoFaultCounts
<1>3. CASE p.live
  <2>1. PICK j \in WorkId : j = p.job
    BY <1>3, Waits
  <2>2. ReporterGoes(j, "idle")
    BY <1>3, <2>1, Waits, ReporterMoves DEF PersistEvents
  <2> QED BY <1>1, <1>2, <1>3, <2>1, <2>2, EndLiveKeeps
<1>4. CASE ~p.live
  BY <1>1, <1>2, <1>4, EndUnheardKeeps DEF PersistEvents
<1> QED BY <1>3, <1>4

LEMMA PersistFailsKeeps ==
  ASSUME WindowsInv, NEW p \in posts, PersistFails(p)
  PROVE  WindowsInv'
<1>1. Fault /\ posts' = posts \ {p} /\ UNCHANGED <<work, state, results, service, runs, good, recovered>>
  BY DEF PersistFails, table
<1>2. BudgetTyped' /\ budget'.retries = budget.retries /\ budget'.faults = budget.faults + 1 /\ budget.faults <= budget'.faults
  BY <1>1, WindowsParts, FaultCounts
<1>3. CASE p.live
  <2>1. PICK j \in WorkId : j = p.job
    BY <1>3, Waits
  <2>2. ReporterGoes(j, "report")
    BY <1>3, <2>1, Waits, ReporterMoves DEF PersistFails
  <2> QED BY <1>1, <1>2, <1>3, <2>1, <2>2, EndLiveKeeps
<1>4. CASE ~p.live
  BY <1>1, <1>2, <1>4, EndUnheardKeeps DEF PersistFails
<1> QED BY <1>3, <1>4

LEMMA ReportAnswerLostKeeps ==
  ASSUME WindowsInv, NEW p \in posts, ReportAnswerLost(p)
  PROVE  WindowsInv'
<1>1. PICK q : q = [p EXCEPT !.live = FALSE]
  OBVIOUS
<1>2. p.live /\ Fault /\ posts' = (posts \ {p}) \cup {q} /\ UNCHANGED <<work, state, results, service, runs, good, recovered>>
  BY <1>1 DEF ReportAnswerLost, table
<1>3. BudgetTyped' /\ budget'.retries = budget.retries /\ budget'.faults = budget.faults + 1 /\ budget.faults <= budget'.faults
  BY <1>2, WindowsParts, FaultCounts
<1>4. PICK j \in WorkId : j = p.job
  BY <1>2, Waits
<1>5. ReporterGoes(j, "report")
  BY <1>2, <1>4, Waits, ReporterMoves DEF ReportAnswerLost
<1>6. q \in PostRec /\ q.job = p.job /\ q.to = p.to /\ q.pc = p.pc /\ ~q.live
  BY <1>1, WindowsParts DEF AgentTyped, PostRec
<1> QED BY <1>2, <1>3, <1>4, <1>5, <1>6, AnswerLostKeeps

LEMMA SubmitKeeps ==
  ASSUME WindowsInv, NEW j \in WorkId, SubmitWindowsJob(j) \/ ReconcileWindowsJob(j)
  PROVE  WindowsInv'
<1>1. CASE SubmitWindowsJob(j)
  <2>1. PICK k \in WorkflowKinds : Insert(j, [op |-> k[1], mode |-> k[2], src |-> 0])
    BY <1>1 DEF SubmitWindowsJob
  <2>2. [op |-> k[1], mode |-> k[2], src |-> 0] \in WorkRec
    BY WindowsAssumption, JobNumbers DEF WorkRec
  <2> QED BY <2>1, <2>2, InsertKeeps
<1>2. CASE ReconcileWindowsJob(j)
  <2>1. PICK u \in WorkId : Insert(j, [op |-> work[u].op, mode |-> "reconcile", src |-> u])
    BY <1>2 DEF ReconcileWindowsJob
  <2>2. [op |-> work[u].op, mode |-> "reconcile", src |-> u] \in WorkRec
    BY WindowsParts, JobNumbers DEF WorkRec, TableTyped, Mode
  <2> QED BY <2>1, <2>2, InsertKeeps
<1> QED BY <1>1, <1>2

LEMMA WindowsKept ==
  ASSUME WindowsInv, [WindowsNext]_windowsVars
  PROVE  WindowsInv'
<1>1. ASSUME AgentStep PROVE WindowsInv'
  BY <1>1, SpawnKeeps, SpawnFailsKeeps, ExecuteKeeps, CommandEndsKeeps, CrashKeeps, StartsKeeps
     DEF AgentStep
<1>2. ASSUME NEW p \in posts, PersistUpdate(p) \/ PersistEvents(p) \/ PersistFails(p) \/ ReportAnswerLost(p)
      PROVE WindowsInv'
  BY <1>2, PersistUpdateKeeps, PersistEventsKeeps, PersistFailsKeeps, ReportAnswerLostKeeps
<1>3. ASSUME NEW j \in WorkId, HelperStep(j) PROVE WindowsInv'
  BY <1>3, DownloadArtifactKeeps, StageKeeps, StopKeeps, SwitchKeeps, StartKeeps, VerifyKeeps,
     RollbackKeeps, RestoreKeeps
     DEF HelperStep
<1>4. ASSUME NEW j \in WorkId, RetryWindowsJob(j) \/ ClaimNextWindowsJob(j) \/ ClaimAnswerLost(j) \/ RefuseCommand(j)
                               \/ ReportWindowsWorkflow(j)
      PROVE WindowsInv'
  BY <1>4, RetryKeeps, ClaimNextKeeps, ClaimLostKeeps, RefuseKeeps, ReportKeeps
<1> QED BY <1>1, <1>2, <1>3, <1>4, HelperLostKeeps, SubmitKeeps, RecoverKeeps, NothingMoves
        DEF WindowsNext, HandlerStep

LEMMA WindowsStarts ==
  ASSUME WindowsInit
  PROVE  WindowsInv
<1> USE JobNumbers
<1>1. /\ agent.up /\ agent.pc = "idle" /\ agent.job = 0 /\ agent.ok = FALSE /\ agent.bin = "old" /\ agent \in AgentRec
  BY DEF WindowsInit, Started, Ended, AgentRec
<1>2. \A j \in WorkId : /\ work[j] = Free /\ state[j] = "none" /\ updater[j] = NoUpdater /\ runs[j] = 0
                        /\ updater[j].pc = "none" /\ updater[j].ok = FALSE /\ j # 0 /\ work[j].mode # "apply"
  BY DEF WindowsInit, NoUpdater, Free
<1>3. posts = {} /\ results = {} /\ good = {} /\ recovered = {} /\ service = "old" /\ IsFiniteSet(results) /\ Cardinality(results) = 0
  BY FS_EmptySet DEF WindowsInit
<1>4. TableTyped
  BY <1>3, JobNumbers DEF WindowsInit, TableTyped, WorkRec, Free
<1>5. HostTyped
  BY DEF WindowsInit, HostTyped, HelperRec, HelperPlaces, NoUpdater
<1>6. AgentTyped
  BY <1>1, <1>3, WindowsAssumption DEF AgentTyped
<1>7. BudgetTyped
  BY DEF WindowsInit, BudgetTyped
<1>8. AgentSound /\ OneExecutes
  BY <1>1, <1>2 DEF AgentSound, OneExecutes, Executing
<1>9. ASSUME NEW j \in WorkId PROVE NoTrace(j) /\ ApplySound(j) /\ HelperSound(j)
  BY <1>1, <1>2, <1>3 DEF NoTrace, ApplySound, HelperSound, Working
<1>10. SuccessSound /\ LiveSound
  BY <1>1, <1>2, <1>3 DEF SuccessSound, LiveSound
<1>11. InstallSound
  BY <1>1, <1>2, <1>3 DEF InstallSound, HelperAt, GoodUpdate
<1>12. HandsSound /\ ClaimSound
  BY <1>1, <1>2 DEF HandsSound, ClaimSound, Executing
<1> QED BY <1>4, <1>5, <1>6, <1>7, <1>8, <1>9, <1>10, <1>11, <1>12 DEF WindowsInv

LEMMA WindowsInvHolds == WindowsSpec => []WindowsInv
<1>1. WindowsInit => WindowsInv
  BY WindowsStarts
<1>2. WindowsInv /\ [WindowsNext]_windowsVars => WindowsInv'
  BY WindowsKept
<1> QED BY <1>1, <1>2, PTL DEF WindowsSpec

(* What the table says of a Windows job is what happened on the host, for   *)
(* any number of jobs, recoveries, retries, faults and remembered results:  *)
(* no apply runs twice, a success is one of its own command, and an update  *)
(* shown as succeeded is installed.                                         *)
THEOREM TableAlwaysTellsHost == WindowsSpec => []TableTellsHost
<1>1. ASSUME WindowsInv PROVE TableTellsHost
  <2> USE <1>1, WindowsParts
  <2>1. WindowsTypeOK
    <3>1. /\ work \in [WorkId -> [op : Operation \cup {"none"}, mode : Mode \cup {"none"}, src : 0..MaxWorkflows]]
          /\ state \in [WorkId -> Status \cup {"none"}] /\ good \subseteq WorkId /\ recovered \subseteq WorkId
      BY DEF TableTyped, WorkRec, Status
    <3>2. /\ agent \in [up : BOOLEAN, pc : {"idle", "run", "running", "report", "wait"},
                        job : 0..MaxWorkflows, ok : BOOLEAN, bin : {"old", "new"}]
          /\ results \subseteq WorkId \X BOOLEAN /\ Cardinality(results) <= MaxResults
      BY DEF AgentTyped, AgentRec
    <3>3. posts \subseteq [job : WorkId, to : Final, pc : {"update", "events"}, live : BOOLEAN]
      BY DEF AgentTyped, PostRec, Final
    <3>4. /\ updater \in [WorkId -> [pc : {"none", "download", "stage", "stop", "switch", "start", "verify",
                                           "rollback", "restore", "report", "wait", "done"},
                                     previous : {"old", "new"}, ok : BOOLEAN]]
          /\ service \in {"old", "new"} /\ runs \in [WorkId -> Nat]
      BY DEF HostTyped, HelperRec, HelperPlaces, Working
    <3> QED BY <3>1, <3>2, <3>3, <3>4 DEF WindowsTypeOK
  <2>2. AppliedOnce
    BY DEF AppliedOnce, ApplySound
  <2>3. SucceededOnHost
    BY DEF SucceededOnHost, SuccessSound
  <2>4. UpdateInstalled
    BY DEF UpdateInstalled, SuccessSound, InstallSound, Tolerated, GoodUpdate
  <2> QED BY <2>1, <2>2, <2>3, <2>4 DEF TableTellsHost
<1> QED BY <1>1, WindowsInvHolds, PTL

(* Nothing holds the target for good: while nothing failed and no worker    *)
(* recovered, a job that executes is in the hands of the agent, a helper or *)
(* a handler, and until an operator queues a job again every report of a    *)
(* result is one the controller accepts (finish_agent_workflow).            *)
THEOREM NobodyEverHoldsForGood == WindowsSpec => []NobodyHoldsForGood
<1>1. ASSUME WindowsInv PROVE NobodyHoldsForGood
  <2> USE <1>1, WindowsParts
  <2>1. InSomeonesHands
    <3> SUFFICES ASSUME budget.faults = 0, recovered = {}, NEW j \in WorkId, state[j] \in Executing
                 PROVE  \/ agent.up /\ agent.job = j
                        \/ updater[j].pc \notin {"none", "done"}
                        \/ \E p \in posts : p.job = j
      BY DEF InSomeonesHands
    <3>1. Held(j)
      BY DEF HandsSound
    <3>2. agent.pc \in {"run", "running", "report"} => agent.up
      BY DEF AgentSound, Ended
    <3> QED BY <3>1, <3>2 DEF Held, Working
  <2>2. ReportAcceptable
    <3> SUFFICES ASSUME budget.retries = 0, NEW j \in WorkId, Reporting(j), state[j] \notin Final, NEW to \in Outcomes(j)
                 PROVE  MayFinish(j, to)
      BY DEF ReportAcceptable
    <3>1. agent.job = j \/ updater[j].pc # "none"
      BY DEF Reporting
    <3>2. state[j] \in Executing
      BY <3>1 DEF ClaimSound
    <3>3. state[j] = ClaimedStatus(j)
      BY <3>2 DEF ClaimSound
    <3>4. /\ to \in {"succeeded", "failed", "reconcile_required"}
          /\ (to = "failed" => work[j].mode # "apply") /\ (to = "reconcile_required" => work[j].mode = "apply")
      BY Outcome
    <3>5. CASE work[j].mode = "apply"
      BY <3>3, <3>4, <3>5 DEF MayFinish, LoadJob, ClaimedStatus, CanTransitionTo
    <3>6. CASE work[j].mode # "apply"
      BY <3>3, <3>4, <3>6 DEF MayFinish, LoadJob, ClaimedStatus, CanTransitionTo
    <3> QED BY <3>5, <3>6
  <2> QED BY <2>1, <2>2 DEF NobodyHoldsForGood
<1> QED BY <1>1, WindowsInvHolds, PTL
=============================================================================
